\* `now` is read once when a forge thread starts: once its timestamp is
\* DRIFT past that instant the thread sleeps for good, however far the clock runs.
CONSTANTS
    k1 = k1
    k2 = k2
    NoKey = NoKey
    Addresses <- MCAddresses
    Winning <- MCWinning
    Threads = 2
    DRIFT = 1
    MaxClock = 2

SPECIFICATION Spec

PROPERTY TriesEveryTimestamp

\* The threads sleep, and every thread ends, in states with no step left:
\* the clock bound, not the code, stops time there.
CHECK_DEADLOCK FALSE
