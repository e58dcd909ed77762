------------------------------ MODULE Forging ------------------------------
(***************************************************************************)
(* The forge threads of src/forging/forging-block.go.  Threads forge one   *)
(* shared block: thread k tries the wallet addresses i with                *)
(* i % threads = k at every timestamp from the time it started, hashing    *)
(* the block with the timestamp and key appended.  A kernel hash that      *)
(* meets the difficulty is signed into the block under the package mutex   *)
(* and handed to the chain; a success clears the shared `forging` flag and *)
(* every thread then leaves its loop and calls wg.Done.                    *)
(*                                                                         *)
(* Data abstraction: a kernel is the pair <<timestamp, key>>; Winning is   *)
(* the set of pairs whose hash over the clean block meets the difficulty.  *)
(* Once a thread's buffer holds the bytes of an earlier hit (the code      *)
(* truncates only after a miss), its hashes are over other bytes, and      *)
(* whether they meet the difficulty is any boolean.  The chain accepts a   *)
(* block when its kernel is winning and its tip is still the block's       *)
(* parent; another node's block may move the tip first.                    *)
(***************************************************************************)
EXTENDS Naturals, Sequences

CONSTANTS
    Addresses,  \* wallet.GetAddresses(): the public keys, in wallet order
    Threads,    \* number of forge threads
    DRIFT,      \* config.NETWORK_TIMESTAMP_DRIFT_MAX
    MaxClock,   \* bound on the wall clock, in seconds
    Winning,    \* the <<timestamp, key>> kernels that meet the difficulty
    NoKey       \* the zero Forger of a block not yet signed

ASSUME Threads \in Nat \ {0} /\ DRIFT \in Nat /\ MaxClock \in Nat

ThreadIds == 0..(Threads - 1)
Keys == {Addresses[j] : j \in 1..Len(Addresses)}

VARIABLES
    forging,    \* the shared flag every loop tests
    clock,      \* the wall clock
    tipMoved,   \* another block has extended the tip the forged block builds on
    accepted,   \* the block the chain accepted from us, or NewBlock
    blk,        \* the shared block: its Forger and Timestamp
    fpc,        \* per thread: "loop" (line 52), "scan" (line 60), "sign" (line 72), "done"
    now,        \* per thread: time.Now() taken once at line 47
    ts,         \* per thread: the timestamp being tried
    i,          \* per thread: the address index of the inner loop
    dirty       \* per thread: serialized still holds an earlier hit's timestamp and key

threadVars == <<fpc, now, ts, i, dirty>>
vars == <<forging, clock, tipMoved, accepted, blk, threadVars>>

(* createNextBlock: a block on the current tip, unsigned, timestamp 0.     *)
NewBlock == [forger |-> NoKey, ts |-> 0]

(* blockchain.Chain.AddBlocks for a one-block array: the block extends the *)
(* tip and its kernel meets the difficulty.                                *)
AddBlocks(b) == ~tipMoved /\ accepted = NewBlock /\ <<b.ts, b.forger>> \in Winning

(* The outcomes CheckKernelHashBig can give for thread t's next hash.      *)
KernelHits(t) ==
    IF dirty[t] THEN BOOLEAN
    ELSE {(<<ts[t], Addresses[i[t] + 1]>> \in Winning)}

(* The head of the outer loop: leave when forging is over, sleep while the *)
(* timestamp is more than DRIFT ahead of `now`, else scan the addresses.   *)
(* Sleeping changes nothing, so it is no step of the model.                *)
LoopHead(t) ==
    /\ fpc[t] = "loop"
    /\ \/ ~forging /\ fpc' = [fpc EXCEPT ![t] = "done"]
       \/ /\ forging
          /\ ts[t] <= now[t] + DRIFT
          /\ fpc' = [fpc EXCEPT ![t] = "scan"]
    /\ i' = [i EXCEPT ![t] = 0]
    /\ UNCHANGED <<forging, clock, tipMoved, accepted, blk, now, ts, dirty>>

(* One turn of the inner loop: past the last address (or once forging is   *)
(* over) the timestamp advances; another thread's address is skipped; an   *)
(* own address is hashed, and a hit goes to the mutex with the appended    *)
(* bytes left in place, a miss truncates them.                             *)
Scan(t) ==
    /\ fpc[t] = "scan"
    /\ \/ /\ i[t] >= Len(Addresses) \/ ~forging
          /\ ts' = [ts EXCEPT ![t] = @ + 1]
          /\ fpc' = [fpc EXCEPT ![t] = "loop"]
          /\ UNCHANGED <<i, dirty>>
       \/ /\ i[t] < Len(Addresses) /\ forging
          /\ i[t] % Threads # t
          /\ i' = [i EXCEPT ![t] = @ + 1]
          /\ UNCHANGED <<fpc, ts, dirty>>
       \/ /\ i[t] < Len(Addresses) /\ forging
          /\ i[t] % Threads = t
          /\ \E hit \in KernelHits(t) :
                IF hit THEN /\ fpc' = [fpc EXCEPT ![t] = "sign"]
                            /\ dirty' = [dirty EXCEPT ![t] = TRUE]
                            /\ UNCHANGED i
                       ELSE /\ i' = [i EXCEPT ![t] = @ + 1]
                            /\ UNCHANGED <<fpc, dirty>>
          /\ UNCHANGED ts
    /\ UNCHANGED <<forging, clock, tipMoved, accepted, blk, now>>

(* Under the mutex: sign the shared block with this thread's key and       *)
(* timestamp and hand it to the chain; success ends forging.               *)
Sign(t) ==
    LET b == [forger |-> Addresses[i[t] + 1], ts |-> ts[t]]
    IN  /\ fpc[t] = "sign"
        /\ blk' = b
        /\ IF AddBlocks(b)
           THEN accepted' = b /\ forging' = FALSE
           ELSE UNCHANGED <<accepted, forging>>
        /\ fpc' = [fpc EXCEPT ![t] = "scan"]
        /\ i' = [i EXCEPT ![t] = @ + 1]
        /\ UNCHANGED <<clock, tipMoved, now, ts, dirty>>

(* The environment: a second passes; another node's block extends the tip. *)
Tick ==
    /\ clock < MaxClock
    /\ clock' = clock + 1
    /\ UNCHANGED <<forging, tipMoved, accepted, blk, threadVars>>

NetworkBlock ==
    /\ ~tipMoved /\ accepted = NewBlock
    /\ tipMoved' = TRUE
    /\ UNCHANGED <<forging, clock, accepted, blk, threadVars>>

Init ==
    /\ forging = TRUE
    /\ clock = 0
    /\ tipMoved = FALSE
    /\ accepted = NewBlock
    /\ blk = NewBlock
    /\ fpc = [t \in ThreadIds |-> "loop"]
    /\ now = [t \in ThreadIds |-> clock]
    /\ ts = now
    /\ i = [t \in ThreadIds |-> 0]
    /\ dirty = [t \in ThreadIds |-> FALSE]

Thread(t) == LoopHead(t) \/ Scan(t) \/ Sign(t)

Next == Tick \/ NetworkBlock \/ \E t \in ThreadIds : Thread(t)

(* Every thread is scheduled, and wall-clock time passes.                  *)
Spec == Init /\ [][Next]_vars /\ WF_vars(Tick) /\ \A t \in ThreadIds : WF_vars(Thread(t))

Blocks == [forger : Keys \cup {NoKey}, ts : Nat]

TypeOK ==
    /\ forging \in BOOLEAN /\ tipMoved \in BOOLEAN
    /\ clock \in 0..MaxClock
    /\ accepted \in Blocks /\ blk \in Blocks
    /\ fpc \in [ThreadIds -> {"loop", "scan", "sign", "done"}]
    /\ now \in [ThreadIds -> 0..MaxClock]
    /\ ts \in [ThreadIds -> Nat]
    /\ i \in [ThreadIds -> 0..Len(Addresses)]
    /\ dirty \in [ThreadIds -> BOOLEAN]

(* As the wall clock advances, a forge that is still running goes on to   *)
(* hash every timestamp up to DRIFT seconds ahead of the clock: the sleep  *)
(* at line 55 only waits for time to catch up with the timestamp.  Each    *)
(* thread eventually stays past clock + DRIFT, or forging is over.         *)
TriesEveryTimestamp ==
    \A t \in ThreadIds : <>[](forging => ts[t] > clock + DRIFT)

=============================================================================
