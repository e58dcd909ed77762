------------------------------ MODULE MC_Wallet ------------------------------
EXTENDS Wallet, TLC

CONSTANTS k1, k2, k3, p1, p2, d1, d2

\* d1 is a delegated key the wallet derives, d2 one it does not.

\* Seed indexes 0 and 1 derive k1 and k2; k2 and k3 can also be imported,
\* so an import can take the key AddNewAddress derives next.
MCMaxSeed == 2
MCSeedKey == [i \in 0..MCMaxSeed |-> IF i = 0 THEN k1 ELSE k2]
MCMaxAddresses == 3
=============================================================================
