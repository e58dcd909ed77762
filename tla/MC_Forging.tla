----------------------------- MODULE MC_Forging -----------------------------
(* Two forge threads over two wallet keys (one each), a drift of one       *)
(* second and a clock that runs for two.  The only winning kernel is k2's  *)
(* at timestamp 3, which a forge started at time 0 may use once the clock  *)
(* reaches 2.                                                              *)
EXTENDS Forging

CONSTANTS k1, k2

MCAddresses == <<k1, k2>>
MCWinning == {<<3, k2>>}

=============================================================================
