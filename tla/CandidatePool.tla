--------------------------- MODULE CandidatePool ---------------------------
(***************************************************************************)
(* What the candidate pool promises its callers, abstractly (spec 4.1 and  *)
(* 4.2): a set of admitted entries with unique keys, the count of them,    *)
(* and the wallet's accounts, which decide whether an entry is local.      *)
(*   - Insert admits entries whose key is new.  An entry is admitted when   *)
(*     its fee token pays at least that token's minimum per byte, or when   *)
(*     no token does and the tx is local (a synthetic fee in the native     *)
(*     token).  Entries are never changed once admitted.                    *)
(*   - Remove drops every entry of some set of keys.                        *)
(*   - The wallet gains or loses an account.                                *)
(* The order of the list and which paying token is chosen are left open.   *)
(***************************************************************************)
EXTENDS Naturals, FiniteSets

CONSTANTS
    Txs, Accounts, Tokens,
    NATIVE_TOKEN,
    MinFeePerByte,  \* [Tokens -> Nat]: the configured minimum per byte
    FeePerByte,     \* [Txs -> [Tokens -> Nat]]: what a tx pays per byte in each token
    Verifiable,     \* the txs whose bloom and fees check out
    Owners          \* [Txs -> SUBSET Accounts]: the accounts that sign a tx

VARIABLES pool, size, wallet

poolVars == <<pool, size, wallet>>

Keys(P) == {e.tx : e \in P}

Local(t, w) == Owners[t] \cap w # {}

Pays(t, k) == FeePerByte[t][k] # 0 /\ FeePerByte[t][k] >= MinFeePerByte[k]

(* An entry the admission gate may build for its tx under wallet w.         *)
Admitted(e, w) ==
    /\ e.tx \in Verifiable
    /\ e.mine = Local(e.tx, w)
    /\ \/ Pays(e.tx, e.feeToken) /\ e.feePerByte = FeePerByte[e.tx][e.feeToken]
       \/ e.mine /\ e.feeToken = NATIVE_TOKEN /\ \A k \in Tokens : ~Pays(e.tx, k)

Insert ==
    LET E == pool' \ pool
    IN  /\ pool \subseteq pool'
        /\ E # {}
        /\ \A e \in E : Admitted(e, wallet) /\ e.tx \notin Keys(pool)
        /\ Cardinality(Keys(E)) = Cardinality(E)
        /\ size' = size + Cardinality(E)
        /\ UNCHANGED wallet

Remove ==
    \E H \in SUBSET Txs :
        /\ H \cap Keys(pool) # {}
        /\ pool' = {e \in pool : e.tx \notin H}
        /\ size' = size - Cardinality(pool \ pool')
        /\ UNCHANGED wallet

Join(a) ==
    /\ wallet' = wallet \cup {a}
    /\ UNCHANGED <<pool, size>>

Leave(a) ==
    /\ wallet' = wallet \ {a}
    /\ UNCHANGED <<pool, size>>

Init ==
    /\ pool = {}
    /\ size = 0
    /\ wallet = {}

Next == Insert \/ Remove \/ \E a \in Accounts : Join(a) \/ Leave(a)

Spec == Init /\ [][Next]_poolVars

=============================================================================
