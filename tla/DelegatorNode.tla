--------------------------- MODULE DelegatorNode ---------------------------
(***************************************************************************)
(* The delegator node of                                                   *)
(* src/network/api/api_common/api_delegator_node/delegator_node_extra.go:  *)
(* three goroutines sharing api.chainHeight (atomic) and the sync.Map      *)
(* pendingDelegatesStakesChanges.                                          *)
(*   - the height listener stores every height the chain publishes;        *)
(*   - the ticker, when the stored height changed, deletes the pending     *)
(*     changes requested 10 or more blocks ago;                            *)
(*   - the accounts listener, for every committed account with a pending   *)
(*     change, adds a delegate-stake wallet address when the account now  *)
(*     delegates to the requested key with at least DELEGATOR_FEE.        *)
(* The chain publishes a height and the account changes of each block on  *)
(* two listener channels; a client records pending changes (the request   *)
(* handler is not in this file: it stores the current api.chainHeight).   *)
(***************************************************************************)
EXTENDS Naturals, Sequences, FiniteSets

CONSTANTS
    Accounts,       \* public keys asking the node to stake for them
    DelegateKeys,   \* delegate staking public keys the node generates
    Updates,        \* account changes a block may commit
    DELEGATOR_FEE,  \* config_nodes.DELEGATOR_FEE
    Expiry,         \* the 10 blocks of line 47
    MaxHeight       \* the chain stops growing at this height

ASSUME Updates \subseteq [acc : Accounts, stored : {"update", "delete"},
                          delegate : DelegateKeys \cup {"none"}, fee : Nat]

None == [height |-> 0, key |-> "none"]

VARIABLES
    chainHeight,    \* the blockchain's height
    heightCn,       \* UpdateNewChain listener: heights not yet received
    accsCn,         \* UpdatePlainAccounts listener: blocks' changes not yet received
    apiHeight,      \* api.chainHeight
    lastHeight,     \* the ticker goroutine's lastHeight
    pending,        \* pendingDelegatesStakesChanges: Accounts -> [height, key] or None
    registered,     \* accounts whose delegate-stake address was added to the wallet
    owed            \* accounts whose delegation a block confirmed within the window

vars == <<chainHeight, heightCn, accsCn, apiHeight, lastHeight, pending, registered, owed>>

(* Line 82-84: the committed account delegates to the pending key and pays *)
(* at least the node's fee.                                                 *)
Accepts(u, p) ==
    /\ u.stored = "update"
    /\ u.delegate = p.key
    /\ u.fee >= DELEGATOR_FEE

(* Lines 20-28: receive a height and store it.                              *)
HeightListener ==
    /\ heightCn # <<>>
    /\ apiHeight' = Head(heightCn)
    /\ heightCn' = Tail(heightCn)
    /\ UNCHANGED <<chainHeight, accsCn, lastHeight, pending, registered, owed>>

\* Mutant: entries expire one block late.
ExpiredLate(h, p) == p # None /\ h > p.height + Expiry

(* Line 47: a pending change expires once the height reaches its height + 10. *)
Expired(h, p) == p # None /\ h >= p.height + Expiry

\* Mutant: an expired entry keeps its height and only loses its key.
TickClearKeyOnly ==
    /\ lastHeight # apiHeight
    /\ lastHeight' = apiHeight
    /\ pending' = [a \in Accounts |-> IF Expired(apiHeight, pending[a])
                                      THEN [pending[a] EXCEPT !.key = "none"] ELSE pending[a]]
    /\ UNCHANGED <<chainHeight, heightCn, accsCn, apiHeight, registered, owed>>

(* Lines 36-52: on a tick that sees a new height, delete the expired       *)
(* pending changes.                                                         *)
Tick ==
    /\ lastHeight # apiHeight
    /\ lastHeight' = apiHeight
    /\ pending' = [a \in Accounts |-> IF Expired(apiHeight, pending[a]) THEN None ELSE pending[a]]
    /\ UNCHANGED <<chainHeight, heightCn, accsCn, apiHeight, registered, owed>>

(* Lines 67-115: receive one block's committed accounts and register each  *)
(* one whose pending change it confirms.  The pending entry is left in the *)
(* map; AddDelegateStakeAddress's error is ignored.                         *)
AccountsListener ==
    /\ accsCn # <<>>
    /\ registered' = registered \cup
         {u.acc : u \in {v \in Head(accsCn) : pending[v.acc] # None /\ Accepts(v, pending[v.acc])}}
    /\ accsCn' = Tail(accsCn)
    /\ UNCHANGED <<chainHeight, heightCn, apiHeight, lastHeight, pending, owed>>

(* The chain adds a block, publishing its height and its account changes.  *)
NewBlock(upd) ==
    /\ chainHeight < MaxHeight
    /\ \A u, v \in upd : u.acc = v.acc => u = v
    /\ chainHeight' = chainHeight + 1
    /\ heightCn' = Append(heightCn, chainHeight + 1)
    /\ accsCn' = Append(accsCn, upd)
    /\ owed' = owed \cup {u.acc : u \in {v \in upd : /\ pending[v.acc] # None
                                                    /\ Accepts(v, pending[v.acc])
                                                    /\ ~Expired(chainHeight + 1, pending[v.acc])}}
    /\ UNCHANGED <<apiHeight, lastHeight, pending, registered>>

(* A client asks the node to stake for account a with delegate key k; the  *)
(* change is recorded at the node's current height.                         *)
Request(a, k) ==
    /\ pending[a] = None
    /\ pending' = [pending EXCEPT ![a] = [height |-> apiHeight, key |-> k]]
    /\ UNCHANGED <<chainHeight, heightCn, accsCn, apiHeight, lastHeight, registered, owed>>

Init ==
    /\ chainHeight = 0
    /\ heightCn = <<>>
    /\ accsCn = <<>>
    /\ apiHeight = 0
    /\ lastHeight = 0
    /\ pending = [a \in Accounts |-> None]
    /\ registered = {}
    /\ owed = {}

Next ==
    \/ HeightListener
    \/ Tick
    \/ AccountsListener
    \/ \E upd \in SUBSET Updates : NewBlock(upd)
    \/ \E a \in Accounts, k \in DelegateKeys : Request(a, k)

(* The three goroutines loop forever (the ticker fires every 10 s); the    *)
(* chain and the clients are not obliged to act.                           *)
Spec == Init /\ [][Next]_vars
        /\ WF_vars(HeightListener) /\ WF_vars(Tick) /\ WF_vars(AccountsListener)

-----------------------------------------------------------------------------
TypeOK ==
    /\ chainHeight \in 0..MaxHeight /\ apiHeight \in 0..MaxHeight
    /\ lastHeight \in 0..MaxHeight
    /\ heightCn \in Seq(1..MaxHeight) /\ accsCn \in Seq(SUBSET Updates)
    /\ pending \in [Accounts -> {None} \cup [height : 0..MaxHeight, key : DelegateKeys]]
    /\ registered \subseteq Accounts /\ owed \subseteq Accounts

(* pendingDelegatesStakesChanges only shrinks in the ticker, which scans  *)
(* it only when the height it loads differs from the last one it saw.  A   *)
(* change recorded while the node's height lags, or confirmed and left in  *)
(* the map by the accounts listener, is still deleted once the chain is 10 *)
(* blocks past it: the map does not keep stale entries forever.            *)
PendingExpires ==
    \A a \in Accounts :
        pending[a] # None /\ chainHeight >= pending[a].height + Expiry ~> pending[a] = None

(* Every account whose delegation a block confirmed within the 10 blocks   *)
(* after its request is eventually added to the wallet.                    *)
ConfirmedRegistered == \A a \in Accounts : a \in owed ~> a \in registered

=============================================================================
