---------------------------- MODULE MempoolTxs ----------------------------
(***************************************************************************)
(* The published transaction list of src/mempool/mempool.go (mempoolTxs): *)
(* AddTxsToMemPool, which selects a fee token for each transaction and     *)
(* appends the new ones, DeleteTxs, which swap-removes, and the wallet     *)
(* goroutine registering and unregistering addresses in mempool.Wallet     *)
(* (wallet-manager.go AddAddress/RemoveAddress), which decides which       *)
(* transactions are "mine".                                                *)
(*                                                                         *)
(* AddTxsToMemPool runs under mempool.Wallet's lock and takes              *)
(* txsListMutex for its list update; DeleteTxs takes txsListMutex.  Every  *)
(* update of the list therefore happens in one critical section, and each *)
(* call is one atomic step.                                                *)
(***************************************************************************)
EXTENDS Naturals, Sequences, FiniteSets, SequencesExt

CONSTANTS
    Txs,            \* transactions, identified by Bloom.Hash
    Accounts,       \* public key hashes
    Nonce,          \* [Txs -> Nat]: TransactionSimple.Nonce
    Tokens,         \* the tokens of fees.FEES_PER_BYTE
    NATIVE_TOKEN,   \* config.NATIVE_TOKEN_STRING
    FEES_PER_BYTE,  \* [Tokens -> Nat]: minimum fee per byte of each token
    Vin, Vout,      \* [Txs -> Seq([acc, token, amount])]: inputs and outputs
    MaxU64,         \* the largest uint64 (shrunk)
    Size,           \* [Txs -> Nat \ {0}]: tx.Bloom.Size
    BadBloom,       \* txs whose VerifyBloomAll returns an error
    Batches,        \* the sequences of txs a caller may submit at once
    IdBatches,      \* the sequences of hashes a caller may delete at once
    MaxCalls        \* how many add and delete calls are made

ASSUME
    /\ NATIVE_TOKEN \in Tokens
    /\ FEES_PER_BYTE \in [Tokens -> Nat]
    /\ Nonce \in [Txs -> Nat]
    /\ Vin \in [Txs -> Seq([acc : Accounts, token : Tokens, amount : Nat])]
    /\ Vout \in [Txs -> Seq([acc : Accounts, token : Tokens, amount : Nat])]
    /\ \A t \in Txs : Vin[t] # <<>>
    /\ Size \in [Txs -> Nat \ {0}]
    /\ BadBloom \subseteq Txs
    /\ Batches \subseteq Seq(Txs) /\ IdBatches \subseteq Seq(Txs)

Hashes(list) == {list[i].tx : i \in 1..Len(list)}

Entries == [tx : Txs, feePerByte : Nat, feeToken : Tokens, mine : BOOLEAN]

VARIABLES
    txsList,        \* the list published in the atomic.Value
    txsCount,       \* atomic counter of listed txs
    txsInserted,    \* atomic counter of txs ever inserted
    myAddresses,    \* mempool.Wallet.myAddressesMap
    calls           \* add and delete calls made so far

vars == <<txsList, txsCount, txsInserted, myAddresses, calls>>

-----------------------------------------------------------------------------
(* The fee map of ComputeFees is a function from tokens to amounts: a      *)
(* token missing from the Go map reads as 0, so the delete of a zeroed     *)
(* entry (line 103-105) is the amount 0.  A failed step keeps the error.   *)
NoFees == [ok |-> TRUE, out |-> [k \in Tokens |-> 0]]

(* ComputeVin (lines 88-95): SafeMapUint64Add of every input.              *)
ComputeVin(st, vin) ==
    IF ~st.ok THEN st
    ELSE IF st.out[vin.token] + vin.amount > MaxU64 THEN [st EXCEPT !.ok = FALSE]
    ELSE [st EXCEPT !.out[vin.token] = @ + vin.amount]

\* Mutant: the subtraction wraps around like an unchecked uint64.
ComputeVoutWrap(st, vout) ==
    IF ~st.ok THEN st
    ELSE [st EXCEPT !.out[vout.token] = (@ + (MaxU64 + 1) - vout.amount) % (MaxU64 + 1)]

(* ComputeVout (lines 97-108): SafeMapUint64Sub of every output.           *)
ComputeVout(st, vout) ==
    IF ~st.ok THEN st
    ELSE IF st.out[vout.token] < vout.amount THEN [st EXCEPT !.ok = FALSE]
    ELSE [st EXCEPT !.out[vout.token] = @ - vout.amount]

(* ComputeFees (lines 72-86) of a TxSimpleScriptNormal tx: inputs minus    *)
(* outputs per token, or an error on overflow or underflow.                *)
ComputeFees(t) ==
    FoldLeft(ComputeVout, FoldLeft(ComputeVin, NoFees, Vin[t]), Vout[t])

MinerFees == [t \in Txs |-> ComputeFees(t).out]

(* The txs AddTxsToMemPool returns early for (lines 62-64, 79-82).         *)
Unverifiable == BadBloom \cup {t \in Txs : ~ComputeFees(t).ok}

(* The fee tokens the loop over fees.FEES_PER_BYTE may stop at: the loop   *)
(* breaks at the first token (in Go's random map order) the tx pays at     *)
(* least the minimum per byte of, so any such token may be selected.       *)
PayingTokens(t) ==
    {k \in Tokens : MinerFees[t][k] # 0 /\ MinerFees[t][k] \div Size[t] >= FEES_PER_BYTE[k]}

(* The mempoolTx entries the fee selection may build for t (lines 84-115): *)
(* one per token the loop may select; if none and the tx is mine, a faked  *)
(* fee of FEES_PER_BYTE[native] (then divided by the size again); if none  *)
(* and not mine, no entry (the tx is skipped with an error message).       *)
AdmissibleEntries(t, mine) ==
    IF PayingTokens(t) # {}
    THEN { [tx |-> t, feePerByte |-> MinerFees[t][k] \div Size[t], feeToken |-> k, mine |-> mine]
            : k \in PayingTokens(t) }
    ELSE IF mine
    THEN {[tx |-> t, feePerByte |-> FEES_PER_BYTE[NATIVE_TOKEN] \div Size[t],
           feeToken |-> NATIVE_TOKEN, mine |-> mine]}
    ELSE {}

\* Mutant: the lookup answers for any key once the wallet has one.
IsMineAnyWallet(t) == myAddresses # {}

(* A Vin of the tx belongs to the wallet (lines 66-76; every modelled tx  *)
(* is a TxSimple).                                                         *)
IsMine(t) == \E i \in 1..Len(Vin[t]) : Vin[t][i].acc \in myAddresses

(* The entries finalTxs may hold for a batch: one admissible entry per tx  *)
(* that has one, in batch order.                                           *)
RECURSIVE FinalTxs(_)
FinalTxs(batch) ==
    IF batch = <<>> THEN {<<>>}
    ELSE LET t    == Head(batch)
             rest == FinalTxs(Tail(batch))
             opts == AdmissibleEntries(t, IsMine(t))
         IN  IF opts = {} THEN rest
             ELSE { <<e>> \o r : e \in opts, r \in rest }

\* Mutant: every entry is appended, known hash or not.
AppendNewNoDedup(list, final) ==
    [list |-> list \o final, added |-> Len(final)]

(* Lines 123-149: append each entry whose hash is not yet listed (the list *)
(* grows as it goes, so a hash repeated in the batch is added once), and   *)
(* count one atomic increment of txsCount and txsInserted per append.      *)
AppendNew(list, final) ==
    FoldLeft(LAMBDA st, e : IF e.tx \in Hashes(st.list) THEN st
                            ELSE [list |-> Append(st.list, e), added |-> st.added + 1],
             [list |-> list, added |-> 0], final)

(* AddTxsToMemPool (lines 53-152; AddTxToMemPool, lines 49-51, submits a  *)
(* batch of one).  An unverifiable tx aborts the whole call; a call with   *)
(* no acceptable tx returns an error (and changes nothing); otherwise the  *)
(* new entries are appended and the counters follow.                       *)
AddTxsToMemPool(batch) ==
    /\ calls < MaxCalls
    /\ calls' = calls + 1
    /\ UNCHANGED myAddresses
    /\ \/ /\ \E i \in 1..Len(batch) : batch[i] \in Unverifiable
          /\ UNCHANGED <<txsList, txsCount, txsInserted>>
       \/ /\ \A i \in 1..Len(batch) : batch[i] \notin Unverifiable
          /\ \E final \in FinalTxs(batch) :
               LET r == AppendNew(txsList, final)
               IN  /\ txsList' = r.list
                   /\ txsCount' = txsCount + r.added
                   /\ txsInserted' = txsInserted + r.added

(* Swap-remove: the last entry takes the place of entry i.                 *)
SwapRemove(list, i) == SubSeq([list EXCEPT ![i] = Last(list)], 1, Len(list) - 1)

(* Lines 184-195: for each id, swap-remove the first entry with that hash *)
(* from the copy, and collect its tx into out.                             *)
DeleteEach(list, ids) ==
    FoldLeft(LAMBDA st, id : LET i == SelectInSeq(st.list, LAMBDA e : e.tx = id)
                             IN  IF i = 0 THEN st
                                 ELSE [list |-> SwapRemove(st.list, i), out |-> st.out + 1],
             [list |-> list, out |-> 0], ids)

\* Mutant: the counter is decreased by the number of ids asked for.
DeleteTxsCountIds(ids) ==
    /\ calls < MaxCalls
    /\ calls' = calls + 1
    /\ txsList' = DeleteEach(txsList, ids).list
    /\ txsCount' = txsCount - Len(ids)
    /\ UNCHANGED <<txsInserted, myAddresses>>

(* DeleteTxs (lines 173-202; DeleteTx, lines 165-171, deletes one id):    *)
(* the entries found are removed from a copy, which is published with the  *)
(* counter decreased by len(out) when anything was found (lines 197-200).  *)
DeleteTxs(ids) ==
    /\ calls < MaxCalls
    /\ calls' = calls + 1
    /\ LET r == DeleteEach(txsList, ids)
       IN  /\ txsList' = r.list
           /\ txsCount' = txsCount - r.out
    /\ UNCHANGED <<txsInserted, myAddresses>>

(* wallet.AddAddress -> mempool.Wallet.AddWallet, wallet.RemoveAddress ->  *)
(* mempool.Wallet.RemoveWallet.                                             *)
AddWallet(a) ==
    /\ a \notin myAddresses
    /\ myAddresses' = myAddresses \cup {a}
    /\ UNCHANGED <<txsList, txsCount, txsInserted, calls>>

RemoveWallet(a) ==
    /\ a \in myAddresses
    /\ myAddresses' = myAddresses \ {a}
    /\ UNCHANGED <<txsList, txsCount, txsInserted, calls>>

(* Exists (lines 155-163): a lock-free scan of the published list.         *)
Exists(id) == id \in Hashes(txsList)

-----------------------------------------------------------------------------
(* The readers of mempool-extra.go: lock-free reads of the published list. *)
(* Each evaluates on one snapshot, so they are operators over the state.   *)

(* GetTxsList (lines 15-17).                                                *)
GetTxsList == txsList

(* helpers.SafeUint64Sub / SafeUint64Add on GetBalance's running value; the *)
(* first error ends the loop (the Go code returns it with out as it was).  *)
SafeSub(st, io) ==
    IF ~st.ok THEN st
    ELSE IF st.out < io.amount THEN [st EXCEPT !.ok = FALSE]
    ELSE [st EXCEPT !.out = @ - io.amount]

SafeAdd(st, io) ==
    IF ~st.ok THEN st
    ELSE IF st.out + io.amount > MaxU64 THEN [st EXCEPT !.ok = FALSE]
    ELSE [st EXCEPT !.out = @ + io.amount]

\* Mutant: outputs are credited whatever their token.
GetBalanceAnyToken(publicKeyHash, balance, token) ==
    LET In(io)  == io.acc = publicKeyHash /\ io.token = token
        Out(io) == io.acc = publicKeyHash
        Apply(st, e) == FoldLeft(SafeAdd, FoldLeft(SafeSub, st, SelectSeq(Vin[e.tx], In)),
                                 SelectSeq(Vout[e.tx], Out))
    IN  FoldLeft(Apply, [ok |-> TRUE, out |-> balance], GetTxsList)

(* GetBalance (lines 19-47): the balance after the listed txs, in list     *)
(* order: each tx debits the matching inputs, then credits the matching    *)
(* outputs.                                                                 *)
GetBalance(publicKeyHash, balance, token) ==
    LET Matches(io) == io.acc = publicKeyHash /\ io.token = token
        Apply(st, e) == FoldLeft(SafeAdd, FoldLeft(SafeSub, st, SelectSeq(Vin[e.tx], Matches)),
                                 SelectSeq(Vout[e.tx], Matches))
    IN  FoldLeft(Apply, [ok |-> TRUE, out |-> balance], GetTxsList)

(* Lines 51-61: the nonces of the listed txs whose Vin[0] is publicKeyHash. *)
PendingNonces(publicKeyHash) ==
    {Nonce[GetTxsList[i].tx] : i \in {j \in 1..Len(GetTxsList) :
                                        Vin[GetTxsList[j].tx][1].acc = publicKeyHash}}

\* Mutant: the loop is an if, skipping one used nonce at most.
SkipUsedOnce(nonces, nonce) == IF nonce \in nonces THEN nonce + 1 ELSE nonce

(* Lines 63-69: step past every used nonce.                                *)
RECURSIVE SkipUsed(_, _)
SkipUsed(nonces, nonce) == IF nonce \in nonces THEN SkipUsed(nonces, nonce + 1) ELSE nonce

(* GetNonce (lines 49-72).                                                  *)
GetNonce(publicKeyHash, nonce) == SkipUsed(PendingNonces(publicKeyHash), nonce)

Init ==
    /\ txsList = <<>>
    /\ txsCount = 0
    /\ txsInserted = 0
    /\ myAddresses = {}
    /\ calls = 0

Next ==
    \/ \E b \in Batches : AddTxsToMemPool(b)
    \/ \E ids \in IdBatches : DeleteTxs(ids)
    \/ \E a \in Accounts : AddWallet(a) \/ RemoveWallet(a)

Spec == Init /\ [][Next]_vars

-----------------------------------------------------------------------------
TypeOK ==
    /\ txsList \in Seq(Entries)
    /\ txsCount \in Nat /\ txsInserted \in Nat
    /\ myAddresses \subseteq Accounts
    /\ calls \in 0..MaxCalls

(* The list never holds two entries with the same hash, however adds of    *)
(* overlapping batches and swap-removing deletes are interleaved.          *)
UniqueHashes ==
    \A i, j \in 1..Len(txsList) : i # j => txsList[i].tx # txsList[j].tx

(* The atomic counter shown as the mempool size equals the length of the   *)
(* published list after every add and delete: one increment per entry     *)
(* appended past the dedup scan, one decrement per id a delete found, even *)
(* when a batch repeats a hash or a delete names a hash twice or one that  *)
(* is not listed.                                                          *)
CountMatchesList == txsCount = Len(txsList)

(* GetBalance answers, when it does not fail, the wallet's balance plus   *)
(* what the listed txs pay the account in that token minus what they      *)
(* spend from it, on every list the adds and swap-removing deletes reach.  *)
(* The positions <<i, j>> of the inputs (io = Vin) or outputs (io = Vout) *)
(* of the listed txs that move token k of account a.                       *)
Moves(io, a, k) ==
    UNION {{<<i, j>> : j \in {j2 \in 1..Len(io[txsList[i].tx]) :
                                 io[txsList[i].tx][j2].acc = a /\ io[txsList[i].tx][j2].token = k}}
           : i \in 1..Len(txsList)}

Debited(a, k) == MapThenSumSet(LAMBDA p : Vin[txsList[p[1]].tx][p[2]].amount, Moves(Vin, a, k))
Credited(a, k) == MapThenSumSet(LAMBDA p : Vout[txsList[p[1]].tx][p[2]].amount, Moves(Vout, a, k))

BalanceOfPending ==
    \A a \in Accounts, k \in Tokens, b \in 0..MaxU64 :
        GetBalance(a, b, k).ok => GetBalance(a, b, k).out = b + Credited(a, k) - Debited(a, k)

(* GetNonce hands out the first nonce from the account's own that no      *)
(* listed tx signed by the account (its Vin[0]) uses, skipping every run   *)
(* of consecutive pending nonces, so a new tx does not collide with one    *)
(* still in the mempool.                                                    *)
NonceAfterPending ==
    \A a \in Accounts, n \in 0..Cardinality(Txs) :
        LET m == GetNonce(a, n)
        IN  /\ m \notin PendingNonces(a)
            /\ n..(m - 1) \subseteq PendingNonces(a)

(* The fee rate a foreign tx is listed with is paid out of its own        *)
(* inputs: rate times size plus the outputs in the fee token never exceed  *)
(* the inputs in that token.  ComputeFees must reject an output larger     *)
(* than the inputs (SafeMapUint64Sub) rather than wrap to a huge fee.      *)
InSum(t, k) == MapThenSumSet(LAMBDA j : Vin[t][j].amount, {j \in 1..Len(Vin[t]) : Vin[t][j].token = k})
OutSum(t, k) == MapThenSumSet(LAMBDA j : Vout[t][j].amount, {j \in 1..Len(Vout[t]) : Vout[t][j].token = k})

FeeBackedByInputs ==
    \A i \in 1..Len(txsList) :
        LET e == txsList[i]
        IN  ~e.mine => e.feePerByte * Size[e.tx] + OutSum(e.tx, e.feeToken) <= InSum(e.tx, e.feeToken)

(* The published list implements the candidate pool of spec 4.1-4.2: its *)
(* entries, the atomic counter and the wallet's addresses map to the       *)
(* abstract pool, size and wallet.  Every add admits only entries the fee  *)
(* policy allows for the wallet at that moment, with fresh keys and the   *)
(* counter raised by their number; a delete drops whole keys; a listed     *)
(* entry is never changed.                                                  *)
Pool == INSTANCE CandidatePool
          WITH pool <- Range(txsList), size <- txsCount, wallet <- myAddresses,
               MinFeePerByte <- FEES_PER_BYTE,
               FeePerByte <- [t \in Txs |-> [k \in Tokens |-> MinerFees[t][k] \div Size[t]]],
               Verifiable <- Txs \ Unverifiable,
               Owners <- [t \in Txs |-> {Vin[t][i].acc : i \in 1..Len(Vin[t])}]

PoolRefinement == Pool!Spec

=============================================================================
