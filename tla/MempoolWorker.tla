--------------------------- MODULE MempoolWorker ---------------------------
(***************************************************************************)
(* The mempool worker goroutine of src/mempool/mempool.thread.go           *)
(* (mempoolWorker.processing) together with the goroutines that talk to it *)
(* over its unbuffered channels: the chain (newWorkCn, suspendProcessingCn,*)
(* continueProcessingCn) and the callers that add and remove transactions  *)
(* (addTransactionCn, removeTransactionsCn).                               *)
(*                                                                         *)
(* The worker applies transactions one at a time to a speculative ledger   *)
(* (accs/toks), commits the ones that fit in the block (includedTxs), rolls *)
(* back the ones that fail, and rebuilds everything when a new chain work  *)
(* arrives.  The ledger is abstracted to a nonce and a balance per account *)
(* and a transaction to a single-input, single-output simple transfer      *)
(* (TransactionSimple.IncludeTransaction).  The database holds the state  *)
(* of one chain tip (dbTip); a chain hash stands for the ledger state      *)
(* ChainState of its tip.  DB.View reads the snapshot of the tip it was    *)
(* opened at (viewDb), and a new accs object is that snapshot.             *)
(***************************************************************************)
EXTENDS Naturals, Sequences, FiniteSets, SequencesExt

CONSTANTS
    Txs,            \* transactions, identified by their hash (Bloom.HashStr)
    Accounts,       \* account public key hashes
    From, To,       \* [Txs -> Accounts]: Vin[0] and Vout[0] of the transfer
    Nonce,          \* [Txs -> Nat]: tx.Nonce
    Amount,         \* [Txs -> Nat]: the amount moved
    Size,           \* [Txs -> Nat \ {0}]: tx.Bloom.Size
    Fee,            \* [Txs -> Nat]: mempoolTx.FeePerByte, the sort key
    ChainState,     \* [Hashes -> [Accounts -> [nonce, balance]]]: each tip's state
    InitialTip,     \* the tip in the database when the node starts
    MaxBalance,     \* largest balance before AddBalance overflows (uint64)
    BLOCK_MAX_SIZE, \* config.BLOCK_MAX_SIZE
    Hashes,         \* chain hashes a new work may carry
    NilHash,        \* a mempoolWork whose chainHash is nil
    NoWork,         \* work == nil
    NoMsg,          \* nothing offered on a channel
    ContinueValues, \* the noError values the chain may send to continue
    RemoveSets,     \* the hash sets a remove request may carry
    MaxSends        \* [kind -> Nat]: how many messages of each kind are sent

ASSUME
    /\ From \in [Txs -> Accounts] /\ To \in [Txs -> Accounts]
    /\ Nonce \in [Txs -> Nat] /\ Amount \in [Txs -> Nat]
    /\ Size \in [Txs -> Nat \ {0}] /\ Fee \in [Txs -> Nat]
    /\ ChainState \in [Hashes -> [Accounts -> [nonce : Nat, balance : 0..MaxBalance]]]
    /\ InitialTip \in Hashes
    /\ ContinueValues \subseteq BOOLEAN
    /\ RemoveSets \subseteq SUBSET Txs
    /\ NilHash \notin Hashes

Kinds == {"work", "suspend", "continue", "add", "remove"}
ASSUME MaxSends \in [Kinds -> Nat]

VARIABLES
    \* worker goroutine
    pc,              \* "select": the outer select; "view": inside DB.View;
                     \* "crashed": the goroutine panicked and the node is down
    viewDb,          \* the tip whose snapshot the open DB.View reads
    work,            \* the current mempoolWork (its chainHash) or NoWork
    suspended,
    txsList,         \* the backlog
    txsMap,          \* hashes already attempted in this context
    listIndex,       \* cursor into txsList (0-based, as in the code)
    readyListSent,
    readyCnClosed,   \* sendReadyListCn has been closed and not yet replaced
    committed,       \* accs/toks state as of the last CommitChanges
    pending,         \* accs/toks state including uncommitted changes
    includedTotalSize,
    includedTxs,     \* the block template published in work.result
    \* the MempoolTxs list the worker publishes
    listed,          \* txs.addToList / txs.clearList
    listReady,       \* txs.readyList
    dropped,         \* txs.txs.Delete
    \* the channels: what a blocked sender is offering
    newWorkMsg, suspendMsg, continueMsg, addMsg, removeMsg,
    sent,            \* messages sent so far, per kind
    purged,          \* hashes callers asked to remove (for RemovePurges)
    \* the blockchain
    dbTip            \* the tip whose state the database holds

worker == <<pc, viewDb, work, suspended, txsList, txsMap, listIndex, readyListSent,
            readyCnClosed, committed, pending, includedTotalSize,
            includedTxs>>
pool == <<listed, listReady, dropped>>
chans == <<newWorkMsg, suspendMsg, continueMsg, addMsg, removeMsg, sent, purged>>
vars == <<worker, pool, chans, dbTip>>

Ledger == [Accounts -> [nonce : Nat, balance : 0..MaxBalance]]

-----------------------------------------------------------------------------
(* TransactionSimple.IncludeTransaction on a one-input one-output transfer: *)
(* the nonce check and increment and the debit of Vin[0], then the credit   *)
(* of Vout[0].  A failure after the debit leaves the debit in the ledger:   *)
(* only the caller's Rollback removes it.                                   *)
IncludeTransaction(t, led) ==
    LET s == From[t]
        r == To[t]
        debited == [led EXCEPT ![s] = [nonce   |-> @.nonce + 1,
                                       balance |-> @.balance - Amount[t]]]
    IN  CASE led[s].nonce # Nonce[t]      -> [ok |-> FALSE, led |-> led]
          [] led[s].balance < Amount[t]   -> [ok |-> FALSE, led |-> led]
          [] debited[r].balance + Amount[t] > MaxBalance
                                          -> [ok |-> FALSE, led |-> debited]
          [] OTHER -> [ok |-> TRUE,
                       led |-> [debited EXCEPT ![r].balance = @ + Amount[t]]]

(* sortTxs: the backlog ordered by FeePerByte, highest first, keeping the  *)
(* arrival order of equal fees.                                             *)
RECURSIVE InsertByFee(_, _)
InsertByFee(t, s) ==
    IF s = <<>> \/ Fee[t] > Fee[Head(s)] THEN <<t>> \o s
    ELSE <<Head(s)>> \o InsertByFee(t, Tail(s))

SortTxs(s) == FoldLeft(LAMBDA acc, t : InsertByFee(t, acc), <<>>, s)

-----------------------------------------------------------------------------
\* Mutant: the channel is closed but readyListSent is left set.
CloseReadySignalKeepSent ==
    /\ readyCnClosed' = (readyCnClosed \/ readyListSent)
    /\ UNCHANGED readyListSent

(* Lines 64-67: close sendReadyListCn unless it is already closed.         *)
CloseReadySignal ==
    /\ readyCnClosed' = (readyCnClosed \/ readyListSent)
    /\ readyListSent' = FALSE

\* Mutant: the template slice is not replaced on a reset.
ClearTemplateKeepTxs ==
    /\ includedTotalSize' = 0
    /\ UNCHANGED includedTxs

\* Mutant: includedTotalSize is not reset with the template.
ClearTemplateKeepSize ==
    /\ includedTxs' = <<>>
    /\ UNCHANGED includedTotalSize

(* Lines 75-76: a new, empty template.                                      *)
ClearTemplate ==
    /\ includedTotalSize' = 0
    /\ includedTxs' = <<>>

(* resetNow(newWork): a work with a chain hash clears the published list,  *)
(* closes sendReadyListCn once, drops accs (rebuilt from the database),    *)
(* empties the template and the attempted set and re-sorts the backlog;   *)
(* every work releases its caller (close(waitAnswerCn)), which the channel *)
(* model does on receipt.  accs is rebuilt (line 150) from the snapshot    *)
(* snap of the view the worker is in, or is about to open.                 *)
ResetNow(h, snap) ==
    IF h # NilHash
    THEN /\ listed' = <<>>
         /\ CloseReadySignal
         /\ committed' = ChainState[snap]
         /\ pending' = ChainState[snap]
         /\ work' = h
         /\ ClearTemplate
         /\ listIndex' = 0
         /\ txsMap' = {}
         /\ txsList' = SortTxs(txsList)
         /\ UNCHANGED <<listReady, dropped>>
    ELSE UNCHANGED <<listed, readyCnClosed, readyListSent, committed, pending,
                     work, includedTotalSize, includedTxs, listIndex, txsMap,
                     txsList, listReady, dropped>>

(* removeTxs(data): only hashes found in txsMap count as removed; they     *)
(* leave txsMap and move listIndex back, but the filtered newList is never *)
(* stored into txsList.  Building newList panics (makeslice, or index out  *)
(* of range) when a removed hash has fewer occurrences in txsList than the *)
(* number of hashes removed.                                                *)
RemovedAt(R) == {i \in 1..Len(txsList) : txsList[i] \in R \cap txsMap}

RemovePanics(R) == Cardinality(RemovedAt(R)) < Cardinality(R \cap txsMap)

RemoveTxs(R) ==
    /\ txsMap' = txsMap \ R
    /\ listIndex' = listIndex - Cardinality({i \in RemovedAt(R) : i <= listIndex})
    /\ purged' = purged \cup R

\* Mutant: an explicit add that fails is evicted like a backlog entry.
OnIncludeErrorAsBackground(t, explicit, list, idx) ==
    /\ pending' = committed
    /\ txsList' = RemoveAt(list, idx)
    /\ listIndex' = idx - 1
    /\ dropped' = dropped \cup {t}
    /\ UNCHANGED <<txsMap, committed, includedTotalSize, includedTxs, listed>>

\* Mutant: the evicted entry is cut out of txsList but listIndex is kept.
OnIncludeErrorKeepCursor(t, explicit, list, idx) ==
    /\ pending' = committed
    /\ txsList' = IF explicit THEN list ELSE RemoveAt(list, idx)
    /\ listIndex' = idx
    /\ txsMap' = IF explicit THEN txsMap \cup {t} ELSE txsMap
    /\ dropped' = dropped \cup {t}
    /\ UNCHANGED <<committed, includedTotalSize, includedTxs, listed>>

\* Mutant: accs.Rollback()/toks.Rollback() are not called.
OnIncludeErrorNoRollback(t, explicit, list, idx) ==
    /\ pending' = IncludeTransaction(t, pending).led
    /\ txsList' = IF explicit THEN list ELSE RemoveAt(list, idx)
    /\ listIndex' = IF explicit THEN idx ELSE idx - 1
    /\ txsMap' = IF explicit THEN txsMap \cup {t} ELSE txsMap
    /\ dropped' = dropped \cup {t}
    /\ UNCHANGED <<committed, includedTotalSize, includedTxs, listed>>

(* IncludeTransaction failed (lines 198-213): roll back accs and toks; a   *)
(* backlog entry is cut out of txsList (listIndex was already advanced     *)
(* past it) and forgotten, an explicit add stays in txsMap; either way it  *)
(* leaves the pool (txs.txs.Delete).                                        *)
OnIncludeError(t, explicit, list, idx) ==
    /\ pending' = committed
    /\ txsList' = IF explicit THEN list ELSE RemoveAt(list, idx)
    /\ listIndex' = IF explicit THEN idx ELSE idx - 1
    /\ txsMap' = IF explicit THEN txsMap \cup {t} ELSE txsMap
    /\ dropped' = dropped \cup {t}
    /\ UNCHANGED <<committed, includedTotalSize, includedTxs, listed>>

(* IncludeTransaction succeeded with ledger led (lines 215-234): if the    *)
(* block has room the template grows and accs/toks are committed, else     *)
(* nothing is committed and the changes stay pending.  An explicit add is  *)
(* appended to the backlog behind the cursor; the tx joins the list.       *)
OnIncluded(t, led, explicit, list, idx) ==
    LET fits == includedTotalSize + Size[t] < BLOCK_MAX_SIZE
    IN  /\ pending' = led
        /\ committed' = IF fits THEN led ELSE committed
        /\ includedTotalSize' = IF fits THEN includedTotalSize + Size[t]
                                        ELSE includedTotalSize
        /\ includedTxs' = IF fits THEN Append(includedTxs, t) ELSE includedTxs
        /\ txsList' = IF explicit THEN Append(list, t) ELSE list
        /\ listIndex' = IF explicit THEN idx + 1 ELSE idx
        /\ txsMap' = txsMap \cup {t}
        /\ listed' = Append(listed, t)
        /\ UNCHANGED dropped

(* One attempt of the inner loop on tx t (lines 192-242), with the backlog *)
(* and the cursor as they are after t was taken (list, idx).  explicit is  *)
(* newAddTx != nil.  A hash already in txsMap is skipped.                  *)
Attempt(t, explicit, list, idx) ==
    LET res == IncludeTransaction(t, pending)
    IN  CASE t \in txsMap ->
               /\ txsList' = list /\ listIndex' = idx
               /\ UNCHANGED <<txsMap, committed, pending, includedTotalSize,
                              includedTxs, listed, dropped>>
          [] ~res.ok -> OnIncludeError(t, explicit, list, idx)
          [] OTHER   -> OnIncluded(t, res.led, explicit, list, idx)

EnterView(w, s) == IF w # NoWork /\ ~s THEN "view" ELSE "select"

(* Lines 135-140: enter DB.View unless work is nil or the worker is        *)
(* suspended; the view reads the database as it is now.                    *)
OpenView(w, s) ==
    /\ pc' = EnterView(w, s)
    /\ viewDb' = IF pc' = "view" THEN dbTip ELSE viewDb

-----------------------------------------------------------------------------
(* The outer select (lines 117-137): suspend, new work, remove, continue.  *)
(* After it the worker enters DB.View unless work is nil or it is          *)
(* suspended.                                                               *)
SelectSuspend ==
    /\ pc = "select" /\ suspendMsg
    /\ suspended' = TRUE
    /\ suspendMsg' = FALSE
    /\ UNCHANGED <<viewDb, dbTip, pc, work, txsList, txsMap, listIndex, readyListSent,
                   readyCnClosed, committed, pending, includedTotalSize,
                   includedTxs, pool, newWorkMsg, continueMsg,
                   addMsg, removeMsg, sent, purged>>

SelectNewWork ==
    /\ pc = "select" /\ newWorkMsg # NoMsg
    /\ ResetNow(newWorkMsg, dbTip)
    /\ OpenView(work', suspended)
    /\ newWorkMsg' = NoMsg
    /\ UNCHANGED <<dbTip, suspended, suspendMsg, continueMsg, addMsg,
                   removeMsg, sent, purged>>

SelectRemove ==
    /\ pc = "select" /\ removeMsg # NoMsg
    /\ RemoveTxs(removeMsg)
    /\ IF RemovePanics(removeMsg) THEN pc' = "crashed" /\ UNCHANGED viewDb
                                   ELSE OpenView(work, suspended)
    /\ removeMsg' = NoMsg
    /\ UNCHANGED <<dbTip, work, suspended, txsList, readyListSent, readyCnClosed,
                   committed, pending, includedTotalSize, includedTxs, pool,
                   newWorkMsg, suspendMsg, continueMsg, addMsg, sent>>

(* noError: the work is dropped and a new one is awaited; an error: accs   *)
(* and toks are dropped and rebuilt from the database.                      *)
SelectContinue ==
    /\ pc = "select" /\ continueMsg # NoMsg
    /\ suspended' = FALSE
    /\ IF continueMsg
       THEN /\ work' = NoWork
            /\ UNCHANGED <<committed, pending>>
       ELSE /\ committed' = ChainState[dbTip]
            /\ pending' = ChainState[dbTip]
            /\ UNCHANGED work
    /\ OpenView(work', FALSE)
    /\ continueMsg' = NoMsg
    /\ UNCHANGED <<dbTip, txsList, txsMap, listIndex, readyListSent, readyCnClosed,
                   includedTotalSize, includedTxs, pool, newWorkMsg,
                   suspendMsg, addMsg, removeMsg, sent, purged>>

(* Inside DB.View (lines 147-245): the inner select and, when its default  *)
(* is taken at the end of the backlog, the nested select of lines 169-185. *)
(* Both selects answer suspend, new work and remove the same way.           *)
ViewSuspend ==
    /\ pc = "view" /\ suspendMsg
    /\ suspended' = TRUE
    /\ pc' = "select"
    /\ suspendMsg' = FALSE
    /\ UNCHANGED <<viewDb, dbTip, work, txsList, txsMap, listIndex, readyListSent,
                   readyCnClosed, committed, pending, includedTotalSize,
                   includedTxs, pool, newWorkMsg, continueMsg,
                   addMsg, removeMsg, sent, purged>>

ViewNewWork ==
    /\ pc = "view" /\ newWorkMsg # NoMsg
    /\ ResetNow(newWorkMsg, viewDb)
    /\ newWorkMsg' = NoMsg
    /\ UNCHANGED <<viewDb, dbTip, pc, suspended, suspendMsg, continueMsg, addMsg,
                   removeMsg, sent, purged>>

ViewRemove ==
    /\ pc = "view" /\ removeMsg # NoMsg
    /\ RemoveTxs(removeMsg)
    /\ pc' = IF RemovePanics(removeMsg) THEN "crashed" ELSE pc
    /\ removeMsg' = NoMsg
    /\ UNCHANGED <<viewDb, dbTip, work, suspended, txsList, readyListSent, readyCnClosed,
                   committed, pending, includedTotalSize, includedTxs, pool,
                   newWorkMsg, suspendMsg, continueMsg, addMsg, sent>>

\* Mutant: off by one, the last backlog entry is never taken.
ViewNextTxSkipLast ==
    /\ pc = "view"
    /\ ~suspendMsg /\ newWorkMsg = NoMsg /\ removeMsg = NoMsg
    /\ listIndex < Len(txsList) - 1
    /\ Attempt(txsList[listIndex + 1], FALSE, txsList, listIndex + 1)
    /\ UNCHANGED <<viewDb, dbTip, pc, work, suspended, readyListSent, readyCnClosed,
                   listReady, chans>>

(* default, backlog not exhausted: take txsList[listIndex] and attempt it. *)
ViewNextTx ==
    /\ pc = "view"
    /\ ~suspendMsg /\ newWorkMsg = NoMsg /\ removeMsg = NoMsg
    /\ listIndex < Len(txsList)
    /\ Attempt(txsList[listIndex + 1], FALSE, txsList, listIndex + 1)
    /\ UNCHANGED <<viewDb, dbTip, pc, work, suspended, readyListSent, readyCnClosed, 
                   listReady, chans>>

(* nested select, case newAddTx = <-addTransactionCn: attempt it and send  *)
(* the result back.                                                         *)
ViewAddTx ==
    /\ pc = "view" /\ addMsg # NoMsg
    /\ listIndex = Len(txsList)
    /\ Attempt(addMsg, TRUE, txsList, listIndex)
    /\ addMsg' = NoMsg
    /\ purged' = IF Len(txsList') > Len(txsList) THEN purged \ {addMsg} ELSE purged
    /\ UNCHANGED <<viewDb, dbTip, pc, work, suspended, readyListSent, readyCnClosed, 
                   listReady, newWorkMsg, suspendMsg, continueMsg, removeMsg,
                   sent>>

(* nested select, case <-sendReadyListCn: replace the channel and publish. *)
ViewReadyList ==
    /\ pc = "view" /\ readyCnClosed
    /\ listIndex = Len(txsList)
    /\ readyCnClosed' = FALSE
    /\ listReady' = TRUE
    /\ readyListSent' = TRUE
    /\ UNCHANGED <<viewDb, dbTip, pc, work, suspended, txsList, txsMap, listIndex, committed,
                   pending, includedTotalSize, includedTxs, listed,
                   dropped, chans>>

Worker ==
    \/ SelectSuspend \/ SelectNewWork \/ SelectRemove \/ SelectContinue
    \/ ViewSuspend \/ ViewNewWork \/ ViewRemove
    \/ ViewNextTx \/ ViewAddTx \/ ViewReadyList

-----------------------------------------------------------------------------
(* The other goroutines: each blocks on its unbuffered send until the      *)
(* worker receives.  UpdateWork/RestartWork, Suspend, Continue, the add    *)
(* and remove requests.  The chain stores a block in the database before   *)
(* it calls UpdateWork with the block's hash.                              *)
CanSend(k) == pc # "crashed" /\ sent[k] < MaxSends[k]
Sent(k) == sent' = [sent EXCEPT ![k] = @ + 1]

SendNewWork(h) ==
    /\ CanSend("work") /\ newWorkMsg = NoMsg
    /\ newWorkMsg' = h /\ Sent("work")
    /\ dbTip' = IF h = NilHash THEN dbTip ELSE h
    /\ UNCHANGED <<worker, pool, suspendMsg, continueMsg, addMsg, removeMsg, purged>>

SendSuspend ==
    /\ CanSend("suspend") /\ ~suspendMsg
    /\ suspendMsg' = TRUE /\ Sent("suspend")
    /\ UNCHANGED <<dbTip, worker, pool, newWorkMsg, continueMsg, addMsg, removeMsg, purged>>

SendContinue(v) ==
    /\ CanSend("continue") /\ continueMsg = NoMsg
    /\ continueMsg' = v /\ Sent("continue")
    /\ UNCHANGED <<dbTip, worker, pool, newWorkMsg, suspendMsg, addMsg, removeMsg, purged>>

SendAddTx(t) ==
    /\ CanSend("add") /\ addMsg = NoMsg
    /\ addMsg' = t /\ Sent("add")
    /\ UNCHANGED <<dbTip, worker, pool, newWorkMsg, suspendMsg, continueMsg, removeMsg, purged>>

SendRemoveTxs(R) ==
    /\ CanSend("remove") /\ removeMsg = NoMsg
    /\ removeMsg' = R /\ Sent("remove")
    /\ UNCHANGED <<dbTip, worker, pool, newWorkMsg, suspendMsg, continueMsg, addMsg, purged>>

Callers ==
    \/ \E h \in Hashes \cup {NilHash} : SendNewWork(h)
    \/ SendSuspend
    \/ \E v \in ContinueValues : SendContinue(v)
    \/ \E t \in Txs : SendAddTx(t)
    \/ \E R \in RemoveSets : SendRemoveTxs(R)

-----------------------------------------------------------------------------
Init ==
    /\ pc = "select"
    /\ work = NoWork
    /\ suspended = FALSE
    /\ txsList = <<>>
    /\ txsMap = {}
    /\ listIndex = 0
    /\ readyListSent = TRUE
    /\ readyCnClosed = FALSE
    /\ viewDb = InitialTip
    /\ committed = ChainState[InitialTip]
    /\ pending = ChainState[InitialTip]
    /\ includedTotalSize = 0
    /\ includedTxs = <<>>
    /\ listed = <<>>
    /\ listReady = FALSE
    /\ dropped = {}
    /\ newWorkMsg = NoMsg
    /\ suspendMsg = FALSE
    /\ continueMsg = NoMsg
    /\ addMsg = NoMsg
    /\ removeMsg = NoMsg
    /\ sent = [k \in Kinds |-> 0]
    /\ purged = {}
    /\ dbTip = InitialTip

Next ==
    \/ SelectSuspend \/ SelectNewWork \/ SelectRemove \/ SelectContinue
    \/ ViewSuspend \/ ViewNewWork \/ ViewRemove
    \/ ViewNextTx \/ ViewAddTx \/ ViewReadyList
    \/ Callers

(* The worker goroutine is always runnable when one of its cases is ready; *)
(* the callers may stop sending at any time.                                *)
Spec == Init /\ [][Next]_vars /\ WF_vars(Worker)

-----------------------------------------------------------------------------
(* Replaying a sequence of transactions on a ledger, stopping at the first *)
(* failure.                                                                 *)
Replay(led, seq) ==
    FoldLeft(LAMBDA acc, t : IF acc.ok THEN IncludeTransaction(t, acc.led) ELSE acc,
             [ok |-> TRUE, led |-> led], seq)

SumSizes(seq) == FoldLeft(LAMBDA acc, t : acc + Size[t], 0, seq)

TypeOK ==
    /\ pc \in {"select", "view", "crashed"}
    /\ work \in Hashes \cup {NoWork}
    /\ viewDb \in Hashes /\ dbTip \in Hashes
    /\ suspended \in BOOLEAN
    /\ txsList \in Seq(Txs)
    /\ txsMap \subseteq Txs
    /\ listIndex \in Nat
    /\ readyListSent \in BOOLEAN /\ readyCnClosed \in BOOLEAN
    /\ committed \in Ledger /\ pending \in Ledger
    /\ includedTotalSize \in Nat
    /\ includedTxs \in Seq(Txs)
    /\ listed \in Seq(Txs) /\ listReady \in BOOLEAN /\ dropped \subseteq Txs
    /\ newWorkMsg \in Hashes \cup {NilHash, NoMsg}
    /\ suspendMsg \in BOOLEAN
    /\ continueMsg \in BOOLEAN \cup {NoMsg}
    /\ addMsg \in Txs \cup {NoMsg}
    /\ removeMsg \in (SUBSET Txs) \cup {NoMsg}
    /\ sent \in [Kinds -> Nat]
    /\ purged \subseteq Txs

(* The backlog cursor stays inside txsList through failed-transaction      *)
(* eviction, explicit adds and removeTxs moving it back, so that           *)
(* txsList[listIndex] is never read out of range and the end of the        *)
(* backlog (listIndex == len(txsList)) is reached.                          *)
CursorInRange == listIndex \in 0..Len(txsList)

(* sendReadyListCn is closed at most once: whenever readyListSent is set   *)
(* (the next resetNow will close the channel), the channel is open.        *)
ReadySignalConsistent == readyListSent => ~readyCnClosed

(* The published template never exceeds config.BLOCK_MAX_SIZE and its      *)
(* reported size (work.result.totalSize) is the sum of the sizes of its    *)
(* transactions, across resets and over-budget transactions.               *)
TemplateWithinBudget ==
    /\ includedTotalSize = SumSizes(includedTxs)
    /\ includedTotalSize <= BLOCK_MAX_SIZE

(* The block template is a valid block body for the tip of the work it    *)
(* was built for: its transactions, applied in order to that tip's state,  *)
(* all succeed (no double spend, no nonce gap, no overdraft), whichever    *)
(* snapshot the worker's view was reading.                                  *)
TemplateValid == work # NoWork => Replay(ChainState[work], includedTxs).ok

(* The template the worker publishes implements BlockTemplate: with work  *)
(* as the tip and includedTxs as the template, every step of the worker    *)
(* either starts an empty template for a new tip, drops the work, appends  *)
(* one new transaction that applies on the tip after the template and      *)
(* keeps it under BLOCK_MAX_SIZE, or leaves both alone.                    *)
ValidOn(h, s) == Replay(ChainState[h], s).ok

Tmpl == INSTANCE BlockTemplate WITH tip <- work, template <- includedTxs,
            Tips <- Hashes, NoTip <- NoWork, Applies <- ValidOn

TemplateRefinement == Tmpl!Spec

(* A remove request is served as spec 4.3(5) says: the worker goroutine   *)
(* does not panic in removeTxs, and a hash a caller removed is no longer in *)
(* the backlog txsList unless it was added again.                           *)
RemovePurges ==
    /\ pc # "crashed"
    /\ \A t \in purged : t \notin Range(txsList)

(* Once a new work has closed sendReadyListCn, the worker drains its       *)
(* backlog and publishes the ready list (txs.readyList) unless it is        *)
(* suspended first.                                                         *)
ReadyListPublished ==
    (readyCnClosed /\ pc = "view") ~> (~readyCnClosed \/ pc \in {"select", "crashed"})

(* A caller of the add path (addTransactionCn is unbuffered) is served     *)
(* only by the nested select, which the worker reaches once the backlog is *)
(* drained (line 167); the outer select never receives adds.  While the    *)
(* worker has a work and is not suspended, an offered add is eventually    *)
(* received, however long the backlog and whichever ready case Go picks,   *)
(* unless the worker has crashed.                                          *)
AddAnswered ==
    (addMsg # NoMsg /\ work # NoWork /\ ~suspended)
        ~> (addMsg = NoMsg \/ work = NoWork \/ suspended \/ pc = "crashed")

=============================================================================
