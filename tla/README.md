# TLA+ models of the pandora-pay mempool

This directory holds TLA+ models of the transaction mempool in `src/mempool`, of the wallet that feeds it, of the delegator node and of the forge threads. It also holds the TLC configurations that check them. `PROJECT.json` lists the following:
- every component, with its status;
- every run, with its expected result;
- the mutant that shows each property of a passing run can fail;
- the map from each TLA+ definition to the source lines it translates;
- the findings, and the hazards of the code.

## The system

| Part | Code | Role |
|---|---|---|
| Scheduler worker | `mempool.thread.go`, `mempoolWorker.processing` | One goroutine. It selects over five unbuffered channels: new work (chain tip), suspend, continue (with `noError`), add tx, and remove txs. Given a work, it opens `DB.View` and walks the backlog `txsList` from `listIndex`. It applies each tx to a speculative ledger (`accs`/`toks`) through `IncludeTransaction`. A failure is rolled back, and a background tx that fails is evicted. A success is committed into the template `includedTxs` if it fits under `BLOCK_MAX_SIZE`. When the backlog is drained, the worker waits for an add or for the ready signal (`sendReadyListCn`, closed by `resetNow`). |
| Ledger view | `transaction-simple.go`, `IncludeTransaction` | Checks the nonce, increments it, and debits every input; then credits every output. Any step can fail with partial effects, which the worker rolls back. |
| Candidate pool and admission gate | `mempool.go` `AddTxsToMemPool`, `DeleteTxs`, `Exists` | The pool is a copy-on-write list published in an `atomic.Value`. Adds hold the wallet lock and `txsListMutex`; deletes hold `txsListMutex`; readers take no lock. Admission picks a fee token, fakes a fee for the node's own txs, and drops duplicates. |
| Wallet | `wallet/wallet-manager.go` | The address list, map and counter, behind a RW lock. Each add or remove is mirrored into `mempool.Wallet`, which decides what counts as "mine" at admission, and into `forging.Wallet`. `UpdateAccountsChanges` and `refreshWallet` keep each address's delegated stake, and the forger's key, in step with committed accounts. |
| Delegator node | `api_delegator_node/delegator_node_extra.go` | Three goroutines. One stores each published chain height. One ticker expires pending delegate-stake requests 10 blocks after they were made. One account listener registers a delegate-stake address when a committed account confirms a pending request. |
| Mempool readers | `mempool-extra.go` `GetTxsList`, `GetBalance`, `GetNonce` | Lock-free reads of the published list: the balance an account will have after its pending txs, and the first nonce no pending tx of the account uses. |
| Forge threads | `forging/forging-block.go` `forge` | `threads` goroutines search one shared block for a kernel: thread `k` tries the addresses `i` with `i % threads = k`, one timestamp after another, and stops sleeping only when the timestamp is at most `NETWORK_TIMESTAMP_DRIFT_MAX` ahead of `now`. A hit is signed and handed to `AddBlocks` under a package mutex; success clears the shared `forging` flag. |
| Peripheral | sync, network, API, Zether, GUI | These produce or consume the mempool's operations. They are not modelled (see `PROJECT.json` components). |

## Modules

### `MempoolWorker.tla` (with `MC_MempoolWorker.tla`)

Models the worker and the goroutines on the other side of its channels.

**Worker state.** The variables are `work`, `suspended`, `txsList`, `txsMap`, `listIndex`, `readyListSent`, `includedTxs` and `includedTotalSize`.
- `pc` is `select` for the outer loop and `view` inside `DB.View`. A panic sets it to `crashed`.
- `readyCnClosed` records that the current `sendReadyListCn` is closed.
- The ledger is two copies of `[nonce, balance]` per account: `committed` (after `CommitChanges`) and `pending` (uncommitted writes). `Rollback` sets `pending` back to `committed`.
- The database is `ChainState[h]`, the accounts as of tip `h`. `dbTip` is the tip `UpdateWork` last stored, and `viewDb` is the snapshot the open `DB.View` reads. `OpenView` takes `viewDb` from `dbTip` whenever the worker enters the view. Creating a new `accs` resets both ledger copies to the state it is built on: the current `dbTip` in the outer loop, and `viewDb` inside the view (line 150).
- `listed`, `listReady` and `dropped` stand for the `MempoolTxs` methods the worker calls: `addToList`, `readyList`, `clearList` and `txs.txs.Delete`. Their code is not in `src/`, so they are modelled from their names and the spec.

**Worker actions.** There is one action per select case.
- Outer loop: `SelectSuspend`, `SelectNewWork`, `SelectRemove`, `SelectContinue`.
- Inside the view: `ViewSuspend`, `ViewNewWork`, `ViewRemove`.
- Default branch: `ViewNextTx` (next backlog entry), and, when the backlog is drained, `ViewAddTx` (take an add) and `ViewReadyList` (the closed ready channel).
- Each action contains everything its case calls: `ResetNow` (clear the pool list, close the ready channel, reset, sort), `RemoveTxs`, and `Attempt`. `Attempt` is `IncludeTransaction`, then the rollback and eviction (`OnIncludeError`) or the commit and append (`OnIncluded`).
- `SortTxs` is a stable insertion sort by fee, descending. The code calls `sortTxs`, which is not in `src/`.

**Callers.** Each channel has a caller that offers at most one message at a time (an unbuffered send). The number of messages per kind is bounded by `MaxSends`.

**Liveness.** `ReadyListPublished`: once a new work has closed the ready channel and the worker is in the view, the ready list is eventually published. `AddAnswered`: `addTransactionCn` is unbuffered, and only the nested select at the end of the backlog receives it (the outer select has no add case). While the worker has a work and is not suspended, an offered add is still eventually received, unless the worker crashed. Go picks at random among ready cases, so the nested select may take the ready-list case first; after that case only the add is ready.

**Fairness.** `WF_vars(Worker)`. The worker is a goroutine that never stops while it can receive or work. Callers get no fairness: nothing forces the chain or a peer to send.

**Refinement.** `BlockTemplate.tla` is the template as spec 4.3 promises it to the forger. Its state is a tip and a template. `NewTip(h)` starts an empty template. `Finish` drops the tip and keeps the template. `Extend(t)` appends a tx that is new to the template, that applies on the tip's ledger after those before it, and that keeps the total size below `BLOCK_MAX_SIZE`. The choice of the next tx (fee order, backlog, explicit adds) is left open. `MempoolWorker` instances it with `tip <- work`, `template <- includedTxs` and `Applies <- ValidOn`, where `ValidOn(h, s)` replays `s` on `ChainState[h]`. `TemplateRefinement == Tmpl!Spec` is checked as a property. Every worker step must then be a stutter or one of the three abstract steps. A nil-hash work changes neither (a stutter). A resume with `noError=true` sets `work` to nil and keeps the template, which is `Finish`.

### `MempoolTxs.tla` (with `MC_MempoolTxs.tla`)

Models the pool list, its counters `txsCount` and `txsInserted`, and `mempool.Wallet`'s address set.

**Fees.** The miner fees are computed from each tx's inputs and outputs by `ComputeFees`, `ComputeVin` and `ComputeVout` (in `transaction-simple.go`). An overflow (`SafeMapUint64Add`) or an underflow (`SafeMapUint64Sub`) makes the tx unverifiable.

**Actions.**
- `AddTxsToMemPool(batch)`, in one step:
  - any unverifiable tx aborts the whole call;
  - each tx gets one of its paying tokens (`PayingTokens`), chosen nondeterministically because Go iterates maps in random order;
  - an own tx that pays nothing gets the faked native fee;
  - entries that are not yet listed are appended.
- `DeleteTxs(ids)`: swap-remove.
- The counters follow the code's own arithmetic, not the list's length. `AppendNew` counts one increment per entry that passes the dedup scan. `DeleteEach` counts the ids it found (`len(out)`). `CountMatchesList` therefore checks that arithmetic against the list, for batches that repeat a hash and deletes that name a hash twice or one not listed.
- `AddWallet` / `RemoveWallet`: the wallet's mirror.

Every list update holds `txsListMutex`, and the fee computation reads no state that another call writes. One step per call is therefore exact.

**Readers.** `GetBalance` folds the published list (`GetTxsList`) with `SafeSub` and `SafeAdd`: a matching input is subtracted and a matching output added, failing on underflow or overflow. `GetNonce` collects the nonces of the txs whose first input is the account (`PendingNonces`) and steps past them (`SkipUsed`, recursive). Readers change nothing, so they are operators, and the properties quantify over their arguments in every reachable state. `AddTxsToMemPool` stores after each append, so a reader may see part of a batch. Such a list is also a list of the model (the same batch's prefix), so checking every reachable list covers it.

**Refinement.** `CandidatePool.tla` is the pool as spec 4.1-4.2 describes it. It is a set of admitted entries with unique keys, a count, and the wallet. `Insert` adds fresh admitted entries, `Remove` drops every entry of some keys, and `Join` and `Leave` change the wallet. An entry is admitted when its token pays at least the minimum per byte, or when it is local and nothing pays. The list order and the choice among paying tokens are left open. `MempoolTxs` instances it with `pool <- Range(txsList)`, `size <- txsCount` and `wallet <- myAddresses`. The per-byte fees are `MinerFees \div Size`, and the owners are the accounts of a tx's inputs. `PoolRefinement == Pool!Spec` is checked as a property.

### `Forging.tla` (with `MC_Forging.tla`)

**Threads.** Each thread is `LoopHead` (line 52: leave when `forging` is false, scan when the timestamp is within `DRIFT` of `now`), `Scan` (one turn of the inner loop) and `Sign` (the critical section).
- `now` is a per-thread variable set when the thread starts and never again, exactly as the code does.
- Sleeping changes no state, so it is not a step: a sleeping thread simply has no enabled action.
- A kernel is the pair of timestamp and key, and `Winning` is the set of pairs whose hash meets the difficulty. After a hit the code does not truncate `serialized`. `dirty` records this, and from then on the thread's hashes are over other bytes, so `KernelHits` lets them hit or miss freely.
- The shared block `blk` is overwritten by every `Sign`.

**Environment.** `Tick` advances the wall clock up to `MaxClock`. `NetworkBlock` moves the tip, after which `AddBlocks` refuses our block. `AddBlocks` is not in `src/`, so it is modelled from its contract: the block extends the tip and its kernel is winning.

**Fairness.** Each thread and `Tick` are weakly fair. Goroutines are scheduled, and wall-clock time passes. `NetworkBlock` gets none.

### `Wallet.tla` (with `MC_Wallet.tla`)

Models the address list, the map, `Count`, `SeedIndex` and the mempool mirror.
- `AddNewAddress` and `RemoveAddress` hold the write lock, so each is one step.
- `ImportPrivateKey` holds only the read lock around `AddAddress`, so it is three steps:
  - `ImportBegin`;
  - `ImportCheck`: the existence test, plus reading the list and `Count`;
  - `ImportStore`: the append, the map entry, `Count+1` and the mirror.
- `ReadAddress` stands for `GetWalletAddress` and `ShowPrivateKey`. An index these accept but cannot read panics.
- `GetFirstWallet` is `GetFirstWalletForDevnetGenesisAirdrop`. It reads `Addresses[0]` without a length check, so it panics once `RemoveAddress` has emptied the list, and changes nothing otherwise.
- `UpdateAccountsChanges(k, commit, d)` applies one committed account, "update" with delegated stake `d` or "delete", through `RefreshWallet`. Every branch of `refreshWallet` is kept. `FindDelegatedStake` finds exactly the keys in `OwnDelegates`.
- Key bytes, persistence (`saveWallet`) and `lastKnownNonce` are left out.

### `DelegatorNode.tla` (with `MC_DelegatorNode.tla`)

**Goroutines.** `HeightListener`, `Tick` and `AccountsListener` are the three goroutines, each one step per loop iteration.
- A tick that sees no new height changes nothing, so `Tick` is enabled only when the height is new.
- The `sync.Map` deletions of one tick commute with the listener's per-key loads, so a tick is one step.

**Environment.**
- `NewBlock` appends the block's height and its committed accounts to the two listener channels.
- `Request` records a pending change at the node's current height. The request handler is not in `src/`.

**Liveness.** `PendingExpires`: a pending change whose 10-block window the chain has passed is eventually deleted. The ticker only scans when the height it loads differs from the last one it saw. A change recorded while `api.chainHeight` lags, or confirmed and left in the map by the accounts listener (line 93), must still go.

**Fairness.** The goroutines get weak fairness: they loop forever, and the ticker fires every 10 s. The chain and the clients get none.

**Bounds.** The code's 10-block window is shrunk to `Expiry = 2`, over heights up to 4. What matters is how far the two listeners may drift apart, not the length of the window.

## Runs

| Run | Expect | Shows |
|---|---|---|
| `worker_core` | pass | `CursorInRange`, `ReadySignalConsistent` and `TemplateWithinBudget` hold under every interleaving of resets, suspends, continues of both kinds, adds and removes. `ReadyListPublished` holds: once the backlog is drained, the closed ready channel is eventually taken. `AddAnswered` holds: an add offered while the worker has work and is not suspended is eventually received. |
| `worker_valid` | pass | `TemplateValid` holds (the template replays on the tip ledger) when continues succeed and every tx fits. The rollback after `IncludeTransaction`'s partial debit is therefore correct. `TemplateRefinement` holds: the published template implements `BlockTemplate`. |
| `worker_invalid_template` | violation | With continues of both kinds and a small block, `TemplateValid` fails. `continue(false)` rebuilds `accs` but keeps the template, so `t4` can follow `t1` on the same nonce. A tx that does not fit is neither committed nor rolled back, and its changes ride along with the next commit. TLC reports the shortest trace, which is the over-budget one. |
| `worker_remove` | violation | `RemovePurges` (spec 4.3(5)) fails. Removing a failed explicit add (in `txsMap`, not in `txsList`) gives `make` a negative length. The filtered list of `removeTxs` is never stored either. |
| `worker_stale_view` | violation | `TemplateValid` fails with two tips. `UpdateWork(h2)` is stored while the worker is inside the view it opened on `h1`. The new work rebuilds `accs` on the view's `dbTx`, so `t1`, already in `h2`, is included again in the template for `h2`. |
| `pool` | pass | The pool holds no duplicate hashes, and `txsCount` is the length of the list. A foreign tx's fee plus its outputs in that token are covered by its inputs (`FeeBackedByInputs`). Whenever `GetBalance` succeeds, it returns the balance plus pending credits minus pending debits (`BalanceOfPending`). `GetNonce` returns a nonce not pending for the account, after a run of pending ones (`NonceAfterPending`). The list, counter and wallet implement `CandidatePool` (`PoolRefinement`). |
| `wallet` | pass | Addresses listed once; the map, `Count`, the mempool mirror and the forger's entries agree with the list. Whenever an address holds a delegated stake, the forger stakes for it with that key, across removals, re-imports and account changes (`ForgerFollowsStake`). |
| `wallet_stake` | violation | `StakeMirrorsChain` fails. An undelegation clears the address's stake but not the forger's key, and a deleted account is passed to `refreshWallet` as nil, which ignores it. |
| `wallet_import_race` | violation | Two concurrent imports lose an append. |
| `delegator` | pass | `PendingExpires`: once the chain is `Expiry` blocks past a pending change's request, the change is eventually deleted, however the goroutines interleave. |
| `forge_frozen_clock` | violation | `TriesEveryTimestamp` fails. Both threads hash timestamps 0 to `DRIFT`, then sleep for good, because `now` was read once at line 47. The clock reaches 2, but the winning kernel at timestamp 3 is never tried. With `now` read at each loop head the same model satisfies the property. |
| `delegator_lost_registration` | violation | `ConfirmedRegistered` fails. The height side runs ahead and expires a change whose confirming block (inside the window) the accounts listener has not yet received. |

## Bounds

**Worker: four transfers from `a1` to `a2`.**
- `t2` depends on `t1`, `t3` depends on `t2`, and `t4` reuses `t1`'s nonce.
- With `MaxBalance = 2`, `t2`'s credit overflows after the debit, which exercises the partial failure.
- With `BLOCK_MAX_SIZE = 3`, `t2` does not fit after `t1`.
- One chain hash plus the nil hash (two tips, `h1` and `h2`, in `worker_stale_view`, where `h2` is `h1` with `t1` applied), up to 2 works, 3 adds, 1 remove, 1 suspend and 1 continue.
- This is enough for the following cases:
  - a reset in the middle of a walk;
  - a remove before and after the cursor;
  - an add after the drain;
  - a double spend;
  - every failure path.
- The passing run reaches about 225,000 states.

**Pool.**
- Five txs: one pays in both tokens, one only in the non-native token, one pays nothing (accepted only if own), one spends more than it has (underflow), and one whose inputs overflow a uint64 shrunk to 5.
- They are spent by two accounts, `a1` (nonces 0 and 1) and `a2` (nonces 0, 2 and 3). `GetNonce` then has a run of pending nonces to step over (`a1` from 0) and a gap (`a2` from 0 stops at 1). Outputs go between the accounts in both tokens, so `GetBalance` sees both debits and credits.
- Batches of one or two txs, duplicates included; four calls. The run reaches about 2,300 states.

**Forging.** The model has two threads with one key each, and `DRIFT = 1`. The clock runs from 0 to 2, and the only winning kernel is `k2` at timestamp 3. That kernel is usable once the clock reaches 2, and a forge that reads the clock each time finds it.

**Wallet.**
- Three keys. Seed indexes derive `k1` and `k2`, and `k2` and `k3` can be imported, so an import can take the next derived key. Up to three addresses.
- Two delegate keys: the wallet can derive `d1` but not `d2`.
- The races need only two importers.

## Not modelled

- `RestartWork`'s nil work. `mempool.go` and `mempool.thread.go` are different revisions: `InitMemPool` starts `processing` with three arguments, while the worker takes six.
- `GetNextTransactionsToInclude` reads `mempool.result`, which nothing in `src/` writes. `print` is output only.
- The order in which other threads see the unsynchronised `forging` flag, which the model treats as sequentially consistent. It also leaves out what the chain does with a `*Block` that another thread later re-signs.
- Zether transactions. Their proofs and encrypted balances are out of TLC's reach, and the worker model carries only simple transfers. Reading `TransactionZether.IncludeTransaction` found two defects that no run checks:
  - line 94 looks up every payload's accounts in `accs`, which still holds the last payload's token, so a multi-token tx updates the wrong asset's accounts;
  - line 110 writes `acc.Balance.Amount` when `acc` is nil (an account of zero balance, handled in the first loop), which panics.
  `Deserialize` also reads the script type into a local (line 192) and never stores it in `tx.TxScript`.
- The mempool sync loop (`mempool_sync.go`). It calls `GetMap["mempool/new-tx-id"]`, which this revision of `api-websockets.go` does not register (a nil func), and the paging server is not in `src/`.
- Serialization (`transaction-simple.go` lines 110-236). `Deserialize` sizes `make([]*Input, n)` from an untrusted count (lines 202 and 214). `Serialize` calls `WriteUvarint`, which this revision's `helpers.BufferWriter` lacks.
- `network_sync.go`: four polling loops and a new-connection listener. Every state change is in callees outside `src/` (`GetRandomKnownNode`, `NewWebsocketClient`, `DecreaseScore`, `ChainUpdate`, `DownloadNetworkNodes`). The loop at lines 22-29 `continue`s without sleeping when no known node is available or the node is banned, which busy-spins. No model is needed to see that.
- `GetWalletAddressByAddress` is a lookup in `addressesMap` that changes nothing. `WalletConsistent` states that the map holds exactly the listed addresses.
- The token store, the HTTP and websocket APIs (stateless parsing and forwarding to callees outside `src/`) and the GUI.

The runs are twelve. Four shallow or easily unit-tested findings are not given runs: a duplicate add returns `true`, the wallet index off-by-one, the discarded key-length error, and the faked own-tx fee rounding to 0. They are listed as hazards with notes in `PROJECT.json`.

## Open questions

Every run slot holds a distinct question, so these remain open:
- A liveness property for `AddNewAddress` after an import of the key at the next seed index. It would be violated: `SeedIndex` never advances past an imported key, so every later `AddNewAddress` answers "Address exists" (hazard at `wallet-manager.go:92`).
- The kernels handed to `AddBlocks` after a failed hit (hazard at `forging-block.go:92`), which needs a second `Forging` run.
- A check of `SortTxs` against a declarative sort. `sortTxs` is not in `src/`, so such a check would test only the model's own helper.
