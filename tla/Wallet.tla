------------------------------- MODULE Wallet -------------------------------
(***************************************************************************)
(* The address list of src/wallet/wallet-manager.go and the mirror of it   *)
(* kept in mempool.Wallet.  AddNewAddress and RemoveAddress hold the       *)
(* wallet's write lock and are one step each.  ImportPrivateKey holds only *)
(* the READ lock while it runs AddAddress(lock=false), so two imports may  *)
(* run AddAddress at once: each is split at the points where it reads and  *)
(* writes the shared fields.  GetWalletAddress and ShowPrivateKey read an  *)
(* address by index under the read lock.  UpdateAccountsChanges applies a  *)
(* committed account to the address's delegated stake (refreshWallet) and *)
(* to forging.Wallet, the keys the forger stakes with.                      *)
(* Every address is the wallet's own (IsMine), as AddNewAddress and         *)
(* ImportPrivateKey create them; lastKnownNonce is left out.               *)
(* Keys stand for private keys; the public key hash is a function of the   *)
(* key, so the key itself is the addressesMap key.  saveWallet, the GUI    *)
(* and the events are left out.                                             *)
(***************************************************************************)
EXTENDS Naturals, Sequences, FiniteSets, SequencesExt

CONSTANTS
    Keys,           \* private keys (and so addresses)
    SeedKey,        \* [0..MaxSeed -> Keys]: GeneratePrivateKey(seedIndex)
    MaxSeed,        \* bound on wallet.SeedIndex
    ImportKeys,     \* keys a user may import
    DelegateKeys,   \* delegated staking public key hashes
    OwnDelegates,   \* those FindDelegatedStake derives from the wallet's keys
    NoStake,        \* DelegatedStake == nil
    Absent,         \* no entry in forging.Wallet
    Importers,      \* concurrent ImportPrivateKey callers
    MaxAddresses    \* bound on the length of the address list

ASSUME SeedKey \in [0..MaxSeed -> Keys] /\ ImportKeys \subseteq Keys

VARIABLES
    addresses,      \* wallet.Addresses
    addressesMap,   \* the keys of wallet.addressesMap
    count,          \* wallet.Count
    seedIndex,      \* wallet.SeedIndex
    mempoolWallet,  \* mempool.Wallet.myAddressesMap
    pc,             \* "up" or "crashed": an index out of range panics the node
    imp,            \* [Importers -> "idle" | "check" | "store"]
    impKey,         \* the key each importer adds
    impSeen,        \* the Addresses and Count an importer read before storing
    delegated,      \* [Keys -> DelegateKeys \cup {NoStake}]: adr.DelegatedStake
    forging,        \* [Keys -> DelegateKeys \cup {NoStake, Absent}]: forging.Wallet
    chainStake      \* [Keys -> DelegateKeys \cup {NoStake}]: acc.DelegatedStake on chain

stake == <<delegated, forging, chainStake>>
vars == <<addresses, addressesMap, count, seedIndex, mempoolWallet, pc, imp, impKey, impSeen, stake>>

Up == pc = "up"
NoImport == \A p \in Importers : imp[p] = "idle"

\* Mutant: the lookup of a just-added key reports it missing.
KnownForgetful(k) == FALSE

(* AddAddress's test addressesMap[pkh] != nil (line 91).                    *)
Known(k) == k \in addressesMap

(* AddNewAddress (lines 140-164) under the write lock: the key of seed      *)
(* index SeedIndex is added unless known; SeedIndex advances only when it   *)
(* was added (AddAddress returns before line 100 when the address exists). *)
AddNewAddress ==
    /\ Up /\ NoImport
    /\ Len(addresses) < MaxAddresses /\ seedIndex < MaxSeed
    /\ LET k == SeedKey[seedIndex] IN
       IF Known(k)
       THEN UNCHANGED vars
       ELSE /\ addresses' = Append(addresses, k)
            /\ addressesMap' = addressesMap \cup {k}
            /\ count' = count + 1
            /\ seedIndex' = seedIndex + 1
            /\ mempoolWallet' = mempoolWallet \cup {k}
            /\ delegated' = [delegated EXCEPT ![k] = NoStake]
            /\ forging' = [forging EXCEPT ![k] = NoStake]
            /\ UNCHANGED <<pc, imp, impKey, impSeen, chainStake>>

(* The index check of RemoveAddress, GetWalletAddress and ShowPrivateKey    *)
(* (lines 171, 199, 210): index < 0 || index > len(Addresses) is refused.   *)
IndexAccepted(i) == ~(i < 0 \/ i > Len(addresses))

\* Mutant: the address is dropped from the map but left in the list.
RemoveAddressKeepList(i) ==
    /\ Up /\ NoImport
    /\ IndexAccepted(i)
    /\ IF i = Len(addresses)
       THEN /\ pc' = "crashed"
            /\ UNCHANGED <<addresses, addressesMap, count, seedIndex, mempoolWallet, imp, impKey, impSeen, stake>>
       ELSE LET k == addresses[i + 1] IN
            /\ addressesMap' = addressesMap \ {k}
            /\ count' = count - 1
            /\ mempoolWallet' = mempoolWallet \ {k}
            /\ forging' = [forging EXCEPT ![k] = Absent]
            /\ UNCHANGED <<addresses, pc, seedIndex, imp, impKey, impSeen, delegated, chainStake>>

(* RemoveAddress(index) (lines 166-193) under the write lock.  An accepted *)
(* index equal to the length reads past the slice and panics.              *)
RemoveAddress(i) ==
    /\ Up /\ NoImport
    /\ IndexAccepted(i)
    /\ IF i = Len(addresses)
       THEN /\ pc' = "crashed"
            /\ UNCHANGED <<addresses, addressesMap, count, seedIndex, mempoolWallet, imp, impKey, impSeen, stake>>
       ELSE LET k == addresses[i + 1] IN
            /\ addresses' = RemoveAt(addresses, i + 1)
            /\ addressesMap' = addressesMap \ {k}
            /\ count' = count - 1
            /\ mempoolWallet' = mempoolWallet \ {k}
            /\ forging' = [forging EXCEPT ![k] = Absent]
            /\ UNCHANGED <<pc, seedIndex, imp, impKey, impSeen, delegated, chainStake>>

(* GetWalletAddress / ShowPrivateKey (lines 195-214): a read by index; an  *)
(* accepted index equal to the length panics, any other changes nothing.   *)
ReadAddress(i) ==
    /\ Up
    /\ IndexAccepted(i)
    /\ i = Len(addresses)
    /\ pc' = "crashed"
    /\ UNCHANGED <<addresses, addressesMap, count, seedIndex, mempoolWallet, imp, impKey, impSeen, stake>>

(* GetFirstWalletForDevnetGenesisAirdrop (lines 19-30) under the write    *)
(* lock: it reads Addresses[0] with no length check, so on a wallet whose  *)
(* addresses were all removed it panics; otherwise it changes nothing     *)
(* (DeriveDelegatedStake(0) derives a key without storing it).             *)
GetFirstWallet ==
    /\ Up /\ NoImport
    /\ addresses = <<>>
    /\ pc' = "crashed"
    /\ UNCHANGED <<addresses, addressesMap, count, seedIndex, mempoolWallet, imp, impKey, impSeen, stake>>

(* ImportPrivateKey (lines 50-70) takes the read lock (no writer holds the *)
(* lock, as writers are single steps) and enters AddAddress.                *)
ImportBegin(p, k) ==
    /\ Up /\ imp[p] = "idle"
    /\ imp' = [imp EXCEPT ![p] = "check"]
    /\ impKey' = [impKey EXCEPT ![p] = k]
    /\ UNCHANGED <<addresses, addressesMap, count, seedIndex, mempoolWallet, pc, impSeen, stake>>

(* Lines 91-95: the existence test, then the read of Addresses and Count   *)
(* that the append and the increment start from.                            *)
ImportCheck(p) ==
    /\ Up /\ imp[p] = "check"
    /\ IF Known(impKey[p])
       THEN /\ imp' = [imp EXCEPT ![p] = "idle"]
            /\ UNCHANGED impSeen
       ELSE /\ imp' = [imp EXCEPT ![p] = "store"]
            /\ impSeen' = [impSeen EXCEPT ![p] = [addrs |-> addresses, cnt |-> count]]
    /\ UNCHANGED <<addresses, addressesMap, count, seedIndex, mempoolWallet, pc, impKey, stake>>

(* Lines 95-109: the append, the map entry, Count += 1 and the mempool's   *)
(* wallet entry, written from what was read; then the read lock is freed.  *)
ImportStore(p) ==
    /\ Up /\ imp[p] = "store"
    /\ addresses' = Append(impSeen[p].addrs, impKey[p])
    /\ addressesMap' = addressesMap \cup {impKey[p]}
    /\ count' = impSeen[p].cnt + 1
    /\ mempoolWallet' = mempoolWallet \cup {impKey[p]}
    /\ delegated' = [delegated EXCEPT ![impKey[p]] = NoStake]
    /\ forging' = [forging EXCEPT ![impKey[p]] = NoStake]
    /\ imp' = [imp EXCEPT ![p] = "idle"]
    /\ UNCHANGED <<seedIndex, pc, impKey, impSeen, chainStake>>

\* Mutant: a derived stake is stored on the address, and forging.Wallet is
\* not told (AddWallet at line 283 left out).
RefreshWalletNoForger(k, acc) ==
    LET ds == delegated[k] IN
    CASE acc = "nil" -> <<delegated, forging>>
      [] ds # NoStake /\ acc = NoStake -> <<[delegated EXCEPT ![k] = NoStake], forging>>
      [] ds # acc /\ acc # NoStake ->
           IF acc \in OwnDelegates
           THEN <<[delegated EXCEPT ![k] = acc], forging>>
           ELSE <<[delegated EXCEPT ![k] = NoStake], [forging EXCEPT ![k] = NoStake]>>
      [] OTHER -> <<delegated, forging>>

(* refreshWallet (lines 253-297) for the address k and the committed       *)
(* account's DelegatedStake acc ("nil" when the account was deleted): the  *)
(* new <<delegated, forging>>.  A nil account changes nothing; a stake     *)
(* removed on chain is cleared from the address only; a new or different  *)
(* stake is taken (and given to the forger) when FindDelegatedStake finds *)
(* its key, and cleared (forger told nil) when it does not.               *)
RefreshWallet(k, acc) ==
    LET ds == delegated[k] IN
    CASE acc = "nil" -> <<delegated, forging>>
      [] ds # NoStake /\ acc = NoStake -> <<[delegated EXCEPT ![k] = NoStake], forging>>
      [] ds # acc /\ acc # NoStake ->
           IF acc \in OwnDelegates
           THEN <<[delegated EXCEPT ![k] = acc], [forging EXCEPT ![k] = acc]>>
           ELSE <<[delegated EXCEPT ![k] = NoStake], [forging EXCEPT ![k] = NoStake]>>
      [] OTHER -> <<delegated, forging>>

(* UpdateAccountsChanges (lines 299-325) under the write lock, for one     *)
(* committed account k: "update" with its new DelegatedStake d, or         *)
(* "delete".  Only the wallet's addresses are refreshed.                   *)
UpdateAccountsChanges(k, commit, d) ==
    /\ Up /\ NoImport
    /\ chainStake' = [chainStake EXCEPT ![k] = IF commit = "delete" THEN NoStake ELSE d]
    /\ IF k \in addressesMap
       THEN LET r == RefreshWallet(k, IF commit = "delete" THEN "nil" ELSE d)
            IN  delegated' = r[1] /\ forging' = r[2]
       ELSE UNCHANGED <<delegated, forging>>
    /\ UNCHANGED <<addresses, addressesMap, count, seedIndex, mempoolWallet, pc, imp, impKey, impSeen>>

(* A new wallet: createEmptyWallet (lines 239-245) creates the seed        *)
(* (createSeed, lines 216-237, abstracted into SeedKey) and adds the       *)
(* address of seed index 0.                                                *)
Init ==
    /\ addresses = <<SeedKey[0]>>
    /\ addressesMap = {SeedKey[0]}
    /\ count = 1
    /\ seedIndex = 1
    /\ mempoolWallet = {SeedKey[0]}
    /\ pc = "up"
    /\ imp = [p \in Importers |-> "idle"]
    /\ impKey = [p \in Importers |-> CHOOSE k \in Keys : TRUE]
    /\ impSeen = [p \in Importers |-> [addrs |-> <<>>, cnt |-> 0]]
    /\ delegated = [k \in Keys |-> NoStake]
    /\ forging = [k \in Keys |-> IF k = SeedKey[0] THEN NoStake ELSE Absent]
    /\ chainStake = [k \in Keys |-> NoStake]

Next ==
    \/ AddNewAddress
    \/ GetFirstWallet
    \/ \E i \in -1..MaxAddresses : RemoveAddress(i) \/ ReadAddress(i)
    \/ \E p \in Importers :
         \/ \E k \in ImportKeys : Len(addresses) < MaxAddresses /\ ImportBegin(p, k)
         \/ ImportCheck(p)
         \/ ImportStore(p)
    \/ \E k \in Keys, d \in DelegateKeys \cup {NoStake} :
         UpdateAccountsChanges(k, "update", d) \/ UpdateAccountsChanges(k, "delete", d)

Spec == Init /\ [][Next]_vars

-----------------------------------------------------------------------------
TypeOK ==
    /\ addresses \in Seq(Keys) /\ addressesMap \subseteq Keys
    /\ count \in Nat /\ seedIndex \in 0..MaxSeed
    /\ mempoolWallet \subseteq Keys /\ pc \in {"up", "crashed"}
    /\ imp \in [Importers -> {"idle", "check", "store"}]
    /\ impKey \in [Importers -> Keys]
    /\ delegated \in [Keys -> DelegateKeys \cup {NoStake}]
    /\ forging \in [Keys -> DelegateKeys \cup {NoStake, Absent}]
    /\ chainStake \in [Keys -> DelegateKeys \cup {NoStake}]

(* The list, the map and Count describe the same addresses: every address  *)
(* is listed once, the map holds exactly the listed ones, Count is their   *)
(* number, mempool.Wallet marks exactly them as mine, and forging.Wallet   *)
(* has an entry for exactly them.                                          *)
WalletConsistent ==
    /\ IsInjective(addresses)
    /\ addressesMap = Range(addresses)
    /\ count = Len(addresses)
    /\ mempoolWallet = addressesMap
    /\ {k \in Keys : forging[k] # Absent} = addressesMap

(* Whenever the wallet holds a delegated stake for one of its addresses,  *)
(* the forger stakes for that address with exactly that key: a stake       *)
(* taken, replaced by one the wallet cannot derive, or set after the       *)
(* address was removed and imported again reaches forging.Wallet too.       *)
(* (The converse, an undelegation reaching the forger, is StakeMirrorsChain.) *)
ForgerFollowsStake ==
    \A k \in addressesMap : delegated[k] # NoStake => forging[k] = delegated[k]

(* After every account change the chain commits, the delegated stake the  *)
(* wallet holds for an address is the chain's, and the forger stakes for   *)
(* the address with exactly that key.                                      *)
StakeMirrorsChain ==
    \A k \in addressesMap :
        /\ forging[k] = delegated[k]
        /\ delegated[k] # NoStake => delegated[k] = chainStake[k]

=============================================================================
