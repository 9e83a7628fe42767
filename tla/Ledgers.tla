-------------------------------- MODULE Ledgers --------------------------------
(***************************************************************************)
(* Small tables that others keep their books in: the coins of class UTXOStorage,  *)
(* the accounts of layer 2 (payments_state_machine.cpp), delegations and the       *)
(* public purse (voting.cpp), identities with their credentials (did.cpp), and      *)
(* the transactions on their way between shards (shard.cpp).                     *)
(***************************************************************************)
EXTENDS Integers, Sequences, FiniteSets, Sums

CONSTANTS
    StoredCoin,         \* the outpoints
    StoredOutput,       \* the outputs
    MaxWrites,          \* bound on the operations of the store
    Party,              \* the names of accounts, "" among them
    LedgerWord,         \* 2^64
    PartAmounts,        \* the amounts and fees that are asked for
    MaxCredited,        \* bound on what is paid in
    MaxEntries,         \* bound on the operations of the other tables
    DidKeys,            \* public keys: <<the first 16 bytes, the others>>
    Issuers,
    Shards,             \* total_shards of the coordinator
    Managers,           \* the managers there are: [shard |-> shard_id, total |-> total_shards]
    CrossTxs            \* [tx_hash, source, destination, proof]

ASSUME LedgersAssumption ==
    /\ MaxWrites \in Nat /\ MaxEntries \in Nat /\ MaxCredited \in Nat
    /\ LedgerWord \in Nat \ {0} /\ IsFiniteSet(Party) /\ PartAmounts \subseteq 0 .. LedgerWord - 1
    /\ Shards \in Nat

(* class UTXOStorage: one key each for the coins, and their number under a key of its own.  The set  *)
(* is saved in one batch; a coin is added or removed in one write and counted in another, and the     *)
(* process may die between.  The keys, and how the set is loaded from them, are in Texts.            *)
VARIABLES
    coinDb,             \* the database: the coins, and the count as it is written
    coinDbOpen,         \* db_
    counting,           \* what the operation under way adds to the count, <<>> for none
    coinHistory         \* history: the operations, the set last saved, whether the count may be wrong
coinStoreVars == <<coinDb, coinDbOpen, counting, coinHistory>>

NoCoin == [c \in {} |-> 0]
Absent == -1

InitCoinStore ==
    /\ coinDb = [coins |-> NoCoin, count |-> Absent] /\ coinDbOpen = FALSE /\ counting = <<>>
    /\ coinHistory = [writes |-> 0, saved |-> NoCoin, since |-> FALSE, skewed |-> FALSE]

(* GetUTXOCount: a key that is missing counts nothing *)
GetUTXOCount == IF coinDb.count = Absent THEN 0 ELSE coinDb.count

Holding(coins, c, o) == [d \in DOMAIN coins \cup {c} |-> IF d = c THEN o ELSE coins[d]]
Lacking(coins, c) == [d \in DOMAIN coins \ {c} |-> coins[d]]

PutOrDelete(coins, add, skews) ==
    /\ coinDbOpen /\ counting = <<>> /\ coinHistory.writes < MaxWrites
    /\ coinDb' = [coinDb EXCEPT !.coins = coins] /\ counting' = <<add>>
    /\ coinHistory' = [coinHistory EXCEPT !.writes = @ + 1, !.since = TRUE, !.skewed = @ \/ skews]
    /\ UNCHANGED coinDbOpen

(* A coin that is there is written over and counted again; one that is not is deleted and counted off *)
AddUTXO(c, o) == PutOrDelete(Holding(coinDb.coins, c, o), 1, c \in DOMAIN coinDb.coins)
RemoveUTXO(c) == PutOrDelete(Lacking(coinDb.coins, c), -1, c \notin DOMAIN coinDb.coins)

(* The count is not taken below zero *)
WriteCount ==
    /\ counting # <<>> /\ counting' = <<>>
    /\ coinDb' = [coinDb EXCEPT !.count = IF counting[1] < 0 /\ GetUTXOCount = 0 THEN @ ELSE GetUTXOCount + counting[1]]
    /\ UNCHANGED <<coinDbOpen, coinHistory>>

(* The keys of all coins are deleted in the batch that writes the new ones *)
SaveUTXOSet(coins) ==
    /\ coinDbOpen /\ counting = <<>> /\ coinHistory.writes < MaxWrites
    /\ coinDb' = [coins |-> coins, count |-> Cardinality(DOMAIN coins)]
    /\ coinHistory' = [writes |-> coinHistory.writes + 1, saved |-> coins, since |-> FALSE, skewed |-> FALSE]
    /\ UNCHANGED <<coinDbOpen, counting>>

OpenCoins ==
    /\ ~coinDbOpen /\ coinDbOpen' = TRUE
    /\ UNCHANGED <<coinDb, counting, coinHistory>>

(* Close, or the end of the process: a count that was not written is lost *)
CloseCoins ==
    /\ coinDbOpen /\ coinDbOpen' = FALSE /\ counting' = <<>>
    /\ coinHistory' = [coinHistory EXCEPT !.skewed = @ \/ counting # <<>>]
    /\ UNCHANGED coinDb

CoinStoreStep ==
    \/ \E c \in StoredCoin, o \in StoredOutput : AddUTXO(c, o)
    \/ \E c \in StoredCoin : RemoveUTXO(c)
    \/ \E coins \in UNION {[held -> StoredOutput] : held \in SUBSET StoredCoin} : SaveUTXOSet(coins)
    \/ WriteCount \/ OpenCoins \/ CloseCoins

-----------------------------------------------------------------------------
(* PaymentsStateMachine: an account that is not in the map has nothing *)
VARIABLES
    balances,           \* balances_
    collectedFees,      \* collected_fees_
    credited            \* history: all that was paid in
paymentVars == <<balances, collectedFees, credited>>

InitPayments == balances = [a \in Party |-> 0] /\ collectedFees = 0 /\ credited = 0

(* A balance that does not fit wraps *)
Credit(a, amount) ==
    /\ credited + amount <= MaxCredited
    /\ balances' = [balances EXCEPT ![a] = (@ + amount) % LedgerWord]
    /\ credited' = credited + amount
    /\ UNCHANGED collectedFees

Debit(amount, fee) == (amount + fee) % LedgerWord
TransferOK(from, to, amount, fee) ==
    /\ from # "" /\ to # "" /\ from # to
    /\ amount # 0 /\ Debit(amount, fee) >= amount
    /\ balances[from] >= Debit(amount, fee)

Transfer(from, to, amount, fee) ==
    /\ TransferOK(from, to, amount, fee)
    /\ balances' = [balances EXCEPT ![from] = @ - Debit(amount, fee), ![to] = (@ + amount) % LedgerWord]
    /\ collectedFees' = (collectedFees + fee) % LedgerWord
    /\ UNCHANGED credited

PaymentsStep ==
    \/ \E a \in Party, n \in PartAmounts : Credit(a, n)
    \/ \E from, to \in Party, n, fee \in PartAmounts : Transfer(from, to, n, fee)

PaymentsSpec == InitPayments /\ [][PaymentsStep]_paymentVars

-----------------------------------------------------------------------------
(* DelegationSystem and TreasuryManager, which votes and proposals never ask *)
VARIABLES
    delegations,        \* delegations_: the amounts by delegator and delegatee
    purse,              \* balance_
    purseLog,           \* transactions_
    lent,               \* history: what each was lent and not taken back, without a width
    entries             \* history: the operations on this and the tables below
delegationVars == <<delegations, purse, purseLog, lent>>

Entered(step) == step /\ entries < MaxEntries /\ entries' = entries + 1

InitDelegation ==
    /\ delegations = [p \in {} |-> 0] /\ purse = 0 /\ purseLog = <<>> /\ lent = [a \in Party |-> 0]

Amount(from, to) == IF <<from, to>> \in DOMAIN delegations THEN delegations[<<from, to>>] ELSE 0
Delegated(from, to, n) ==
    [p \in DOMAIN delegations \cup {<<from, to>>} |-> IF p = <<from, to>> THEN n ELSE delegations[p]]

Delegate(from, to, n) ==
    /\ n # 0 /\ from # to
    /\ delegations' = Delegated(from, to, (Amount(from, to) + n) % LedgerWord)
    /\ lent' = [lent EXCEPT ![to] = @ + n]
    /\ UNCHANGED <<purse, purseLog>>

(* What is taken back to nothing is erased; nothing may be taken back as well *)
Undelegate(from, to, n) ==
    /\ <<from, to>> \in DOMAIN delegations /\ delegations[<<from, to>>] >= n
    /\ delegations' = IF delegations[<<from, to>>] = n
                      THEN [p \in DOMAIN delegations \ {<<from, to>>} |-> delegations[p]]
                      ELSE Delegated(from, to, delegations[<<from, to>>] - n)
    /\ lent' = [lent EXCEPT ![to] = @ - n]
    /\ UNCHANGED <<purse, purseLog>>

GetDelegationsTo(to) ==
    [from \in {f \in Party : <<f, to>> \in DOMAIN delegations} |-> delegations[<<from, to>>]]
GetDelegationsFrom(from) ==
    [to \in {t \in Party : <<from, t>> \in DOMAIN delegations} |-> delegations[<<from, to>>]]
GetVotingPower(to) == Sum(GetDelegationsTo(to)) % LedgerWord

Deposit(n) ==
    /\ n # 0 /\ purse' = (purse + n) % LedgerWord
    /\ purseLog' = Append(purseLog, [amount |-> n, is_deposit |-> TRUE, proposal_id |-> 0])
    /\ UNCHANGED <<delegations, lent>>

Withdraw(n, proposal) ==
    /\ n # 0 /\ n <= purse /\ proposal # 0
    /\ purse' = purse - n
    /\ purseLog' = Append(purseLog, [amount |-> n, is_deposit |-> FALSE, proposal_id |-> proposal])
    /\ UNCHANGED <<delegations, lent>>

DelegationStep ==
    \/ \E from, to \in Party, n \in PartAmounts :
          Entered(Delegate(from, to, n)) \/ Entered(Undelegate(from, to, n))
    \/ \E n \in PartAmounts : Entered(Deposit(n)) \/ \E proposal \in {0, 1} : Entered(Withdraw(n, proposal))
-----------------------------------------------------------------------------
(* DIDManager and CredentialManager: a DID is the first 16 bytes of a key, a credential is named after *)
(* its subject.  A signature is there or not; nothing looks at what it signs.                       *)
VARIABLES
    didRegistry,        \* did_registry_
    issued,             \* the credentials in the hands of their holders
    revocationList,     \* revocation_list_
    identityLog         \* history: what was called with success, in order
identityVars == <<didRegistry, issued, revocationList, identityLog>>

InitIdentity ==
    didRegistry = [d \in {} |-> 0] /\ issued = {} /\ revocationList = {} /\ identityLog = <<>>

Did(key) == key[1]
NewDocument(did) == [id |-> did, public_keys |-> <<>>, services |-> <<>>]
Registered(did, document) ==
    [d \in DOMAIN didRegistry \cup {did} |-> IF d = did THEN document ELSE didRegistry[d]]
Logged(what, did) == identityLog' = Append(identityLog, <<what, did>>)

(* A document of the same first bytes is replaced by a new one *)
CreateDID(key) ==
    /\ didRegistry' = Registered(Did(key), NewDocument(Did(key))) /\ Logged("create", Did(key))
    /\ UNCHANGED <<issued, revocationList>>

ResolveDID(did) == IF did \in DOMAIN didRegistry THEN <<didRegistry[did]>> ELSE <<>>

UpdateDIDDocument(did, document, signed) ==
    /\ signed /\ did \in DOMAIN didRegistry
    /\ didRegistry' = Registered(did, document) /\ Logged("update", did)
    /\ UNCHANGED <<issued, revocationList>>

RevokeDID(did, signed) ==
    /\ signed /\ did \in DOMAIN didRegistry
    /\ didRegistry' = [d \in DOMAIN didRegistry \ {did} |-> didRegistry[d]] /\ Logged("revoke", did)
    /\ UNCHANGED <<issued, revocationList>>

AddPublicKey(did, key) ==
    /\ did \in DOMAIN didRegistry
    /\ didRegistry' = [didRegistry EXCEPT ![did].public_keys = Append(@, key)] /\ Logged("key", did)
    /\ UNCHANGED <<issued, revocationList>>
AddService(did, service) ==
    /\ did \in DOMAIN didRegistry
    /\ didRegistry' = [didRegistry EXCEPT ![did].services = Append(@, service)] /\ Logged("service", did)
    /\ UNCHANGED <<issued, revocationList>>

(* Issuer and subject need not be registered *)
IssueCredential(issuer, subject, proof) ==
    /\ issued' = issued \cup {[id |-> subject, issuer |-> issuer, proof |-> proof]}
    /\ Logged("issue", subject) /\ UNCHANGED <<didRegistry, revocationList>>
RevokeCredential(id) ==
    /\ revocationList' = revocationList \cup {id}
    /\ Logged("withdraw", id) /\ UNCHANGED <<didRegistry, issued>>
VerifyCredential(c) == c.issuer # "" /\ c.id \notin revocationList /\ c.proof

(* Dates in order; time 0 is no time *)
IsExpired(time, expiration) == time # 0 /\ time > expiration

Dids == {Did(key) : key \in DidKeys}
IdentityStep ==
    \/ \E key \in DidKeys : Entered(CreateDID(key)) \/ \E did \in Dids : Entered(AddPublicKey(did, key))
    \/ \E did \in Dids, signed \in BOOLEAN :
          \/ Entered(RevokeDID(did, signed))
          \/ \E other \in Dids : Entered(UpdateDIDDocument(did, NewDocument(other), signed))
          \/ \E issuer \in Issuers : Entered(IssueCredential(issuer, did, signed))
    \/ \E did \in Dids : Entered(AddService(did, "service")) \/ Entered(RevokeCredential(did))

-----------------------------------------------------------------------------
(* ShardCoordinator and its managers; a hash is a number, and an address is its hash *)
VARIABLES
    shards,             \* shards_: the manager in each slot, which may be one of another shard
    pendingCross,       \* pending_cross_shard_ of each manager
    taken               \* history: the transactions that were taken
shardVars == <<shards, pendingCross, taken>>

InitShards ==
    /\ shards = [i \in {} |-> 0] /\ taken = {}
    /\ pendingCross = [m \in Managers |-> [h \in {} |-> 0]]

GetShardForAddress(hash, total) == IF total \in {0, 1} THEN 0 ELSE hash % total
GetShardForTransaction(hash, total) == IF total \in {0, 1} THEN 0 ELSE hash % total
BelongsToShard(hash, shard, total) == GetShardForAddress(hash, total) = shard
OwnsAddress(m, hash) == BelongsToShard(hash, m.shard, m.total)
RouteTransaction(hash) == GetShardForTransaction(hash, Shards)

RegisterShard(i, m) ==
    /\ i < Shards
    /\ shards' = [j \in DOMAIN shards \cup {i} |-> IF j = i THEN m ELSE shards[j]]
    /\ UNCHANGED <<pendingCross, taken>>

ValidateCrossShardProof(m, tx) ==
    tx.proof /\ tx.source # tx.destination /\ tx.source < m.total /\ tx.destination < m.total
ProcessOK(m, tx) == tx.destination = m.shard /\ ValidateCrossShardProof(m, tx)

(* A transaction of the same hash is replaced; nothing takes one off again *)
ProcessCrossShardTx(m, tx) ==
    /\ ProcessOK(m, tx)
    /\ pendingCross' = [pendingCross EXCEPT
            ![m] = [h \in DOMAIN @ \cup {tx.tx_hash} |-> IF h = tx.tx_hash THEN tx ELSE @[h]]]
    /\ taken' = taken \cup {tx} /\ UNCHANGED shards

RouteCrossShardTx(tx) == tx.destination \in DOMAIN shards /\ ProcessCrossShardTx(shards[tx.destination], tx)

ShardStep ==
    \/ \E i \in 0 .. Shards, m \in Managers : Entered(RegisterShard(i, m))
    \/ \E tx \in CrossTxs : Entered(RouteCrossShardTx(tx))

InitLedgers == InitCoinStore /\ InitPayments /\ InitDelegation /\ InitIdentity /\ InitShards /\ entries = 0

-----------------------------------------------------------------------------
LedgersTypeOK ==
    /\ coinDb.count \in -1..MaxWrites + Cardinality(StoredCoin) /\ DOMAIN coinDb.coins \subseteq StoredCoin
    /\ balances \in [Party -> 0 .. LedgerWord - 1] /\ collectedFees \in 0 .. LedgerWord - 1
    /\ credited \in 0 .. MaxCredited
    /\ DOMAIN delegations \subseteq Party \X Party /\ purse \in 0 .. LedgerWord - 1
    /\ DOMAIN didRegistry \subseteq Dids /\ revocationList \subseteq Dids
    /\ DOMAIN shards \subseteq 0 .. Shards - 1 /\ taken \subseteq CrossTxs

(* What was saved is what is stored until a coin is added or removed, through crashes; and the count *)
(* is exact from a save on, unless a write was cut off, a coin added twice or a missing one removed    *)
CoinsAreCounted ==
    /\ ~coinHistory.since => coinDb.coins = coinHistory.saved
    /\ counting = <<>> /\ ~coinHistory.skewed => GetUTXOCount = Cardinality(DOMAIN coinDb.coins)

(* What was paid in is what the accounts hold and the fees that were collected, through transfers in *)
(* any order; with more than a word of money it is so but for the words that were dropped            *)
PaymentsConserve ==
    /\ (Sum(balances) + collectedFees) % LedgerWord = credited % LedgerWord
    /\ credited < LedgerWord => Sum(balances) + collectedFees = credited

(* An account has the votes it was lent and that were not taken back, of others only; and the purse   *)
(* holds what was paid in less what went out for a proposal                                         *)
LogTotal(deposits) == Sum([i \in DOMAIN purseLog |-> IF purseLog[i].is_deposit = deposits THEN purseLog[i].amount ELSE 0])
BooksAreExact ==
    /\ \A a \in Party : GetVotingPower(a) = lent[a] % LedgerWord /\ a \notin DOMAIN GetDelegationsFrom(a)
    /\ purse = (LogTotal(TRUE) - LogTotal(FALSE)) % LedgerWord
    /\ \A i \in DOMAIN purseLog : purseLog[i].is_deposit <=> purseLog[i].proposal_id = 0

(* A DID is found from its creation until it is revoked, with the keys and services that were added   *)
(* since it was last written; and a credential is good until one of its subject is revoked, for ever   *)
Calls(did, since) == {i \in since .. Len(identityLog) : identityLog[i][2] = did}
LastOf(did, kinds) ==
    LET S == {i \in Calls(did, 1) : identityLog[i][1] \in kinds} IN
    IF S = {} THEN 0 ELSE CHOOSE i \in S : \A j \in S : j <= i
Since(did, kind) ==
    Cardinality({i \in Calls(did, LastOf(did, {"create", "update"}) + 1) : identityLog[i][1] = kind})
IdentitiesAreKept ==
    /\ \A did \in Dids :
          /\ ResolveDID(did) # <<>> <=> LastOf(did, {"create"}) > LastOf(did, {"revoke"})
          /\ did \in DOMAIN didRegistry =>
                /\ Len(didRegistry[did].public_keys) = Since(did, "key")
                /\ Len(didRegistry[did].services) = Since(did, "service")
    /\ \A c \in issued : VerifyCredential(c) <=> c.proof /\ c.issuer # "" /\ LastOf(c.id, {"withdraw"}) = 0
    /\ \A t \in 0 .. 2 : IsExpired(t, 1) <=> t = 2

(* Each transaction that was taken is with a manager of the shard it is for, or another of its hash is, *)
(* it comes from another shard, and every address and transaction belongs to one shard of all            *)
ShardsAreSeparate ==
    /\ \A m \in Managers : \A h \in DOMAIN pendingCross[m] :
          LET tx == pendingCross[m][h] IN
          tx \in taken /\ tx.tx_hash = h /\ tx.destination = m.shard /\ tx.source # m.shard
    /\ \A tx \in taken : \E m \in Managers : m.shard = tx.destination /\ tx.tx_hash \in DOMAIN pendingCross[m]
    /\ \A h \in 0 .. 2 * Shards : RouteTransaction(h) < Shards /\ Cardinality({i \in 0 .. Shards - 1 : OwnsAddress([shard |-> i, total |-> Shards], h)}) = 1
=============================================================================
