------------------------------- MODULE World --------------------------------
(***************************************************************************)
(* WorldState: the accounts and the storage of the third layer, and the three *)
(* caches of their hashes, which every write has to keep honest: the storage   *)
(* root per account, the set of accounts whose storage root is out of date, the *)
(* state root and whether it is out of date.                                  *)
(*                                                                          *)
(* Before it MerklePatriciaTrie: a map from keys, sequences of nibbles of one   *)
(* length, to values.  SHA-256 is injective and EncodeNode takes in a node's      *)
(* type, path, value and the hashes of its children: the root hash is the trie.   *)
(* The world state builds its tries anew and deletes nothing from one.          *)
(***************************************************************************)
EXTENDS Integers, Sequences, SequencesExt, FiniteSets

CONSTANTS
    Address, StorageKey,    \* sequences of nibbles
    StorageValue, ZeroWord, \* words, zero among them
    TrieKeys, TrieValues,   \* of a trie that keys are taken out of as well: nibbles of one length
    MaxChanges,             \* bound on the keys put into it and taken out
    MaxWrites               \* bound on the calls that write

ASSUME WorldAssumption == ZeroWord \in StorageValue /\ {MaxWrites, MaxChanges} \subseteq Nat

VARIABLES
    accounts,       \* accounts_: address -> its nonce, balance and code
    storage,        \* storage_: <<address, key>> -> non-zero word
    storageRoots,   \* storage_roots_: address -> trie
    dirtyStorage,   \* dirty_storage_roots_
    stateRoot,      \* cached_state_root_, NoRoot when there is none
    rootDirty,      \* state_root_dirty_
    snapshot,       \* the last Snapshot a caller took
    writes,         \* calls made so far that write
    trie            \* a trie changed key by key: its root, what was put into it, and the changes
worldVars == <<accounts, storage, storageRoots, dirtyStorage, stateRoot, rootDirty, snapshot, writes, trie>>

-----------------------------------------------------------------------------
NoValue == "none"

EMPTY == [type |-> "EMPTY"]
LEAF(path, value) == [type |-> "LEAF", path |-> path, value |-> value]
EXTENSION(path, child) == [type |-> "EXTENSION", path |-> path, child |-> child]
BRANCH(value, children) == [type |-> "BRANCH", value |-> value, children |-> children]

(* What is left of a sequence after its first n elements *)
From(s, n) == SubSeq(s, n + 1, Len(s))

CommonPrefixLength(a, b) == Cardinality({n \in DOMAIN a : n <= Len(b) /\ SubSeq(a, 1, n) = SubSeq(b, 1, n)})

(* The old child keeps its type when a path is split, behind the nibble that leads to it *)
Shortened(node, n) == [node EXCEPT !.path = From(@, n)]

PutChild(children, nibble, child) ==
    [n \in DOMAIN children \cup {nibble} |-> IF n = nibble THEN child ELSE children[n]]

Extended(path, branch) == IF path = <<>> THEN branch ELSE EXTENSION(path, branch)

Split(node, common) == [n \in {node.path[common + 1]} |-> Shortened(node, common + 1)]

RECURSIVE InsertNode(_, _, _)
InsertNode(node, key, value) ==
    LET common == IF node.type \in {"LEAF", "EXTENSION"} THEN CommonPrefixLength(key, node.path) ELSE 0
    IN  CASE key = <<>> ->
               CASE node.type = "EMPTY"  -> LEAF(<<>>, value)
                 [] node.type = "BRANCH" -> [node EXCEPT !.value = value]
                 [] OTHER                -> BRANCH(value, [n \in {} |-> EMPTY])
          [] key # <<>> /\ node.type = "EMPTY" -> LEAF(key, value)
          [] key # <<>> /\ node.type = "BRANCH" ->
               LET child == IF key[1] \in DOMAIN node.children THEN node.children[key[1]] ELSE EMPTY
               IN  [node EXCEPT !.children = PutChild(@, key[1], InsertNode(child, Tail(key), value))]
          [] OTHER ->
               IF common < Len(node.path)
               THEN Extended(SubSeq(node.path, 1, common),
                             IF common = Len(key) THEN BRANCH(value, Split(node, common))
                             ELSE BRANCH(NoValue, PutChild(Split(node, common), key[common + 1],
                                                           LEAF(From(key, common + 1), value))))
               ELSE IF node.type = "EXTENSION"
               THEN [node EXCEPT !.child = InsertNode(@, From(key, common), value)]
               ELSE IF common = Len(key) THEN [node EXCEPT !.value = value]
               ELSE Extended(node.path, BRANCH(node.value, PutChild([n \in {} |-> EMPTY], key[common + 1],
                                                                    LEAF(From(key, common + 1), value))))

RECURSIVE Lookup(_, _)
Lookup(node, key) ==
    CASE key = <<>> /\ node.type \in {"LEAF", "BRANCH"} -> node.value
      [] key # <<>> /\ node.type = "LEAF" /\ node.path = key -> node.value
      [] key # <<>> /\ node.type = "EXTENSION" /\ IsPrefix(node.path, key) ->
           Lookup(node.child, From(key, Len(node.path)))
      [] key # <<>> /\ node.type = "BRANCH" /\ key[1] \in DOMAIN node.children ->
           Lookup(node.children[key[1]], Tail(key))
      [] OTHER -> NoValue

(* A branch that is left with one child becomes an extension over the children of that child: which   *)
(* is right if the child is an extension; a branch loses all but its first child, and an extension     *)
(* without children, made of a leaf, cannot be read                                                *)
UNREADABLE == [type |-> "UNREADABLE"]
Merged(nibble, child) ==
    CASE child.type = "EXTENSION" -> EXTENSION(<<nibble>> \o child.path, child.child)
      [] child.type = "BRANCH"    -> EXTENSION(<<nibble>>, IF 0 \in DOMAIN child.children THEN child.children[0] ELSE EMPTY)
      [] OTHER                    -> UNREADABLE
Collapsed(branch) ==
    LET remaining == {n \in DOMAIN branch.children : branch.children[n] # EMPTY} IN
    CASE branch.value = NoValue /\ remaining = {}    -> EMPTY
      [] branch.value = NoValue /\ \E n \in remaining : remaining = {n} ->
           LET n == CHOOSE x \in remaining : TRUE IN Merged(n, branch.children[n])
      [] OTHER -> branch

RECURSIVE RemoveNode(_, _)
RemoveNode(node, key) ==
    CASE node.type = "LEAF" /\ key \in {<<>>, node.path} -> EMPTY
      [] node.type = "BRANCH" /\ key = <<>> -> [node EXCEPT !.value = NoValue]
      [] node.type = "BRANCH" /\ key # <<>> ->
           Collapsed(IF key[1] \in DOMAIN node.children
                     THEN [node EXCEPT !.children[key[1]] = RemoveNode(@, Tail(key))] ELSE node)
      [] node.type = "EXTENSION" /\ key # <<>> /\ IsPrefix(node.path, key) ->
           LET child == RemoveNode(node.child, From(key, Len(node.path)))
           IN  IF child = EMPTY THEN EMPTY ELSE [node EXCEPT !.child = child]
      [] OTHER -> node

(* The keys that are told from key last *)
Nearest(keys, key) ==
    LET shared(k) == CommonPrefixLength(k, key)
    IN  {k \in keys \ {key} : \A l \in keys \ {key} : shared(l) <= shared(k)}

(* Two keys beside it are told from it last, and either part there or go on with a common nibble *)
KeepsOthers(keys, key) ==
    LET near == Nearest(keys, key) IN
    near # {} => \E k, l \in near : k # l /\ LET n == CommonPrefixLength(k, key) + 1 IN
                    k[n] # l[n] \/ \A m \in near : m[n + 1] = k[n + 1]

InitTrie == trie = [node |-> EMPTY, entries |-> [k \in {} |-> NoValue], kept |-> TRUE, changes |-> 0]

PutEntry(key, value) ==
    trie' = [trie EXCEPT !.node = InsertNode(@, key, value), !.changes = @ + 1,
             !.entries = [k \in DOMAIN trie.entries \cup {key} |-> IF k = key THEN value ELSE trie.entries[k]]]

DeleteEntry(key) ==
    trie' = [trie EXCEPT !.node = RemoveNode(@, key), !.changes = @ + 1,
             !.entries = [k \in DOMAIN trie.entries \ {key} |-> trie.entries[k]],
             !.kept = key \in DOMAIN trie.entries => KeepsOthers(DOMAIN trie.entries, key)]

(* What becomes of a trie that may have lost keys is not followed *)
TrieStep ==
    /\ trie.kept /\ trie.changes < MaxChanges
    /\ UNCHANGED <<accounts, storage, storageRoots, dirtyStorage, stateRoot, rootDirty, snapshot, writes>>
    /\ \E key \in TrieKeys : DeleteEntry(key) \/ \E value \in TrieValues : PutEntry(key, value)

(* Put for every entry of a map, in the order of the keys as std::map iterates *)
KeyBefore(a, b) == \E i \in DOMAIN a : a[i] < b[i] /\ \A j \in 1 .. i - 1 : a[j] = b[j]

TrieOf(entries) ==
    FoldLeft(LAMBDA node, key : InsertNode(node, key, entries[key]), EMPTY,
             SetToSortSeq(DOMAIN entries, KeyBefore))

-----------------------------------------------------------------------------
NoRoot == [type |-> "none"]
NoSnapshot == [taken |-> FALSE]
NewAccount == [nonce |-> 0, balance |-> 0, code |-> 0]
Restricted(f, S) == [x \in DOMAIN f \cap S |-> f[x]]
Updated(f, x, v) == [y \in DOMAIN f \cup {x} |-> IF y = x THEN v ELSE f[y]]

InitWorld ==
    /\ accounts = [a \in {} |-> NewAccount]
    /\ storage = [s \in {} |-> ZeroWord]
    /\ storageRoots = [a \in {} |-> EMPTY] /\ dirtyStorage = {}
    /\ stateRoot = NoRoot /\ rootDirty = TRUE
    /\ snapshot = NoSnapshot /\ writes = 0 /\ InitTrie

Write == writes < MaxWrites /\ writes' = writes + 1

MarkAccountDirty(a) == dirtyStorage' = dirtyStorage \cup {a} /\ rootDirty' = TRUE

-----------------------------------------------------------------------------
Existing(a) == IF a \in DOMAIN accounts THEN accounts[a] ELSE NewAccount

SetAccount(a, state) ==
    /\ Write
    /\ accounts' = Updated(accounts, a, state)
    /\ MarkAccountDirty(a)
    /\ UNCHANGED <<storage, storageRoots, stateRoot, snapshot>>

SetCode(a, code) ==
    /\ Write
    /\ accounts' = Updated(accounts, a, [Existing(a) EXCEPT !.code = code])
    /\ MarkAccountDirty(a)
    /\ UNCHANGED <<storage, storageRoots, stateRoot, snapshot>>

(* The storage root stays: the balance and the nonce are only part of the state root *)
SetBalance(a, balance) ==
    /\ Write
    /\ accounts' = Updated(accounts, a, [Existing(a) EXCEPT !.balance = balance])
    /\ rootDirty' = TRUE
    /\ UNCHANGED <<storage, storageRoots, dirtyStorage, stateRoot, snapshot>>

SetNonce(a, nonce) ==
    /\ Write
    /\ accounts' = Updated(accounts, a, [Existing(a) EXCEPT !.nonce = nonce])
    /\ rootDirty' = TRUE
    /\ UNCHANGED <<storage, storageRoots, dirtyStorage, stateRoot, snapshot>>

GetStorage(a, key) == IF <<a, key>> \in DOMAIN storage THEN storage[<<a, key>>] ELSE ZeroWord

(* The account need not exist *)
SetStorage(a, key, value) ==
    /\ Write
    /\ storage' = IF value = ZeroWord THEN Restricted(storage, DOMAIN storage \ {<<a, key>>})
                  ELSE Updated(storage, <<a, key>>, value)
    /\ MarkAccountDirty(a)
    /\ UNCHANGED <<accounts, storageRoots, stateRoot, snapshot>>

Forgotten(a) == Restricted(storageRoots, DOMAIN storageRoots \ {a})

DeleteAccount(a) ==
    /\ Write
    /\ accounts' = Restricted(accounts, DOMAIN accounts \ {a})
    /\ storage' = Restricted(storage, {s \in DOMAIN storage : s[1] # a})
    /\ storageRoots' = Forgotten(a)
    /\ dirtyStorage' = dirtyStorage \ {a}
    /\ rootDirty' = TRUE
    /\ UNCHANGED <<stateRoot, snapshot>>

-----------------------------------------------------------------------------
StorageOf(a) == [key \in {s[2] : s \in {t \in DOMAIN storage : t[1] = a}} |-> storage[<<a, key>>]]

CalculateStorageRoot(a) ==
    IF a \in DOMAIN storageRoots \ dirtyStorage THEN storageRoots[a] ELSE TrieOf(StorageOf(a))

AccountTrie(RootOf(_)) ==
    TrieOf([a \in DOMAIN accounts |-> [account |-> accounts[a], storage |-> RootOf(a)]])

(* The cached root is returned while nothing was written; the storage roots of all accounts *)
(* are cached on the way                                                                     *)
CalculateStateRoot ==
    /\ rootDirty \/ stateRoot = NoRoot
    /\ stateRoot' = AccountTrie(CalculateStorageRoot)
    /\ storageRoots' = [a \in DOMAIN storageRoots \cup DOMAIN accounts |->
                          IF a \in DOMAIN accounts THEN CalculateStorageRoot(a) ELSE storageRoots[a]]
    /\ dirtyStorage' = dirtyStorage \ DOMAIN accounts
    /\ rootDirty' = FALSE
    /\ UNCHANGED <<accounts, storage, snapshot, writes>>

CreateSnapshot ==
    /\ Write
    /\ snapshot' = [taken |-> TRUE, accounts |-> accounts, storage |-> storage,
                    storageRoots |-> storageRoots, dirtyStorage |-> dirtyStorage,
                    stateRoot |-> stateRoot, rootDirty |-> rootDirty]
    /\ UNCHANGED <<accounts, storage, storageRoots, dirtyStorage, stateRoot, rootDirty>>

(* Mutant: the caches keep what was calculated after the snapshot *)
RestoreSnapshot_RootsKept ==
    /\ Write /\ snapshot.taken
    /\ accounts' = snapshot.accounts /\ storage' = snapshot.storage
    /\ dirtyStorage' = snapshot.dirtyStorage /\ rootDirty' = snapshot.rootDirty
    /\ UNCHANGED <<storageRoots, stateRoot, snapshot>>

RestoreSnapshot ==
    /\ Write /\ snapshot.taken
    /\ accounts' = snapshot.accounts
    /\ storage' = snapshot.storage
    /\ storageRoots' = snapshot.storageRoots
    /\ dirtyStorage' = snapshot.dirtyStorage
    /\ stateRoot' = snapshot.stateRoot
    /\ rootDirty' = snapshot.rootDirty
    /\ UNCHANGED snapshot

WorldStep ==
    /\ UNCHANGED trie
    /\ \/ \E a \in Address :
             \/ SetAccount(a, NewAccount) \/ SetCode(a, 1) \/ SetBalance(a, 1) \/ SetNonce(a, 1)
             \/ DeleteAccount(a)
             \/ \E k \in StorageKey : \E v \in StorageValue : SetStorage(a, k, v)
       \/ CalculateStateRoot
       \/ CreateSnapshot \/ RestoreSnapshot

-----------------------------------------------------------------------------
WorldTypeOK ==
    /\ DOMAIN accounts \cup DOMAIN storageRoots \cup dirtyStorage \subseteq Address
    /\ \A s \in DOMAIN storage : s[1] \in Address /\ storage[s] # ZeroWord
    /\ writes \in 0 .. MaxWrites

(* Whatever was put and taken out, in any order, the trie finds the last value of the keys that are in it, *)
(* and no other; until Delete takes out a key beside which its branch kept one branch or one leaf, when     *)
(* other keys may be lost with it.                                                                          *)
TrieIsAMap ==
    trie.kept => \A key \in TrieKeys :
       Lookup(trie.node, key) = IF key \in DOMAIN trie.entries THEN trie.entries[key] ELSE NoValue

(* A root that is handed out is the root of what is stored now: neither the cached state root *)
(* nor a cached storage root survives a write, a deletion or a return to a snapshot that       *)
(* makes it wrong.  And the root commits to every account: looking an address up in the trie    *)
(* behind it gives that account with its storage, and none where there is none.                *)
RootReflectsState ==
    LET current == AccountTrie(LAMBDA a : TrieOf(StorageOf(a))) IN
    /\ ~rootDirty /\ stateRoot # NoRoot => stateRoot = current
    /\ \A a \in DOMAIN storageRoots \ dirtyStorage : storageRoots[a] = TrieOf(StorageOf(a))
    /\ \A a \in Address :
          IF a \in DOMAIN accounts
          THEN /\ Lookup(current, a).account = accounts[a]
               /\ \A k \in DOMAIN StorageOf(a) :
                     Lookup(Lookup(current, a).storage, k) = storage[<<a, k>>]
          ELSE Lookup(current, a) = NoValue
=============================================================================
