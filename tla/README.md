# PantheonChain in TLA+

Specifications, model-checking runs and machine-checked proofs of
PantheonChain: the L1 chain and its storage, the node that drives them, the
bridges between the layers, governance, the services around the chain, the
second and third layer, and what stands around a node. Paths are relative to
the repository's root; "L1 core" means `src/layer1-talanton/core`.

To check a run: `tlc -config MCNode.cfg MCNode`. To check the proofs:
`tlapm NodeProofs.tla`. `PROJECT.json` maps every definition to the lines it
models and lists runs, mutants, findings, hazards and theorems.

## 1. The system

| Part | State it keeps | Operations | What makes it correct |
|---|---|---|---|
| `primitives`, `consensus/issuance` | none | structural validity, rewards, scheduled supply, encodings | rewards add up to the schedule, amounts do not wrap, bytes read back as written |
| `consensus/difficulty`, `mining` | target, template, one shared flag | retarget, check a hash, build a template, try nonces | the target follows time, nothing above the schedule is mined |
| `chainstate/chain` (Chain) | UTXO set, height, tip, block index, supply per asset | ConnectBlock, DisconnectBlock, Reset, snapshots | no coin spent twice, supply within schedule and cap, disconnect undoes connect |
| `chainstate/chainstate` (ChainState) | height, tip, supply | ValidateBlock, ApplyBlock | agrees with Chain |
| `validation` | none | structure, coins, signatures, coinbase | what passes spends existing, mature coins worth what it pays |
| `storage` (BlockStorage, UTXOStorage) | blocks by height, heights by hash, tip; outputs and their number | StoreBlock, UpdateChainTip, SaveUTXOSet, add, remove | replayable after a crash at any write, counts exact |
| `node` | the objects above, peers, sync target, callbacks | Start, Stop, ProcessBlock, SubmitTransaction, SyncLoop, mining | what was acknowledged is stored; a restart rebuilds the same chain |
| `mempool` | transactions, spent outpoints, priority set, relations, total size | add, remove, conflicts, evict, replace | the five tables describe one set without conflicts, and entry is paid for |
| `p2p` | connections, send queues, peer database, certificates | accept, dial, send, ban, rotate | each connection has one owner, bytes keep their order, bans hold |
| `bridge/l1_l2`, `bridge/l2_l3` | processed nonces, locked and minted totals | record lock, mint, record burn, unlock | nothing paid twice, totals accounted for, nothing stuck |
| `layer1-talanton/governance` | proposals, votes, treasury, councils, vesting, parameters | propose, vote, tally, execute, veto, spend, ban | what takes effect was decided, money is paid out once |
| `layer2-drachma` rollups, plasma, channels, HTLC | batches, exits, channel states | submit, challenge, finalise | nothing final changes, nothing is paid out twice |
| `layer2-drachma/dex` | orders, pools | place, match, cancel, swap | price and time priority, value conserved |
| `layer3-obolos` EVM | accounts, storage, tries, one run of code | execute, snapshot, return | words are right, roots are those of the state |
| `layer1-talanton/wallet`, `rpc`, `settlement` | coin table, sessions, limiter, scripts | spend, rescan, requests, escrow, multisig | wallet coins are chain coins, requests get the rights they need |
| `tools/mobile_sdks`, `clients/core-daemon`, `enterprise` | subscriptions, stored keys, configuration, members | poll, call, store, start, decide | told each thing once, one wallet for ever, expelled stay out |

How they interact. `Node` owns a `Chain` and a `ChainState`, which track one
chain twice, a `Mempool` and the two stores. Blocks reach
`Node::ValidateAndApplyBlock` from one thread per connection
(`network_manager.cpp:550`) and from the mining threads (`node.cpp:698`),
transactions reach `SubmitTransaction` from connections and RPC. There is no
lock around either. After a block is connected the node writes to disk in three
batches. The wallet is called back under `wallet_mutex_`. The daemon starts
node, wallet and RPC server in order; the mobile library talks to the server
over requests that may fail. The bridge functions work on a `BridgeState`
passed by the caller; governance, the L2 contracts, the DEX, the enterprise
mode and the settlement scripts are libraries of the same kind, driven by one
caller and sharing no state with the node.

The behaviours that are hard: a crash between any two writes; a block that
fails half way; threads in `ValidateAndApplyBlock` at once; the two trackers
after a restart; messages delivered twice or out of order; connections
overtaken by bans, dials and stops; tables that must move together; time
windows of votes, exits, challenges and channels; lost replies; words that wrap.
`PROJECT.json` lists them under `hazards`, each at its line, with the
properties that cover it.

## 2. The modules

```
Primitives                  transactions, blocks, issuance
   |
UtxoChain                   Chain and ChainState as operators
   |     \
Chain     Node              its stores, start, stop, crash, blocks in threads, mempool
   |        |
MCChain   MCNode

Escrow <- Bridge            refinement; MCBridge

Boule, Treasury -> Voting, Emergency                          -> MCGovernance

Mempool, Peers, PeerStore, Wallet, Wire (implements Channel),
Rollups, Channels, Dex, World -> Vm                           -> MCServices

Rpc -> Mobile, Daemon, Firmware, Codec, Settlement, Texts,
Certificates, Consortium, Miner, Ledgers, Validation,
Anchoring                                                     -> MCEdge

Sums                        totals over a set, with their lemmas
   |
ChainProofs (Chain)    NodeProofs (Node)    GovernanceProofs (Voting, Emergency)
LayersProofs (Bridge, Anchoring, Rpc)
ServicesProofs (Wire, PeerStore, Peers, Mempool, Channels, Rollups)
```

### The chain, the node and the bridges

**Primitives, UtxoChain.** Hashes are taken as collision free, so a
transaction or a block is its own hash and constant functions give its
contents: `Tx` and `Block` are all those that may ever appear. `BlockSealed`
stands for the Merkle root and the proof of work. Signatures are taken as given
(see *Validation* for what they are worth). Amounts are added modulo `U64`
wherever the code adds `uint64_t`, and one transaction of the chain's universe
has outputs whose sum wraps. A method that
returns a bool and changes its object is an operator returning `[ok, chain]`;
on failure `chain` is what the code leaves behind, which for `ConnectBlock` and
`DisconnectBlock` may be half-changed. The values the schedule depends on are
constants.

**Chain.** One object and its caller. `stack` is what the caller must keep to
disconnect: blocks with undo data. It offers only children of the tip, as the
node does after `ChainState::ValidateBlock`; blocks that fail are offered too.
`taint` is a history variable: it records a half-failed block (`residue`) and a
replaced coin (`overwrite`), the two things after which the UTXO set is no
longer a function of the blocks, and a connected transaction with outputs whose
64-bit sum wraps (`wrap`), after which coins may be worth more than was issued:
the code limits each output to the cap of its asset, not their sum.

**Node.** The batches of its two LevelDB stores are operators at the head of
the module. `disk` survives a crash, everything else does not.
`OpenStores`, `GenesisTip`, `ReplayBlock` and `Started` are `Node::Start` cut
where it writes or may fail; `Receive`, `Connect`, `Apply`, `Store`, `Tip`,
`SaveUtxo` and `Finish` are the seven stretches of `ValidateAndApplyBlock`,
each with one write to shared state, so that threads and crashes may come
between any two. The tests before `ConnectBlock` are one step (`Receive`); they
only read. LevelDB applies a batch whole and a process that dies loses none it
wrote; power failure is outside the model, and so are failing writes.
`SubmitTransaction` is one step: `Mempool::AddTransaction` validates again what
the node validated just before. `acked` and `taint` are history variables:
`taint` also records that two threads were in `ValidateAndApplyBlock` at once
(`race`). Residue goes when a start rebuilds the chain, a race may have damaged
the disk and stays.

**Bridge, Escrow.** `bridge` is the `BridgeState` the four entry points share,
as in the integration tests. The environment is written from the headers:
users lock, or burn wrapped tokens they own; blocks make transfers deep enough;
validators sign, one of them with a key that is trusted no more; relayers
deliver the message of a recorded transfer at any moment, any number of times.
`VerifyValidatorQuorum` counts entries of the list of signatures, so the list
is a sequence and one signer may fill a quorum by occurring twice. What is paid
is the amount in the payload; only its hash is signed and no entry point
compares the two, so the amount of a message is an input (`Amounts`: that of the
transfer, or one of `Payload`), with the branches for zero and for more than is
left. `moved` and `paid` are history variables: by how much the messages of a
transfer moved a total. Some transfer has `Strayed` when it moved another
amount than its own. `Escrow` is the promise seen
from outside: a transfer is sent once, arrives at most once, and what is held
and issued follows. `ImplementsEscrow` states that `Bridge` refines it up to the
first transfer that strays, with the recorded transfers as sent and the paid
ones as arrived.
`l2_l3_bridge.cpp` is the same code with other identifiers, which are constants.

### Governance

**Voting** is `voting.cpp` with the snapshot of holders (`snapshot.cpp`,
`balance_voting.cpp`), the anti-whale cap, vetoes, the pause and
the parameters (`params.cpp`). What an executed proposal spends leaves the
accounts of **Treasury**, which also has periods and caps,
emergency spending with its reserve, grants with milestones, vesting schedules
(`vesting.cpp`) and the fee router. **Boule** has registration, sortition,
reviews and the challenge; a proposal waits for its approval, or for somebody
to call `MarkBouleApproved`, which asks nobody (`marked` records the call).
Milestones of a grant are added as words (`FundWord`), as `CreateGrant` adds
them; what a period and a log add up to is taken to fit one (deposits are limited
by `MaxFunds`, which is below the word). **Emergency**
holds the guardians' actions and ostracism. A draw by SHA-256 is a
nondeterministic choice. `executions`, `everKeeper` and `outside` are history
variables.

### Services

**Mempool.** `pool` is the record of the five tables; each public method is an
action that moves all it moves, in the order of the code. **Peers** cuts the
accept thread, the dial, the threads of connections, bans and `Stop` at their
locks, and has the part of the node that follows: target, sync loop, inventories.
**PeerStore** is the database with its file, bans, scores and decay; its calls do
not ask whether it is open, and `UpdatePeer` may write any entry its caller once
read. **Wire** is one direction of a connection, byte by byte: the part a send did
not take, the drain, the reader; it implements **Channel**, a first-in first-out
channel of whole messages. **Wallet** sits beside a chain and is rescanned; the
blocks that were connected wait in `pending` and reach it in any order, as threads
take `wallet_mutex_` after `ValidateAndApplyBlock` returned, and two coinbases of
the chain may have one identifier.

**Rollups** is the optimistic rollup with its fraud proofs, the zk rollup with
nullifiers and exits, and plasma; **Channels** the payment channel, a route of
hashed time locks, the account balances and the wrapped balances. Circuits,
proofs and signatures are what `layer2-drachma` uses of them: a Boolean of the
content. **Dex** has the book and the pool with its shares and rounding. **World** and
**Vm** build the third layer from below: the trie with its three kinds of
nodes, path-compressed insertion and deletion; accounts with snapshots and the
three caches; arithmetic on bytes with carries, as the code has it, on words of
two small digits; and the loop over opcodes with gas, stack, memory and
storage. Shift amounts and offsets are cut to the width of `ToUint64` and the
end of a memory access wraps, as in the code; an access that passes the check
and lies outside the memory is `UNDEFINED`, which ends the run. There is no
jump, so a program is a choice of the next opcode.

### What stands around a node

**Rpc** has the limiter, a worker per request, and what each method needs, reads
and changes in how many steps. A block that arrives meanwhile takes the steps of
`ProcessBlock`: coins, store, pool, wallet. **Mobile** is the client of that server:
subscriptions that poll, calls by kind whose reply may be lost (calls and
estimates of the machine always fail: the library sends an array where the
server reads an object), and the two files of its secure store. **Daemon** is
`main.cpp` step by step, with signals and crashes between any two. **Miner**
has the threads under one shared flag and one unlocked validation, on targets
that are compact numbers of five digits; **Validation** has the two validators,
the text that is signed and the two signers. **Ledgers** holds the tables that
keep to themselves: `UTXOStorage` beyond what the node calls, with failing
writes; payments of the second layer in words that wrap; delegation and the
purse of `voting.cpp`; identities and their credentials; and the shards with
transactions between them. **Codec** has the sizes, limits and loops of
`message.cpp`, `transaction.cpp`, `block.cpp` and the batches over cells
instead of bytes, and what becomes of a text that was cut or changed; **Texts**
conversions and denominations, mnemonics, payment addresses, credentials,
numbers and keys that are written out as text; **Settlement** escrows,
policies, tags and memos. **Certificates** cuts generation, checking and
loading where each touches a file. **Firmware** has a `FirmwareVerifier` whose
owner loads keys, revocations and the database and asks it the three questions
of an update; the update manager, whose own verifier nothing can load and which
therefore installs nothing (`managed` stays empty); and the device session with
its paths, the empty one included; **Consortium** permissions, decisions,
screening and service levels. **Anchoring** has the commitments by which one
layer anchors in another, as they are built, signed, relayed and validated,
with the stake table, the finality rule and the proposers' turns. The text a
relayer is given is an input: built from votes and perhaps cut, or written by
hand with any names and stakes (`Handwritten`), for a relayer only asks that a
signature is not empty and adds the stakes the text states. `invented` records
the stake no vote stands for.

### One focus per behaviour

The parts in `MCGovernance`, `MCServices` and `MCEdge` share no state but where
the list below says so, and a product of their states would only multiply
interleavings that cannot meet. So a variable `focus`, chosen in `Init`, names
the part a behaviour exercises; the other parts stay as they began. Composed
are: `Voting` with `Boule` and `Treasury` (focus *voting*: a screened proposal is
voted on, executed and spends; focus *screening*: reviews and challenges beside
a voter), `Vm` with `World` (focus *vm*) and `Mobile` with the chain side of
`Rpc` (foci *client* and *call*).

## 3. The runs

| Run | Configuration | Result |
|---|---|---|
| `governance` | 3 voters, 3 citizens, council of 2, 1 proposal of 4 kinds, windows of one block, 2 signatures of 3 members | holds, about 680,000 states |
| `chain` | 17 blocks in a tree, 20 transactions, one with outputs that wrap, two assets, halving every 2 blocks, maturity 1, height at most 5 | holds, about 197,000 states |
| `node` | 9 blocks, 14 transactions, one thread, height at most 4 | holds, about 100,000 states |
| `node_link` | the same | `StoredChainIsLinked` violated |
| `node_restart` | the same | `StartSucceeds` violated after a residue |
| `node_genesis` | the genesis block claims an asset that is not launched | `StartSucceeds` violated at the first start |
| `node_race` | two threads | `StartSucceeds` violated after a race |
| `bridge` | 4 locks and 2 burns of two users, a trusted and a former validator, quorum 2 of lists up to 2, depth 1, payloads of 0, 3 or the transfer's amount, totals below 8 | holds, about 23,000 states |
| `bridge_nonce` | two users who both count from 1 | `EveryTransferArrives` violated |
| `services` | 16 foci, see below | holds, about 900,000 states |
| `edge` | 29 foci, see below | holds, about 660,000 states |
| `edge_signatures` | the same | `WalletPaymentsVerify` violated |

`TypeOK` of each run is the conjunction of the types of its parts; in `services`
and `edge`, where the other parts stand still, that of the part in focus. What the
other properties say:

*chain.* `SupplyIsExact`: the accounted supply is what the coinbases of the
active blocks claimed, within schedule and cap, and coins never hold more than
was issued, unless a block failed half way or one with outputs that wrap was
connected. `UndoIsExactWithoutOverwrite`:
after any history the whole object equals the one a fresh object reaches from
the active blocks. `IndexFollowsStack`: index entries come and go with their
blocks and count the work below them. `SpendsAreSound`: over the transactions
of the active chain no coin is spent twice, before it exists or matures; a
coin that a coinbase with the same txid created again counts from then on.

*node.* `StorageContiguous`, `AcknowledgedSurvives`, `StoredChainGrows`: what is
on disk is always a replayable prefix plus at most one block, keeps every
acknowledged block and only grows. `RestartIsFaithful`: between blocks the object
in memory is the one the next start would build, no crash alone makes a start fail
(but for a genesis block that does not connect, which refuses the first start and
every later one), and after a stop the UTXO store holds the outputs of the stored
chain.

*bridge.* `PaidOnce`; `Conservation`: whatever payloads carry, locked plus what
the messages moved is minted plus what the recorded transfers asked for, minted is what
users own, and until a transfer strays locked is minted plus what is under way;
`ImplementsEscrow` and, under fairness, `EveryTransferArrives`, both up to the
first transfer that strays.

*governance.* `VotesCountedOnce`: tallies are the votes on record, one per
voter, by those who held a token when the proposal was made, however balances
move. `EffectIsDecided`: what passed had its quorum, majority and no veto over
those votes when the window was over; nothing is executed before the delay;
parameters keep their limits. `ScreenedBeforeVotes`: no vote without two
thirds of a council or a call of `MarkBouleApproved`. `FundsConserved`: of each
fee all is given away, and, up to a grant whose milestones overflow a word, what
came in is in a track, reserved, or was paid out once, and the log explains each
balance. `PaymentsAreDue`: caps hold also in overlapping periods for the one in
force, claims follow the vesting curve. `QuorumsDecide`: a pause and a ban have
enough signatures or voters of those entitled at that time, also the second
time.

*services.* `PoolIsSound`: the five tables agree after every operation, and who
enters drives out others only by paying for all of them or by rank.
`ConnectionsAreServed`: whoever overtakes whom, every open connection has one
owner that will close it, none is left after a stop, and a node that says it is
syncing has its loop running. `BansHold`: through scores, decay, reports, Close
and Open, counted from the last ban, and without the bans Open loses: those since
the last Close of peers that are in the file. `WalletMatchesChain`: a wallet told
of every block, in whatever order, or rescanned when empty and told of the rest,
lists exactly the coins that pay it, but for a block that overtakes one it spends
from and a coinbase the chain has twice. `ImplementsChannel`: partial sends and
reads keep messages whole and in order. `FinalStands`: final batches are never
replaced or rolled back, batches hash into one another, an invalid signed batch is
open to the proof exactly if it has transactions (an empty one is never
challenged), an exit is paid once per request and never before its time.
`ClaimsSettle`: the newest state both signed wins, an intermediary has time
between two expiries, sums follow deposits modulo the word. `DexIsFair`: price and
time priority, both sides lose what trades move, a swap never lowers the product
of the reserves unless it wraps the one it adds to. `MachineIsExact`: opcodes
compute what they are named for where they do (ADD, SUB, comparisons, ...), cached
roots are those of the state, a snapshot restores it; a trie answers what was
written whatever the order of insertions, and a key that was deleted is gone.

*edge.* `RequestsAreSound` (limits, rights; a refused request leaves no effect,
but for the fresh change address of a refused payment), `ClientsAreToldTheTruth`
(each transaction once and in order within the remembered window, results of the
height they were asked at, one payment per call), `HostIsSafe` (daemon: no
requests served without credentials or consent, one seed for ever; stored values
read back; mining within the schedule; coins counted; validation),
`FormatsAreExact` (bytes, amounts, targets, texts), `SettlesAsAgreed`,
`FirmwareIsTrusted`, `TrustIsKept` (certificates settle on one pair; expelled
members stay out; decisions have their majority; breaches are real; two anchors of
one height that differ cost a third of the stake their signatures on both, less
what their texts state without a vote). The comment at each property names its
exceptions; each of them is a behaviour of the code listed in section 6.

What the violated runs show is told under `findings`, with the text the code
contradicts. In short: the genesis block of `consensus/genesis.cpp` is refused
by `ConnectBlock`, so a node cannot start; a started node builds on the zero
hash because `ChainState` is not rebuilt; a half-failed block poisons the
memory and a later acknowledged block makes the next start fail; so do two
threads; a bridge nonce of one sender locks the transfer of another; and a
payment is signed over another text than the one that is verified, so the node
refuses every payment of its own wallet.

Since a node with the real genesis block does not start, the other node runs
use a genesis block that pays out launched assets only (`launched` in
`MCNode`). The universe also contains a child of the genesis block, which the
node refuses, and blocks on the zero hash, which it accepts.

### Bounds

A constant whose name begins with `Max` and is not a limit of the code bounds
behaviours: the guards name it, and its comment says so. They are chosen so
that the tests of the code both pass and fail within them.

* Chain and node: `MaxHeight` 4 (5 for the chain alone) is enough for genesis, a
  split, a spend and a spend of the spend, two halvings, the launch of the second
  asset, a duplicate coinbase, its disconnect and a block on top. The blocks
  contain for every test of `ConnectBlock` one that fails it.
* Bridge: no bound; there are finitely many transfers and each is recorded
  once, which is also why the bridge runs do not check deadlock. One lock would
  take the locked total past the type, one has the amount 0. `MaxListLength` 2 is
  the quorum; `Payload` has nothing and an amount above and below others.
* Governance: four blocks cover delay, window, delay and execution; two
  budget periods overlap; one grant has a schedule, another milestones that add
  up past the word.
* Services: six transactions with a pair, its two replacements, a child and
  one that fills the pool; two peers for one place; words of 4, 8 or 16 values
  where wrapping matters; three words on the stack; four writes between
  snapshots; two accounts of the zk rollup, whose trees of any size `RollupsFinalStands`
  has; scores from 0 to 2, a new peer's between the limit of the good ones and the
  highest. Words are two bytes of two bits, sixteen values that stand for 2^256: any
  pair of them may meet on the stack. One peer in the database, which may be found,
  banned, overwritten and stored in any order; what its entry says of another peer
  no operation reads.
* Edge: windows of two ticks with bursts in one; a server clock of three, so
  that a second window begins; three blocks for a client that scans two and
  remembers two; four values stored by two threads; one damage to any text and a
  second to those of at most nine cells (`MaxTwiceDamaged`), and lists on both
  sides of each limit and of the step between two forms of sizes. The first
  request may be any; those that meet it change the pool, the blocks or the
  commitments (`laterRequests`). One decision with its votes, two certificates,
  three figures of the service and two signatures under an anchor are enough for a change
  during each.

`CHECK_DEADLOCK FALSE` stands where all bounds are reached or a process has
stopped. Symmetry is used where elements enter no ordering and no property
tells them apart: voters and citizens in `governance`, the two peers of the connections in
`services`, and in `edge` the two workers, storing, checking and mining threads
and relayers, which change places together, since a behaviour has one kind. These
runs have no liveness property.

### Fairness

Only the bridge has a liveness property. `WF(Tick)`: blocks keep coming.
`WF(Sign)` for trusted validators: they sign what they see recorded. `WF(Deliver)`
with the transfer's own amount: a relayer goes on delivering it, and what the code
accepts continuously is executed. Nothing is assumed of users. What should happen
in the end elsewhere is stated as a state property at rest: `ConnectionsAreServed`
(every connection has someone who will close it), `RotationSettles` (when all is
quiet, the pair in use is the one on disk), `DexIsFair` (nothing that could trade
is left).

## 4. The proofs

A theorem holds for every universe of transactions and blocks, every issuance
schedule, any threads, users, validators, peers, stakes and bounds, under the
assumptions named where the constants are declared: `PrimitivesAssumption`,
`ChainAssumption`, `NodeAssumption`, `BridgeAssumption`, `AnchoringAssumption`,
`BouleAssumption`, `TreasuryAssumption`, `PlansAssumption`, `SharesAssumption`,
`VotingAssumption`, `EmergencyAssumption`, `PeerStoreAssumption`,
`PeersAssumption`, `ChannelAssumption`, `RollupAssumption`. They say that
contents have their types, that lists are finite, that there is a longest
period, that identifiers of the two chains differ; one of them is a number:
three times the stake of all validators stays below the word
(`AnchoringAssumption`), because the code multiplies before it compares. TLC
evaluates each on the instances of the runs. No theorem has a hypothesis of its
own: that the genesis block connects, which the one of the repository does not
(see `node_genesis`), and that the outputs of a transaction add up within 64 bits,
which the code does not check, are cases in the properties and not assumptions.

**Sums.** Totals over a finite set of accounts, coins or signers occur in almost
every invariant. `Sum(f)` is defined as the number of the units `<<x, k>>` with
`k` from 1 to `f[x]`, and not by a fold, so that the theorems on finite sets
give what proofs need: a sum changes at one element by the difference
(`SumChange`), is monotone, and two parts of the amounts have in common at
least what their totals exceed the whole by (`SumsOverlap`). Induction over numbers,
where something recursive must exist, is a least-number argument on a set of
numbers (`CountUp`).

**ChainProofs.** `ChainInv` says of the chain in use and of the saved one: fields
have their types (`IsChain`); the stack is a path of different valid blocks from
a genesis block (`Linked`); height, tip, index and work are
functions of it (`Follows`); supplies are what its coinbases claimed, within the
schedule (`Backed`); and, unless a block failed half way or a coin was
overwritten, the object is the one a fresh object reaches by connecting the
blocks in order (`Replayed`). The last part carries the weight. That
`DisconnectBlock` undoes `ConnectBlock` is proved from the inside: one
transaction's outputs removed and inputs restored give back the coins
(`DisconnectUndoesTx`), the loop over a block's transactions runs backwards
through the states the forward loop went through (`LoopFresh`, `LoopUndone`),
and supplies and index entries follow (`DisconnectUndoesBlock`). Hence
`ChainUndoIsExact`. For `ChainSpendsAreSound` the set of coins is described by the
chain (`Described`): every coin is an output of a transaction of the stack that
nothing after it consumed, with that height and kind, so that an input
found among the coins is there, mature and unspent (`SoundAt`); the description
is carried from transaction to transaction along the states below the tip
(`TxDescribed`, `LoopDescribed`, `BelowSteps`). `ChainIndexFollows`,
`ChainTypeCorrect`, `ChainSupplyWithinSchedule` come from the first parts. What
`SupplyIsExact` says beyond it, that coins never hold more than was issued, has an
invariant of its own, `SupplyInv`. An outpoint has one output, so a set of
outpoints says what its coins are worth (`Worth`), and a transaction that is
connected never makes it more (`ConnectTxConserves`). The invariant gives every
block of the stack a set of outpoints that covers the coins on top of it
(`Levels`), worth no more than was issued up to it (`Issued`); taking the block
back from any coins within its set leads within the set below (`Returns`). So a
coin that was overwritten, and is missing when blocks are taken back, does no harm, and
`DisconnectBlock` never fails on the tip. It holds until a block fails half way or
one connects with a transaction whose outputs do not add up within 64 bits per asset
(`AmountsFit`): `ConnectBlock` adds with `+=` on `uint64_t` and limits each output
to the cap of its asset but not their number. The taint `wrap` marks such a block,
and TLC finds that without this exception `SupplyIsExact` fails in the universe of
`MCChain`. The blocks of the stack all fit while it is not there (`AllFit`).
Undoing and spending do not depend on it.

**NodeProofs.** `IInv` relates disk, memory, phase and threads: with no race
there is one writer (`OneWriter`); between `Connect` and `Tip` the chain in
memory is one block ahead of the disk and otherwise level with it
(`ChainMatchesDisk`); from `Store` on, the block of a thread is on disk at the
height the thread remembers (`JobMatchesDisk`); a starting node has its genesis
block on disk and replays no further than the stored height
(`PhaseMatchesDisk`); heights are positive where blocks are stored
(`HeightsPositive`). `StorageContiguous`, `AcknowledgedSurvives` and
`StoredChainGrows` follow. `RInv` adds contents to heights: the object in memory
is the one a replay of the disk builds up to the place the thread or the start
has reached (`MemoryIsRebuilt`), and where the genesis block does not connect to
an empty chain no node ever comes up, so nothing is stored above it
(`NeverStarts`). A crash leaves the disk, a replay step repeats
what was computed once; so `NodeRestartIsFaithful` holds wherever the threads
and the crashes fall.

**LayersProofs.** For the bridge: a paid transfer was recorded and its message
key is among the processed ones, and two paid transfers with one key are one
(`BridgePaysOnce`). The locked total is the sum of the recorded locks less what
the messages of burns moved, the minted one what the messages of locks moved less
the recorded burns (`Balanced`), whatever the payloads carried, which gives
`BridgeConserves`; and until a transfer strays every step of `Bridge` is one of
`Escrow` or a stutter (`BridgeImplementsEscrow`), the recorded transfers being the
sent ones and the paid ones those that arrived. For the anchors: behind what was
relayed stand voters with two thirds of the stake that was active then, counted
by the table of genesis, less the stake its text states without a vote
(`AnchoringInv`, `Invented`); so two different blocks of one height have signers in
common whose stake is what the two quorums exceed the total by, less what the two
texts invent (`AnchoringAccountable`): a third of it when nobody was slashed and
nothing is invented, and nothing at all when texts invent enough. For the RPC
server: the limiter's entry of a client accounts for what it let through, the
present window no more than the entry counts and the length of a window before
it no more than the limit (`ClientCovers`), and a client whose entry was pruned
was idle for a window (`LongAgo`); so no window of time sees more than twice the
limit (`WithinLimit`). A request in a worker's hands has no answer yet and has
had no effect, unless its commitment is already in the log
(`TaskSound`), and workers have numbers of their own, so what is answered is what
was done (`AnswerSound`). With the pooled payments sharing no coin (`Disjoint`)
this is `RpcRequestsAreSound`.

**GovernanceProofs.** `PublicSpec` is voting, the council and the treasury
together, each step of either. `VotingInv` says of every proposal
that its votes are of the snapshot, one each, and its tally is their power
(`Cast`); that what passed did so after its window by these votes, and what was
executed waited (`Decided`); and that votes and the flag of the council are
preceded by two thirds of the reviewers or by `MarkBouleApproved` (`Cleared`).
`FundsInv` keeps the books while no grant overflowed the word (`WholeGrants`,
`MoneyKept`, `LogExplains`), the budgets of periods, and claims behind the
vesting curve. From them `PublicVotesCountedOnce`, `PublicEffectIsDecided`,
`PublicScreenedBeforeVotes`, `PublicFundsConserved` and `PublicPaymentsAreDue`.
`EmergencySpec` is the guardians and ostracism by themselves. A quorum is a
cardinality, so the invariant adds that everyone on the list of an action's
signers was a guardian at some time since (`SignersWereGuardians`) and that
counters and lists move together (`EmergencyQuorumsDecide`).

**ServicesProofs.** *Peers*: the collection in force, the entries while the
store is open and the file otherwise, knows every ban that runs (`StoreInv`);
every open socket is in exactly one of four places, the accepting thread, a dialling
one, the table, or a thread that serves it
(`Placed`, `Apart`), what is in the table has a thread that will take it
(`Served`), and `Stop` leaves none of them anything (`StageInv`). *Wire*: the bytes in
flight are a stream that starts with the message not yet handled and has
no gap while the connection is up (`WireInv`), so every step is one of `Channel`
or a stutter: `WireImplementsChannel` is a refinement. *Mempool*: the tables of the
pool agree, and the keys of its queue are unique, so that it has an end to evict
from (`PoolAgrees`); the eviction is followed turn by turn, each turn dropping the
cheapest payment that is left, and a replacement pays at least the sum of what it
replaces; hence `MempoolIsSound`. *Channels*: the state a close would pay is the last both
signed (`ChannelInv`), the expiries of a locked route fall and who took a payment
back did so after its expiry (`RouteInv`), and balances agree with what went in and out up
to a multiple of the word (`PaidInv`, `WrappedInv`): the wrapping of the code is
kept, not assumed away. *Rollups*: the batches up to the current one hash into
one another, those above it were challenged, and what is final was not
(`OptimisticInv`; an empty batch has no proof and no challenge),
which is why a rolled back height can be submitted again
without touching what is final; the zk state grows from draft to draft, and a draft that
lags behind is not the next any more (`ZkInv`); a waiting plasma exit
is the last request, carries its challenge and its period, and is not paid
(`PlasmaInv`). That every account of any finite state climbs its Merkle path to
the root (`EveryPathClimbs`) goes through the layers: each is half as long,
rounded up, so the loop reaches a single node within as many rounds as there are
accounts (`LayersNarrow`), and the path's node on a layer is the layer's entry
at the index divided by two that often.

Only model-checked:

* `EveryTransferArrives` (liveness is out of the prover's reach).
* `TurnsFollowStake` (an induction over the draw of proposers).
* `DexIsFair`, `MachineIsExact`: their modules reach `RECURSIVE`
  operators, where the SMT backend is not available.
* `WalletMatchesChain` and the properties of `edge`: `ClientsAreToldTheTruth`,
  `HostIsSafe`, `FormatsAreExact`, `SettlesAsAgreed`, `FirmwareIsTrusted`, and
  `TrustIsKept` but for its part on anchors. Those on formats and texts speak of
  what recursive definitions compute, which needs induction over data.
* The `TypeOK` of `governance`, `services` and `edge` as conjunctions; the types
  of the parts with a theorem are proved (`BridgeTypeCorrect`,
  `StoreTypeCorrect`, `ChannelsTypeCorrect`, `RollupsTypeCorrect`,
  `MempoolTypeCorrect`, `WireTypeCorrect`, `RpcTypeCorrect`).

## 5. Plan

1. Proofs: the product of the reserves in `Dex`, `PaymentsConserve` in `Ledgers`,
   `WalletMatchesChain`, the invariants of `Settlement`, `Firmware` and `Consortium`.
2. A failing write in `Node`; the packages of the mempool; attestation of
   hardware wallets.
3. A composition of `Wallet`, `Node` and `Mempool`: what a wallet lists as
   spent while its payment waits.

## 6. Where code and text disagree without a run

Met while modelling. For some the statement is in a module and is not kept by
the code; the runs check the form that is kept. The others are exceptions that
a comment at the property names, or behaviours the models have and no property
forbids.

* `Chain.UndoIsExact`: chain.h:71-72 says a disconnect restores the UTXO set; a
  coin that a coinbase with the same txid replaced is in no undo record.
* `Bridge.MintedWithinLocked`: l1_l2_bridge.cpp:188 says the minted supply must
  never exceed the locked one. The amount paid is that of the payload, which the
  signed hash is not compared with (:149, :186): an unlock that carries more than was
  burnt takes the locked total below the minted one, and the difference of :189
  wraps. A quorum counts the entries of a list, not signers (:76-92).
* `Voting.SnapshotOfVotingStart`: snapshot.h:15-18, voting.cpp:72 and
  CONSTITUTION.md:181, :201 and :293 say that the snapshot is of the block
  `voting_start`. The powers are those of the call of `CreateProposal`
  (voting.cpp:47), a hundred blocks earlier; `VotesCountedOnce` is about these.
* `MarkBouleApproved` (voting.cpp:460-465) is public and approves without a
  review, which test_voting_integration.cpp uses; `ScreenedBeforeVotes` names it.
* `Voting.ExecutedOnce`: test_governance.cpp:262 says a second execution must
  fail; `TallyVotes` does not look at the status, so a second tally makes an
  executed proposal executable again. `ExecuteProposal` ignores whether the
  spending succeeded. The veto share counts abstentions, which voting.h:52-55
  leaves out.
* `Voting.UpheldBlocks`: boule.h:81 says an upheld challenge blocks; once it is
  resolved it no longer does.
* `Treasury.GrantPaysOnce`: revoking a grant leaves its vesting schedule. With
  overlapping budget periods only the first is charged. Milestones whose sum
  wraps reserve less than they release (treasury.cpp:233-236).
* `Dex.SharesWithinTotal`: a provider's shares are counted twice
  (dex.cpp:304, 312); a cancelled order still matches; creating a pool again
  overwrites it. A swap adds to a reserve without a check (dex.cpp:397, 400): one
  that wraps it lowers the product and pays nothing out.
* Signatures of removed guardians count. `RecordProtocolViolation` may shorten a
  ban, `UpdatePeer` writes over it, and `Open` forgets one given since the last
  `Close` to a peer the file has; an outbound connection looks neither at the
  limit nor at a later ban.
* The limiter has fixed windows, rate_limiter.h speaks of a token bucket. A
  second `sendtoaddress` selects the same coins until the first is confirmed.
* A wallet told of a block before the one it spends from keeps the spent coin
  listed until it synchronises; of a coinbase the chain has twice it lists two and
  marks one.
* An empty optimistic batch cannot be challenged, whatever root it names: its proof
  reads the last of no transactions (optimistic_rollup.cpp:378-380) and the verifier
  refuses it (:121). A batch becomes final although an earlier one is not; a plasma
  exit that is requested again clears its challenge; the zk exit proof is
  checked against the request's own root; close time plus dispute period wraps
  in 32 bits.
* MUL is wrong for multipliers of more than one byte, and EXP with it; operands
  are taken in reverse order; STOP does not stop; a failure reverts nothing. A shift
  by 2^64 shifts by nothing (vm.cpp:335, 363); an offset near 2^64 wraps and its
  access is charged for little memory or lies outside it (vm.cpp:73, 83, 730).
* `VerifyProofOfWork` and `CheckProofOfWork` compare a hash with its target from
  opposite ends; every template has a zero parent and the height after the
  tracker's, so nothing that is mined after the first blocks is accepted.
* `MPT::Delete` collapses a branch that is left with one child by prefixing its
  nibble: with a leaf below, what results reads as an extension and cannot be
  read; with a branch below, its other children are lost. Nothing calls it.
* `mobile_sdk.cpp` sends the parameters of an `evm` call as an array, the server
  reads an object: every such call fails.
* The mnemonic is the key in other letters, without a checksum; payment
  addresses are not escaped; a lost reply reports a payment as failed; a crash
  leaves a short seed file, after which every start refuses.
* A renewed certificate with an equal end of validity is not noticed; a wrong
  first signature of an index keeps the right one out; a cut time lock reads as
  one that is over; the average of service levels wraps below zero. Two keys with one
  X and different prefixes count as two of a policy and are verified as one
  (multisig.cpp:179-187). An escrow text cut to nothing reads as a time lock that is over.
* A command of twelve characters loses its last when it is read
  (message.cpp:177-178).
* No function loads a key into the verifier of `FirmwareUpdateManager`
  (firmware_verification.h:267-268): it installs no update. The path "m/" is written
  "m", which does not parse (hardware_wallet.cpp:23, 49-50).
* The relayers and validators of commitments check no signature and take the
  stakes from the text (commitments.cpp:43-61).
* `transaction.cpp` reads sizes in longer forms than needed, `message.cpp` and
  `block.cpp` do not.

## 7. Not modelled

* Hashes, signatures, zero-knowledge circuits, TLS sessions and the privacy
  prototypes: taken as perfect, with no state a caller could disturb.
* The user interfaces, explorers, indexers and scripts: they show what the RPC
  answers.
* Staking: every operation of the registry that would change it returns false;
  the supply policy is a formula; the event log is only appended to.
* The SPV bridge and destination tags beyond their encoding: one call, one
  table, which unit tests reach. Peer discovery by DNS and zero-copy buffers: no
  other part of the node calls them.
* Fee estimation and packages of the mempool; block look-up by hash, which no
  modelled operation calls; layouts of HTTP and JSON.
* Failing writes of the node and of the daemon's seed file (crashes between
  writes are modelled), power
  failure, a second `Start` of the same `Node` object (the daemon makes one
  object per process), and `AttachWallet` on a running node, which locks a mutex
  its own thread holds (node.cpp:794-813) and needs no interleaving to be seen.
