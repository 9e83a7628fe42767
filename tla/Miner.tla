-------------------------------- MODULE Miner --------------------------------
(***************************************************************************)
(* core/mining/miner.cpp and the mining threads of node.cpp: the threads share   *)
(* one Miner object and its plain flag is_mining_, build their templates from    *)
(* the ChainState object and hand what they find to ValidateAndApplyBlock,       *)
(* which takes no lock: checking and connecting a block are steps of their own.  *)
(*                                                                          *)
(* Templates have a zero parent, no transactions but the coinbase, and the       *)
(* height that follows the one of the ChainState object, which begins at zero    *)
(* in every process; the Chain object is replayed from the store and does not    *)
(* compare parents.  The hash of a block depends on all that is in it: any        *)
(* hash may come of any nonce, and the same block has the same hash.           *)
(*                                                                          *)
(* class Difficulty: targets, their compact form, the proof-of-work check and   *)
(* the adjustment after a period.                                            *)
(*                                                                          *)
(* A 256-bit number is a natural number of Width digits to the Radix; digit 0    *)
(* is the least significant, as in the arrays of the code.  The mantissa of a    *)
(* compact form has three digits, and the highest half of their range counts    *)
(* as negative.                                                             *)
(***************************************************************************)
EXTENDS Integers, Sequences, FiniteSets, SequencesExt

CONSTANTS
    Radix, Width,        \* 256 and 32
    ExpectedTime,       \* TARGET_TIMESPAN
    Spans,              \* the lengths of periods
    MaxPeriods          \* bound on the periods

ASSUME DifficultyAssumption ==
    /\ Radix \in Nat /\ Radix > 1 /\ Width \in Nat /\ Width > 3
    /\ ExpectedTime \in Nat /\ ExpectedTime % 4 = 0 /\ ExpectedTime > 0
    /\ Spans \subseteq Nat

VARIABLES
    bits,               \* the compact target of the current period
    period              \* history: the target before it, the clamped time, the periods so far
difficultyVars == <<bits, period>>

Power == [n \in 0..Width + 3 |-> Radix ^ n]
Mantissas == 0..Power[3] - 1
SignBit == Power[3] \div 2
Digit(n, i) == (n \div Power[i]) % Radix

(* A target that the exponent leaves no room for is zero: no hash meets it *)
CompactToBits256(c) ==
    IF c.exponent > Width THEN 0
    ELSE IF c.exponent <= 3 THEN c.mantissa \div Power[3 - c.exponent]
    ELSE c.mantissa * Power[c.exponent - 3]

(* Numbers of two digits are not moved to the top of the mantissa *)
Bits256ToCompact(n) ==
    LET size == CHOOSE e \in 0..Width : n < Power[e] /\ (e = 0 \/ n >= Power[e - 1])
        top  == IF size >= 3 THEN n \div Power[size - 3] ELSE n
    IN  IF top >= SignBit THEN [exponent |-> size + 1, mantissa |-> top \div Radix]
        ELSE [exponent |-> size, mantissa |-> top]

(* Compare256 begins with the last byte of the arrays, which is the highest *)
CheckProofOfWork(hash, c) == hash <= CompactToBits256(c)

GetInitialBits == [exponent |-> Width, mantissa |-> SignBit - 1]

-----------------------------------------------------------------------------
MinTimespan == ExpectedTime \div 4
MaxTimespan == ExpectedTime * 4
Clamped(span) == IF span < MinTimespan THEN MinTimespan ELSE IF span > MaxTimespan THEN MaxTimespan ELSE span

(* The two loops: digits too many are cut, digits too few are filled with zeros down to exponent 3 *)
Compact == [exponent : Nat, mantissa : Nat]
Shortened[c \in Compact] ==
    IF c.mantissa < Power[3] THEN c
    ELSE Shortened[[exponent |-> c.exponent + 1, mantissa |-> c.mantissa \div Radix]]
Lengthened[c \in Compact] ==
    IF c.mantissa >= Power[2] \/ c.exponent <= 3 THEN c
    ELSE Lengthened[[exponent |-> c.exponent - 1, mantissa |-> c.mantissa * Radix]]
Unsigned(c) ==
    IF c.mantissa < SignBit THEN c ELSE [exponent |-> c.exponent + 1, mantissa |-> c.mantissa \div Radix]

Scaled(c, time) == Unsigned(Lengthened[Shortened[[c EXCEPT !.mantissa = (@ * time) \div ExpectedTime]]])

(* The exponent is limited and the mantissa kept *)
CalculateNextDifficulty(c, span) ==
    IF c.exponent = 0 \/ c.mantissa = 0 THEN c
    ELSE LET next == Scaled(c, Clamped(span))
         IN  [next EXCEPT !.exponent = IF @ > Width THEN Width ELSE @]

-----------------------------------------------------------------------------
InitDifficulty ==
    /\ bits \in {Bits256ToCompact(n) : n \in 1..Power[Width] - 1} \cup {GetInitialBits}
    /\ period = [before |-> CompactToBits256(bits), time |-> ExpectedTime, count |-> 0]

DifficultyStep ==
    \E span \in Spans :
        /\ period.count < MaxPeriods
        /\ bits' = CalculateNextDifficulty(bits, span)
        /\ period' = [before |-> CompactToBits256(bits), time |-> Clamped(span), count |-> period.count + 1]

-----------------------------------------------------------------------------
DifficultyTypeOK ==
    /\ bits \in [exponent : 0..Width + 1, mantissa : Mantissas]
    /\ period \in [before : 0..Power[Width], time : MinTimespan..MaxTimespan, count : 0..MaxPeriods]

(* The target that follows from the last period, before it is written with three digits *)
Ideal == (period.before * period.time) \div ExpectedTime

(* What one unit of the mantissa is worth, when the largest of the two numbers has the most digits *)
Precision(m, n) == CHOOSE u \in {Power[e] : e \in 0..Width + 1} :
                       LET big == IF m > n THEN m ELSE n
                       IN  big < u * Power[2] /\ (u = 1 \/ big * Radix >= u * Power[2])

(* However the periods go, the target follows their length to the digits the compact form has, *)
(* within a factor of four and never above what is due; and a target of more than two digits    *)
(* that the form can hold survives the conversion and back.                                     *)
TargetFollowsTime ==
    LET target == CompactToBits256(bits)
    IN  /\ (period.count > 0 /\ period.before >= Power[2]) =>
              /\ target <= Ideal /\ target <= 4 * period.before
              /\ Ideal < SignBit * Power[Width - 3] => Ideal - target < Precision(period.before, Ideal)
        /\ (target >= Power[2] /\ bits.exponent <= Width) => CompactToBits256(Bits256ToCompact(target)) = target

-----------------------------------------------------------------------------
CONSTANTS
    MiningThread,
    BlockHash,          \* the hashes that come up
    BlockReward,        \* GetBlockReward: asset -> sequence by height
    Iterations,         \* ITERATIONS_PER_ROUND
    MaxBlockTime, MaxHeight, MaxProcesses    \* bounds of the model

ASSUME MinerAssumption ==
    /\ BlockHash \subseteq 0..Power[Width] - 1
    /\ \A a \in DOMAIN BlockReward : Len(BlockReward[a]) > MaxHeight

VARIABLES
    node,               \* of Node: is_mining_, whether StopMining joins, whether miner_ exists
    searching,          \* is_mining_ of the Miner object
    miners,             \* each mining thread: where it is and the block it works on
    ledger,             \* height of the Chain object, of the ChainState object, time, coins of coinbases
    hashed,             \* history: the hash of each block that was hashed in this process
    mined               \* history: for each process the blocks accepted, and all amounts issued
minerVars == <<node, searching, miners, ledger, hashed, mined>>

RewardAssets == DOMAIN BlockReward
NoBlock == [height |-> 0, time |-> 0, nonce |-> 0]
NoCoins == [a \in RewardAssets |-> 0]
Thread0 == [at |-> "none", block |-> NoBlock]

InitMiner ==
    /\ node = [mining |-> FALSE, joining |-> FALSE, miner |-> FALSE]
    /\ searching = FALSE /\ miners = [t \in MiningThread |-> Thread0]
    /\ ledger = [chain |-> 1, tracked |-> 0, time |-> 1, coinbases |-> <<>>]
    /\ hashed = <<>> /\ mined = [processes |-> 1, accepted |-> 0, issued |-> NoCoins]

-----------------------------------------------------------------------------
(* What a coinbase at the height pays: the rewards that are not zero, and no fees, *)
(* for SelectTransactions finds none                                          *)
SelectTransactions == <<>>
CalculateFees(txs, a) == FoldLeft(LAMBDA sum, tx : sum + tx[a], 0, txs)
CoinbaseRewards(height) ==
    [a \in RewardAssets |-> BlockReward[a][height] + CalculateFees(SelectTransactions, a)]
CoinbaseOutputs(height) == {a \in RewardAssets : CoinbaseRewards(height)[a] > 0}

(* The script of the input holds the height and nothing else: two coinbases of one height are one transaction *)
CoinbaseTransaction(height) == <<height, [a \in CoinbaseOutputs(height) |-> CoinbaseRewards(height)[a]]>>

(* Pairs are hashed, the last with itself if it has no partner, until one is left.  The miner hashes *)
(* a node once, MerkleTree::HashNodes twice: the roots agree as long as a block has one transaction  *)
OnceHashed(left, right) == <<left, right>>
TwiceHashed(left, right) == <<<<left, right>>>>
MerkleRoot(leaves, HashNodes(_, _)) ==
    LET above(level) == [i \in 1..(Len(level) + 1) \div 2 |->
                            HashNodes(level[2 * i - 1], level[IF 2 * i > Len(level) THEN 2 * i - 1 ELSE 2 * i])]
        level[n \in 0..Len(leaves)] ==
            IF n = 0 THEN leaves ELSE IF Len(level[n - 1]) = 1 THEN level[n - 1] ELSE above(level[n - 1])
    IN  Head(level[Len(leaves)])
ComputeMerkleRoot(txs) == MerkleRoot(txs, OnceHashed)
CalculateMerkleRoot(txs) == MerkleRoot(txs, TwiceHashed)
TransactionsOf(block) == <<CoinbaseTransaction(block.height)>> \o SelectTransactions

CreateBlockTemplate == [height |-> ledger.tracked + 1, time |-> ledger.time, nonce |-> 0]

(* The comparison begins with the first byte of hash and target, which is their lowest digit *)
VerifyProofOfWork(hash, target) ==
    \E i \in 0..Width - 1 :
        /\ Digit(hash, i) < Digit(target, i)
        /\ \A j \in 0..i - 1 : Digit(hash, j) = Digit(target, j)

-----------------------------------------------------------------------------
Put(t, at, block) == miners' = [miners EXCEPT ![t] = [at |-> at, block |-> block]]

BeginMining ==
    /\ ~node.mining /\ ~node.joining
    /\ node' = [mining |-> TRUE, joining |-> FALSE, miner |-> TRUE] /\ searching' = FALSE
    /\ miners' = [t \in MiningThread |-> [at |-> "loop", block |-> NoBlock]]
    /\ UNCHANGED <<ledger, hashed, mined>>

(* The loop of MiningLoop: a template while the node mines *)
TakeTemplate(t) ==
    /\ miners[t].at = "loop" /\ node.mining
    /\ Put(t, "template", CreateBlockTemplate)
    /\ UNCHANGED <<node, searching, ledger, hashed, mined>>

EndMining(t) ==
    /\ miners[t].at = "loop" /\ ~node.mining
    /\ Put(t, "ended", NoBlock)
    /\ UNCHANGED <<node, searching, ledger, hashed, mined>>

(* MineBlock, from its entry to the first check of the flag *)
BeginRound(t) ==
    /\ miners[t].at = "template"
    /\ searching' = TRUE /\ Put(t, "search", miners[t].block)
    /\ UNCHANGED <<node, ledger, hashed, mined>>

(* The flag is read before each nonce.  Another thread may have cleared it: its block ends this round *)
ReadFlag(t) ==
    /\ miners[t].at = "search" /\ searching /\ miners[t].block.nonce < Iterations
    /\ Put(t, "hash", miners[t].block)
    /\ UNCHANGED <<node, searching, ledger, hashed, mined>>

TryNonce(t, hash) ==
    LET block == miners[t].block
        known == {h \in DOMAIN hashed : hashed[h].block = block}
    IN  /\ miners[t].at = "hash"
        /\ \A h \in known : hashed[h].hash = hash
        /\ hashed' = IF known = {} THEN Append(hashed, [block |-> block, hash |-> hash]) ELSE hashed
        /\ IF VerifyProofOfWork(hash, CompactToBits256(GetInitialBits))
           THEN searching' = FALSE /\ Put(t, "found", block)
           ELSE Put(t, "search", [block EXCEPT !.nonce = @ + 1]) /\ UNCHANGED searching
        /\ UNCHANGED <<node, ledger, mined>>

EndRound(t) ==
    /\ miners[t].at = "search" /\ (~searching \/ miners[t].block.nonce = Iterations)
    /\ searching' = FALSE /\ Put(t, "loop", NoBlock)
    /\ UNCHANGED <<node, ledger, hashed, mined>>

(* Block::IsValid and ChainState::ValidateBlock: a zero parent is the tip of an empty ChainState only *)
HashOf(block) == hashed[CHOOSE h \in DOMAIN hashed : hashed[h].block = block].hash
RewardsValid(block, height) ==
    \A a \in CoinbaseOutputs(block.height) : CoinbaseRewards(block.height)[a] <= BlockReward[a][height]
ValidateBlock(block) ==
    /\ CheckProofOfWork(HashOf(block), GetInitialBits)
    /\ CalculateMerkleRoot(TransactionsOf(block)) = ComputeMerkleRoot(TransactionsOf(block))
    /\ ledger.tracked = 0 /\ RewardsValid(block, ledger.tracked + 1)

CheckFound(t) ==
    /\ miners[t].at = "found"
    /\ IF ValidateBlock(miners[t].block) THEN Put(t, "connect", miners[t].block) ELSE Put(t, "loop", NoBlock)
    /\ UNCHANGED <<node, searching, ledger, hashed, mined>>

ConnectHeight(block) == ledger.chain + 1

(* Chain::ConnectBlock and ChainState::ApplyBlock, which validates again; the coins of an equal *)
(* coinbase are overwritten                                                                    *)
ConnectFound(t) ==
    LET block == miners[t].block
        coinbase == CoinbaseTransaction(block.height)
    IN  /\ miners[t].at = "connect" /\ ledger.chain < MaxHeight
        /\ IF RewardsValid(block, ConnectHeight(block))
           THEN /\ ledger' = [ledger EXCEPT !.chain = @ + 1, !.tracked = IF ValidateBlock(block) THEN @ + 1 ELSE @,
                                            !.coinbases = IF coinbase \in Range(@) THEN @ ELSE Append(@, coinbase)]
                /\ mined' = [mined EXCEPT !.accepted = @ + 1,
                                          !.issued = [a \in RewardAssets |-> @[a] + CoinbaseRewards(block.height)[a]]]
           ELSE UNCHANGED <<ledger, mined>>
        /\ Put(t, "loop", NoBlock)
        /\ UNCHANGED <<node, searching, hashed>>

(* Node::StopMining clears the flag of the node, not the one of the miner, and joins *)
StopMining ==
    /\ node.mining
    /\ node' = [node EXCEPT !.mining = FALSE, !.joining = TRUE]
    /\ UNCHANGED <<searching, miners, ledger, hashed, mined>>

JoinMiners ==
    /\ node.joining /\ \A t \in MiningThread : miners[t].at = "ended"
    /\ node' = [mining |-> FALSE, joining |-> FALSE, miner |-> FALSE]
    /\ UNCHANGED <<searching, miners, ledger, hashed, mined>>

BlockTime ==
    /\ ledger.time < MaxBlockTime /\ node.mining
    /\ ledger' = [ledger EXCEPT !.time = @ + 1]
    /\ UNCHANGED <<node, searching, miners, hashed, mined>>

(* The process ends, at any point, and the next one replays the chain *)
NextProcess ==
    /\ mined.processes < MaxProcesses
    /\ node' = [mining |-> FALSE, joining |-> FALSE, miner |-> FALSE] /\ searching' = FALSE
    /\ miners' = [t \in MiningThread |-> Thread0]
    /\ ledger' = [ledger EXCEPT !.tracked = 0, !.time = 1] /\ hashed' = <<>>
    /\ mined' = [mined EXCEPT !.processes = @ + 1, !.accepted = 0]

MinerStep ==
    \/ BeginMining \/ StopMining \/ JoinMiners \/ BlockTime \/ NextProcess
    \/ \E t \in MiningThread :
          \/ TakeTemplate(t) \/ EndMining(t) \/ BeginRound(t) \/ ReadFlag(t) \/ EndRound(t)
          \/ CheckFound(t) \/ ConnectFound(t)
          \/ \E hash \in BlockHash : TryNonce(t, hash)

-----------------------------------------------------------------------------
MinerTypeOK ==
    /\ node \in [mining : BOOLEAN, joining : BOOLEAN, miner : BOOLEAN] /\ searching \in BOOLEAN
    /\ \A t \in MiningThread :
          /\ miners[t].at \in {"none", "loop", "template", "search", "hash", "found", "connect", "ended"}
          /\ miners[t].block \in [height : 0..MaxHeight, time : 0..MaxBlockTime, nonce : 0..Iterations]
    /\ ledger.chain \in 1..MaxHeight /\ ledger.tracked \in 0..ledger.chain

SumOver(f, n) == FoldLeft(LAMBDA sum, i : sum + f[i], 0, [i \in 1..n |-> i])

(* Whatever the threads, stops and restarts: the chain never pays more than the schedule of its   *)
(* heights, every block it took was found by a thread and met its target, the coins are no more    *)
(* than what was issued, and no thread uses the miner once it is gone.                            *)
MiningIsSound ==
    /\ \A a \in RewardAssets :
          /\ mined.issued[a] <= SumOver(BlockReward[a], ledger.chain) - BlockReward[a][1]
          /\ FoldLeft(LAMBDA sum, c : IF a \in DOMAIN c[2] THEN sum + c[2][a] ELSE sum, 0, ledger.coinbases)
                 <= mined.issued[a]
    /\ \A t \in MiningThread :
          /\ miners[t].at \in {"loop", "template", "search", "hash", "found", "connect"} => node.miner
          /\ miners[t].at = "connect" => CheckProofOfWork(HashOf(miners[t].block), GetInitialBits)
    /\ mined.accepted <= Cardinality(MiningThread)
    /\ mined.accepted > 0 => ledger.tracked > 0
=============================================================================
