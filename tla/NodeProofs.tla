----------------------------- MODULE NodeProofs -----------------------------
(***************************************************************************)
(* For any transactions, blocks, issuance schedule and threads: what the   *)
(* stores of a node hold whatever the moment of a crash, as long as no two *)
(* threads are in ValidateAndApplyBlock at once.                           *)
(***************************************************************************)
EXTENDS Node, TLAPS

(* While a block is on its way to disk the chain in memory is one block ahead *)
AheadIn(j) == \E th \in Thread : j[th].step \in {"apply", "store", "tip"}
Ahead      == AheadIn(job)

OneWriter ==
    Undisturbed => \A t, u \in Thread :
        job[t].step # "idle" /\ job[u].step # "idle" => t = u

(* Only a started node works on blocks; a starting one has a genesis block on disk *)
PhaseMatchesDisk ==
    /\ phase # "up" => AllIdle
    /\ phase \in {"down", "stopped"} => chain.height = 0
    /\ Undisturbed =>
        /\ phase = "genesis" => disk.height = 0 /\ 1 \in DOMAIN disk.blocks
                                /\ disk.blocks[1] = Genesis /\ chain.height = 0
        /\ phase = "replay" => disk.height >= 1 /\ chain.height <= disk.height
        /\ phase = "up" => disk.height >= 1

ChainMatchesDisk ==
    Undisturbed /\ phase = "up" =>
        /\ Ahead => chain.height = disk.height + 1
        /\ ~Ahead => chain.height = disk.height

(* From StoreBlock on, the block of a thread is on disk where the thread says *)
JobMatchesDisk ==
    Undisturbed => \A th \in Thread :
        job[th].step \in {"tip", "utxo", "pool"} =>
            /\ job[th].height = chain.height
            /\ job[th].height \in DOMAIN disk.blocks
            /\ disk.blocks[job[th].height] = job[th].block

(* Height 0 is the empty chain's alone: a started chain, and every block a *)
(* thread has stored, is above it.                                          *)
HeightsPositive ==
    /\ phase = "replay" => disk.height >= 1
    /\ phase = "up" => chain.height >= 1
    /\ \A th \in Thread : job[th].step \in {"tip", "utxo", "pool"} =>
          phase = "up" /\ job[th].height >= 1

IInv == /\ TypeOK /\ HeightsPositive /\ StorageContiguous /\ AcknowledgedSurvives
        /\ OneWriter /\ PhaseMatchesDisk /\ ChainMatchesDisk /\ JobMatchesDisk

-----------------------------------------------------------------------------
(* Chain::ConnectBlock moves the height by one and the tip to the block when it *)
(* returns true, and neither when it returns false.                              *)
LEMMA ConnectBlockMoves ==
    ASSUME NEW c, NEW b, DOMAIN c = DOMAIN EmptyChain
    PROVE  LET r == ConnectBlock(c, b)
           IN  /\ DOMAIN r.chain = DOMAIN EmptyChain
               /\ r.ok \in BOOLEAN
               /\ r.ok  => r.chain.height = c.height + 1 /\ r.chain.tip = b
               /\ ~r.ok => r.chain.height = c.height /\ r.chain.tip = c.tip
BY DEF ConnectBlock, EmptyChain

(* StoreBlock changes one height of the block table and nothing of the tip *)
LEMMA StoreBlockStores ==
    ASSUME NEW d, NEW b, NEW h, DOMAIN d = DOMAIN EmptyDisk
    PROVE  /\ DOMAIN StoreBlock(d, b, h) = DOMAIN EmptyDisk
           /\ StoreBlock(d, b, h).height = d.height
           /\ StoreBlock(d, b, h).best = d.best
           /\ StoreBlock(d, b, h).blocks = Put(d.blocks, h, b)
BY DEF StoreBlock, EmptyDisk

(* A table of blocks by height *)
IsTable(f) == f \in [DOMAIN f -> Block] /\ DOMAIN f \subseteq Nat \ {0}

(* Put adds its key and its value to a table of blocks *)
LEMMA PutTyped ==
    ASSUME NEW f, NEW h, NEW b, IsTable(f), h \in Nat \ {0}, b \in Block
    PROVE  IsTable(Put(f, h, b))
BY DEF Put, IsTable

JobType == [Thread -> [step : Steps, block : Block, height : Nat]]

(* A thread that moves on keeps its block and its height, the others everything *)
LEMMA GotoMoves ==
    ASSUME NEW th \in Thread, NEW step \in Steps, job \in JobType, Goto(th, step)
    PROVE  /\ job' \in JobType
           /\ job'[th].step = step /\ job'[th].block = job[th].block
           /\ job'[th].height = job[th].height
           /\ \A u \in Thread \ {th} : job'[u] = job[u]
<1>1. [job[th] EXCEPT !.step = step] \in [step : Steps, block : Block, height : Nat]
    BY DEF JobType
<1> QED
    BY <1>1 DEF Goto, JobType

(* A thread that is done is idle, the others are where they were *)
LEMMA IdleMoves ==
    ASSUME NEW th \in Thread, job \in JobType, job' = [job EXCEPT ![th] = Idle]
    PROVE  /\ job' \in JobType
           /\ job'[th].step = "idle"
           /\ \A u \in Thread \ {th} : job'[u] = job[u]
BY NodeAssumption DEF JobType, Idle, Steps

(* The initial state satisfies the inductive invariant *)
LEMMA InitIInv == Init => IInv
BY NodeAssumption, PrimitivesAssumption
   DEF Init, IInv, TypeOK, StorageContiguous, AcknowledgedSurvives, OneWriter, PhaseMatchesDisk,
       ChainMatchesDisk, JobMatchesDisk, HeightsPositive, Ahead, AheadIn, Undisturbed, AllIdle, EmptyDisk, EmptyChain, EmptyFun,
       FreshTracker, Idle, Phases, Steps

(* The type invariant, together with the heights it needs *)
LEMMA StepTypeOK == TypeOK /\ HeightsPositive /\ [Next]_vars => TypeOK'
<1> SUFFICES ASSUME TypeOK, HeightsPositive, [Next]_vars PROVE TypeOK'
    OBVIOUS
<1> USE NodeAssumption, PrimitivesAssumption DEF TypeOK, Phases, Steps
<1>1. CASE OpenStores
    <2>1. CASE disk.height >= 1
        BY <1>1, <2>1 DEF OpenStores
    <2>2. CASE ~(disk.height >= 1)
        <3>1. /\ DOMAIN disk' = DOMAIN EmptyDisk /\ disk'.height = disk.height
              /\ disk'.best = disk.best /\ disk'.blocks = Put(disk.blocks, 1, Genesis)
            BY <1>1, <2>2, StoreBlockStores DEF OpenStores
        <3>2. IsTable(disk.blocks)
            BY DEF IsTable
        <3>3. IsTable(disk'.blocks)
            <4>1. 1 \in Nat \ {0} /\ Genesis \in Block
                OBVIOUS
            <4>2. IsTable(Put(disk.blocks, 1, Genesis))
                BY ONLY <3>2, <4>1, PutTyped, Zenon
            <4> QED
                BY <3>1, <4>2
        <3> QED
            BY <1>1, <2>2, <3>1, <3>3 DEF OpenStores, IsTable
    <2> QED
        BY <2>1, <2>2
<1>2. CASE GenesisTip
    BY <1>2 DEF GenesisTip, UpdateChainTip
<1>3. CASE ReplayBlock
    BY <1>3, ConnectBlockMoves DEF ReplayBlock, ReplayStep
<1>4. CASE Started
    BY <1>4 DEF Started
<1>5. ASSUME NEW how \in {"down", "stopped"}, ProcessEnds(how)
      PROVE  /\ phase' \in Phases /\ chain'.height \in Nat /\ tracker'.height \in Nat
             /\ DOMAIN chain' = DOMAIN EmptyChain /\ pool' \subseteq Relayable
             /\ job' \in [Thread -> [step : Steps, block : Block, height : Nat]]
    BY <1>5 DEF ProcessEnds, EmptyChain, FreshTracker, Idle
<1>6. CASE Crash
    BY <1>5, <1>6 DEF Crash
<1>7. CASE Stop
    BY <1>5, <1>7 DEF Stop, SaveUTXOSet, EmptyDisk
<1>8. ASSUME NEW th \in Thread, NEW b \in Block, Receive(th, b) PROVE TypeOK'
    BY <1>8 DEF Receive, Idle
<1>9. ASSUME NEW th \in Thread, Connect(th) PROVE TypeOK'
    <2>1. DOMAIN chain' = DOMAIN EmptyChain /\ chain'.height \in Nat
        BY <1>9, ConnectBlockMoves DEF Connect
    <2>2. job' \in JobType
        BY <1>9, GotoMoves, IdleMoves DEF Connect, JobType
    <2> QED
        BY <1>9, <2>1, <2>2 DEF Connect, JobType
<1>10. ASSUME NEW th \in Thread, Apply(th) PROVE TypeOK'
    <2>1. tracker'.height \in Nat
        BY <1>10 DEF Apply, ApplyBlock
    <2> QED
        BY <1>10, <2>1, GotoMoves DEF Apply, JobType
<1>11. ASSUME NEW th \in Thread, Store(th) PROVE TypeOK'
    <2>1. job' \in JobType
        <3>1. [job[th] EXCEPT !.step = "tip", !.height = chain.height]
                 \in [step : Steps, block : Block, height : Nat]
            <4>1. job[th] \in [step : Steps, block : Block, height : Nat]
                  /\ "tip" \in Steps /\ chain.height \in Nat
                BY DEF JobType, Steps
            <4> QED
                BY ONLY <4>1
        <3>2. job' = [job EXCEPT ![th] = [job[th] EXCEPT !.step = "tip", !.height = chain.height]]
            BY <1>11, Zenon DEF Store, StoredHeight
        <3> QED
            BY <3>1, <3>2, Zenon DEF JobType
    <2>2. chain.height \in Nat \ {0}
        BY <1>11 DEF Store, At, HeightsPositive
    <2> QED
        <3>1. /\ DOMAIN disk' = DOMAIN EmptyDisk /\ disk'.height = disk.height
              /\ disk'.best = disk.best
              /\ disk'.blocks = Put(disk.blocks, chain.height, job[th].block)
            BY <1>11, StoreBlockStores DEF Store, StoredHeight
        <3>2. job[th].block \in Block
            OBVIOUS
        <3>3. IsTable(disk.blocks)
            BY DEF IsTable
        <3>4. IsTable(disk'.blocks)
            BY <2>2, <3>1, <3>2, <3>3, PutTyped
        <3> QED
            BY <1>11, <2>1, <3>1, <3>4 DEF Store, JobType, IsTable
<1>12. ASSUME NEW th \in Thread, Tip(th) PROVE TypeOK'
    <2>1. job' \in JobType
        BY <1>12, GotoMoves DEF Tip, JobType
    <2> QED
        BY <1>12, <2>1 DEF Tip, UpdateChainTip, EmptyDisk, JobType
<1>13. ASSUME NEW th \in Thread, SaveUtxo(th) PROVE TypeOK'
    <2>1. job' \in JobType
        BY <1>13, GotoMoves DEF SaveUtxo, JobType
    <2> QED
        BY <1>13, <2>1 DEF SaveUtxo, SaveUTXOSet, EmptyDisk, JobType
<1>14. ASSUME NEW th \in Thread, Finish(th) PROVE TypeOK'
    <2>1. job' \in JobType
        BY <1>14, IdleMoves DEF Finish, JobType
    <2>2. job[th].height \in Nat \ {0} /\ job[th].block \in Block
        BY <1>14 DEF Finish, At, HeightsPositive
    <2>3. IsTable(acked)
        BY DEF IsTable
    <2>4. IsTable(acked')
        BY <1>14, <2>2, <2>3, PutTyped DEF Finish
    <2> QED
        BY <1>14, <2>1, <2>4 DEF Finish, JobType, IsTable
<1>15. ASSUME NEW t \in Tx, SubmitTransaction(t) PROVE TypeOK'
    BY <1>15 DEF SubmitTransaction
<1>16. CASE UNCHANGED vars
    BY <1>16 DEF vars
<1> QED
    BY <1>1, <1>2, <1>3, <1>4, <1>6, <1>7, <1>8, <1>9, <1>10, <1>11, <1>12, <1>13, <1>14,
       <1>15, <1>16 DEF Next

(* ... and the heights it needs *)
LEMMA StepHeightsPositive == TypeOK /\ HeightsPositive /\ [Next]_vars => HeightsPositive'
<1> SUFFICES ASSUME TypeOK, HeightsPositive, [Next]_vars PROVE HeightsPositive'
    OBVIOUS
<1> USE DEF HeightsPositive
<1>0. disk.height \in Nat /\ chain.height \in Nat /\ DOMAIN chain = DOMAIN EmptyChain /\ job \in JobType
      /\ DOMAIN disk = DOMAIN EmptyDisk
    BY DEF TypeOK, JobType
<1>1. CASE OpenStores
    BY <1>1 DEF OpenStores
<1>2. CASE GenesisTip
    BY <1>0, <1>2 DEF GenesisTip, UpdateChainTip, EmptyDisk
<1>3. CASE ReplayBlock
    BY <1>3 DEF ReplayBlock
<1>4. CASE Started
    BY <1>0, <1>4 DEF Started, LastReplayed
<1>5. ASSUME NEW how \in {"down", "stopped"}, ProcessEnds(how) PROVE HeightsPositive'
    BY <1>5 DEF ProcessEnds, Idle
<1>6. CASE Crash
    BY <1>5, <1>6 DEF Crash
<1>7. CASE Stop
    BY <1>5, <1>7 DEF Stop
<1>8. ASSUME NEW th \in Thread, NEW b \in Block, Receive(th, b) PROVE HeightsPositive'
    BY <1>0, <1>8 DEF Receive, Idle, JobType
<1>9. ASSUME NEW th \in Thread, Connect(th) PROVE HeightsPositive'
    <2>1. chain'.height >= 1
        BY <1>0, <1>9, ConnectBlockMoves DEF Connect, At
    <2>2. job'[th].step \in {"apply", "idle"} /\ \A u \in Thread \ {th} : job'[u] = job[u]
        BY <1>0, <1>9, GotoMoves, IdleMoves DEF Connect, Steps
    <2> QED
        BY <1>9, <2>1, <2>2 DEF Connect, At
<1>10. ASSUME NEW th \in Thread, Apply(th) PROVE HeightsPositive'
    <2>1. job'[th].step = "store" /\ \A u \in Thread \ {th} : job'[u] = job[u]
        BY <1>0, <1>10, GotoMoves DEF Apply, Steps
    <2> QED
        BY <1>10, <2>1 DEF Apply, At
<1>11. ASSUME NEW th \in Thread, Store(th) PROVE HeightsPositive'
    <2>1. job'[th].height = chain.height /\ \A u \in Thread \ {th} : job'[u] = job[u]
        BY <1>0, <1>11 DEF Store, StoredHeight, JobType
    <2> QED
        BY <1>11, <2>1 DEF Store, At
<1>12. ASSUME NEW th \in Thread, Tip(th) PROVE HeightsPositive'
    <2>1. job'[th].height = job[th].height /\ \A u \in Thread \ {th} : job'[u] = job[u]
        BY <1>0, <1>12, GotoMoves DEF Tip, Steps
    <2> QED
        BY <1>12, <2>1 DEF Tip, At
<1>13. ASSUME NEW th \in Thread, SaveUtxo(th) PROVE HeightsPositive'
    <2>1. job'[th].height = job[th].height /\ \A u \in Thread \ {th} : job'[u] = job[u]
        BY <1>0, <1>13, GotoMoves DEF SaveUtxo, Steps
    <2> QED
        BY <1>13, <2>1 DEF SaveUtxo, At
<1>14. ASSUME NEW th \in Thread, Finish(th) PROVE HeightsPositive'
    <2>1. job'[th].step = "idle" /\ \A u \in Thread \ {th} : job'[u] = job[u]
        BY <1>0, <1>14, IdleMoves DEF Finish
    <2> QED
        BY <1>14, <2>1 DEF Finish, At
<1>15. ASSUME NEW t \in Tx, SubmitTransaction(t) PROVE HeightsPositive'
    BY <1>15 DEF SubmitTransaction
<1>16. CASE UNCHANGED vars
    BY <1>16 DEF vars
<1> QED
    BY <1>1, <1>2, <1>3, <1>4, <1>6, <1>7, <1>8, <1>9, <1>10, <1>11, <1>12, <1>13, <1>14,
       <1>15, <1>16 DEF Next

-----------------------------------------------------------------------------
Safe == StorageContiguous /\ AcknowledgedSurvives /\ OneWriter /\ PhaseMatchesDisk
        /\ ChainMatchesDisk /\ JobMatchesDisk

(* With one writer, what Ahead and AllIdle say is what that thread's step says *)
LEMMA WriterAlone ==
    ASSUME NEW j, NEW th \in Thread, \A u \in Thread \ {th} : j[u].step = "idle"
    PROVE  AheadIn(j) <=> j[th].step \in {"apply", "store", "tip"}
BY DEF AheadIn

(* The actions of starting, stopping and dying, in which no thread is at work *)
LEMMA StartStopSafe ==
    IInv /\ (OpenStores \/ GenesisTip \/ ReplayBlock \/ Started \/ Crash \/ Stop) => Safe'
<1> SUFFICES ASSUME IInv, OpenStores \/ GenesisTip \/ ReplayBlock \/ Started \/ Crash \/ Stop
             PROVE  Safe'
    OBVIOUS
<1>0. /\ disk.height \in Nat /\ chain.height \in Nat /\ job \in JobType
      /\ DOMAIN disk = DOMAIN EmptyDisk /\ DOMAIN chain = DOMAIN EmptyChain
      /\ DOMAIN disk.blocks \subseteq Nat \ {0} /\ DOMAIN acked \subseteq Nat \ {0}
    BY DEF IInv, TypeOK, JobType
<1>1. CASE OpenStores
    <2>1. CASE disk.height >= 1
        <3>1. /\ phase' \in {"replay", "refused"} /\ disk' = disk /\ chain.height = 0 /\ AllIdle
            BY <1>1, <2>1 DEF OpenStores, IInv, PhaseMatchesDisk
        <3> QED
            BY <1>0, <1>1, <2>1, <3>1
               DEF OpenStores, IInv, Safe, StorageContiguous, AcknowledgedSurvives, OneWriter,
                   PhaseMatchesDisk, ChainMatchesDisk, JobMatchesDisk, Undisturbed, AllIdle
    <2>2. CASE ~(disk.height >= 1)
        <3>1. /\ disk'.height = 0 /\ disk.height = 0 /\ disk'.blocks = Put(disk.blocks, 1, Genesis)
              /\ phase' = "genesis" /\ chain.height = 0 /\ AllIdle
            BY <1>0, <1>1, <2>2, StoreBlockStores DEF OpenStores, IInv, PhaseMatchesDisk
        <3>2. DOMAIN disk'.blocks = DOMAIN disk.blocks \cup {1} /\ disk'.blocks[1] = Genesis
            <4>1. /\ DOMAIN Put(disk.blocks, 1, Genesis) = DOMAIN disk.blocks \cup {1}
                  /\ Put(disk.blocks, 1, Genesis)[1] = Genesis
                BY DEF Put
            <4> QED
                BY <3>1, <4>1
        <3>3. AcknowledgedSurvives'
            BY <1>0, <1>1, <3>1 DEF OpenStores, IInv, AcknowledgedSurvives, Undisturbed
        <3>4. StorageContiguous'
            BY <1>0, <1>1, <3>1, <3>2 DEF OpenStores, IInv, StorageContiguous, Undisturbed
        <3>5. OneWriter' /\ ChainMatchesDisk' /\ JobMatchesDisk'
            BY <1>1, <3>1 DEF OpenStores, OneWriter, ChainMatchesDisk, JobMatchesDisk, AllIdle
        <3>6. PhaseMatchesDisk'
            BY <1>1, <3>1, <3>2 DEF OpenStores, PhaseMatchesDisk, AllIdle
        <3> QED
            BY <3>3, <3>4, <3>5, <3>6 DEF Safe
    <2> QED
        BY <2>1, <2>2
<1>2. CASE GenesisTip
    <2>1. /\ disk'.height = 1 /\ disk'.best = Genesis /\ disk'.blocks = disk.blocks
        BY <1>0, <1>2 DEF GenesisTip, UpdateChainTip, EmptyDisk
    <2>2. AllIdle
        BY <1>2 DEF GenesisTip, IInv, PhaseMatchesDisk
    <2>3. Undisturbed => disk.height = 0 /\ 1 \in DOMAIN disk.blocks /\ disk.blocks[1] = Genesis
                         /\ chain.height = 0
        BY <1>2 DEF GenesisTip, IInv, PhaseMatchesDisk
    <2>4. StorageContiguous'
        BY <1>0, <1>2, <2>1, <2>3 DEF GenesisTip, IInv, StorageContiguous, Undisturbed
    <2>5. AcknowledgedSurvives'
        BY <1>0, <1>2, <2>1, <2>3 DEF GenesisTip, IInv, AcknowledgedSurvives, Undisturbed
    <2>6. OneWriter' /\ ChainMatchesDisk' /\ JobMatchesDisk'
        BY <1>2, <2>2 DEF GenesisTip, OneWriter, ChainMatchesDisk, JobMatchesDisk, AllIdle
    <2>7. PhaseMatchesDisk'
        BY <1>2, <2>1, <2>2, <2>3 DEF GenesisTip, PhaseMatchesDisk, AllIdle, Undisturbed
    <2> QED
        BY <2>4, <2>5, <2>6, <2>7 DEF Safe
<1>3. CASE ReplayBlock
    <2>1. /\ chain'.height \in {chain.height, chain.height + 1} /\ chain.height < disk.height
          /\ phase' = "replay" \/ phase' = "refused"
        BY <1>0, <1>3, ConnectBlockMoves DEF ReplayBlock, ReplayStep, LastReplayed
    <2>2. AllIdle /\ phase = "replay"
        BY <1>3 DEF ReplayBlock, IInv, PhaseMatchesDisk
    <2> QED
        BY <1>0, <1>3, <2>1, <2>2
           DEF ReplayBlock, IInv, Safe, StorageContiguous, AcknowledgedSurvives, OneWriter,
               PhaseMatchesDisk, ChainMatchesDisk, JobMatchesDisk, Undisturbed, AllIdle
<1>4. CASE Started
    <2>1. AllIdle /\ ~Ahead
        BY <1>4 DEF Started, IInv, PhaseMatchesDisk, AllIdle, Ahead, AheadIn
    <2>2. Undisturbed => chain.height = disk.height /\ disk.height >= 1
        BY <1>0, <1>4 DEF Started, LastReplayed, IInv, PhaseMatchesDisk
    <2> QED
        BY <1>4, <2>1, <2>2
           DEF Started, IInv, Safe, StorageContiguous, AcknowledgedSurvives, OneWriter,
               PhaseMatchesDisk, ChainMatchesDisk, JobMatchesDisk, Undisturbed, AllIdle, Ahead
<1>5. ASSUME NEW how \in {"down", "stopped"}, ProcessEnds(how), disk'.height = disk.height,
             disk'.blocks = disk.blocks, disk'.best = disk.best, UNCHANGED <<acked, taint>>
      PROVE  Safe'
    <2>1. phase' \in {"down", "stopped"} /\ chain'.height = 0 /\ AllIdle'
        BY <1>5 DEF ProcessEnds, EmptyChain, AllIdle, Idle
    <2> QED
        BY <1>5, <2>1
           DEF IInv, Safe, StorageContiguous, AcknowledgedSurvives, OneWriter,
               PhaseMatchesDisk, ChainMatchesDisk, JobMatchesDisk, Undisturbed, AllIdle
<1>6. CASE Crash
    BY <1>5, <1>6 DEF Crash
<1>7. CASE Stop
    BY <1>0, <1>5, <1>7 DEF Stop, SaveUTXOSet, EmptyDisk
<1> QED
    BY <1>1, <1>2, <1>3, <1>4, <1>6, <1>7

(* The steps of ValidateAndApplyBlock *)
LEMMA WriterSafe ==
    ASSUME NEW th \in Thread, IInv,
           (\E b \in Block : Receive(th, b)) \/ Connect(th) \/ Apply(th) \/ Store(th)
             \/ Tip(th) \/ SaveUtxo(th) \/ Finish(th)
    PROVE  Safe'
<1>0. /\ disk.height \in Nat /\ chain.height \in Nat /\ job \in JobType
      /\ DOMAIN disk = DOMAIN EmptyDisk /\ DOMAIN chain = DOMAIN EmptyChain
      /\ DOMAIN disk.blocks \subseteq Nat \ {0} /\ DOMAIN acked \subseteq Nat \ {0}
    BY DEF IInv, TypeOK, JobType
<1>1. /\ phase = "up" /\ phase' = "up" /\ taint \subseteq taint'
      /\ \A u \in Thread \ {th} : job'[u] = job[u]
    BY <1>0, GotoMoves, IdleMoves
       DEF Receive, Connect, Apply, Store, Tip, SaveUtxo, Finish, At, JobType, Steps
<1>2. ~Undisturbed' => Safe'
    BY <1>1 DEF Safe, StorageContiguous, AcknowledgedSurvives, OneWriter, PhaseMatchesDisk,
                ChainMatchesDisk, JobMatchesDisk
<1> SUFFICES ASSUME Undisturbed' PROVE Safe'
    BY <1>2
<1>3. Undisturbed
    BY <1>1 DEF Undisturbed
<1>4. \A u \in Thread \ {th} : job[u].step = "idle" /\ job'[u].step = "idle"
    <2>1. CASE \E b \in Block : Receive(th, b)
        BY <1>1, <2>1 DEF Receive, Undisturbed, AllIdle
    <2>2. CASE job[th].step # "idle"
        BY <1>1, <1>3, <2>2 DEF IInv, OneWriter
    <2> QED
        BY <2>1, <2>2 DEF Connect, Apply, Store, Tip, SaveUtxo, Finish, At
<1>5. OneWriter'
    BY <1>4 DEF OneWriter
<1>6. /\ Ahead  <=> job[th].step \in {"apply", "store", "tip"}
      /\ Ahead' <=> job'[th].step \in {"apply", "store", "tip"}
    <2>1. Ahead <=> job[th].step \in {"apply", "store", "tip"}
        BY <1>4, WriterAlone DEF Ahead
    <2>2. Ahead' <=> job'[th].step \in {"apply", "store", "tip"}
        BY <1>4 DEF Ahead, AheadIn
    <2> QED
        BY <2>1, <2>2
<1>7. /\ disk.height >= 1
      /\ job[th].step \in {"apply", "store", "tip"} => chain.height = disk.height + 1
      /\ job[th].step \notin {"apply", "store", "tip"} => chain.height = disk.height
    BY <1>1, <1>3, <1>6 DEF IInv, PhaseMatchesDisk, ChainMatchesDisk
<1>8. /\ 1 .. disk.height \subseteq DOMAIN disk.blocks
      /\ DOMAIN disk.blocks \subseteq 1 .. disk.height + 1
      /\ disk.blocks[1] = Genesis /\ disk.blocks[disk.height] = disk.best
      /\ \A h \in DOMAIN acked : h <= disk.height /\ disk.blocks[h] = acked[h]
    BY <1>3, <1>7 DEF IInv, StorageContiguous, AcknowledgedSurvives
<1>9. job[th].step \in {"tip", "utxo", "pool"} =>
            /\ job[th].height = chain.height
            /\ job[th].height \in DOMAIN disk.blocks
            /\ disk.blocks[job[th].height] = job[th].block
    BY <1>3 DEF IInv, JobMatchesDisk
(* What is left to prove of Safe' once the others are known to be idle *)
<1> DEFINE Goal ==
        /\ StorageContiguous' /\ AcknowledgedSurvives' /\ disk'.height >= 1
        /\ job'[th].step \in {"apply", "store", "tip"} => chain'.height = disk'.height + 1
        /\ job'[th].step \notin {"apply", "store", "tip"} => chain'.height = disk'.height
        /\ job'[th].step \in {"tip", "utxo", "pool"} =>
              /\ job'[th].height = chain'.height
              /\ job'[th].height \in DOMAIN disk'.blocks
              /\ disk'.blocks[job'[th].height] = job'[th].block
<1>10. ASSUME Goal PROVE Safe'
    <2>1. StorageContiguous' /\ AcknowledgedSurvives' /\ OneWriter'
        BY <1>5, <1>10
    <2>2. PhaseMatchesDisk'
        BY <1>1, <1>10 DEF PhaseMatchesDisk
    <2>3. ChainMatchesDisk'
        BY <1>1, <1>4, <1>5, <1>6, <1>10 DEF ChainMatchesDisk
    <2>4. JobMatchesDisk'
        BY <1>1, <1>4, <1>5, <1>6, <1>10 DEF JobMatchesDisk
    <2> QED
        BY <2>1, <2>2, <2>3, <2>4 DEF Safe
(* The actions that leave the stores alone keep what is said of them *)
<1>11. ASSUME UNCHANGED <<disk, acked>> PROVE StorageContiguous' /\ AcknowledgedSurvives'
    <2>1. StorageContiguous'
        BY <1>3, <1>11 DEF IInv, StorageContiguous
    <2>2. AcknowledgedSurvives'
        BY <1>3, <1>11 DEF IInv, AcknowledgedSurvives
    <2> QED
        BY <2>1, <2>2
<1>12. CASE \E b \in Block : Receive(th, b)
    <2>0. PICK b \in Block : Receive(th, b)
        BY <1>12
    <2>1. job[th].step = "idle" /\ job'[th].step = "connect"
        <3>1. job[th].step = "idle" /\ job' = [job EXCEPT ![th] = [Idle EXCEPT !.step = "connect", !.block = b]]
            BY ONLY <2>0 DEF Receive
        <3>2. th \in DOMAIN job
            BY <1>0 DEF JobType
        <3> QED
            BY ONLY <3>1, <3>2 DEF Idle
    <2>2. UNCHANGED <<disk, chain, acked>>
        BY ONLY <2>0 DEF Receive
    <2>3. StorageContiguous' /\ AcknowledgedSurvives'
        BY <1>11, <2>2
    <2> QED
        BY <1>7, <1>10, <2>1, <2>2, <2>3
<1>13. CASE Connect(th)
    <2>1. job[th].step = "connect" /\ UNCHANGED <<disk, acked>>
        BY <1>13 DEF Connect, At
    <2>2. \/ chain'.height = chain.height + 1 /\ job'[th].step = "apply"
          \/ chain'.height = chain.height /\ job'[th].step = "idle"
        BY <1>0, <1>13, ConnectBlockMoves, GotoMoves, IdleMoves DEF Connect, Steps
    <2> QED
        BY <1>7, <1>10, <1>11, <2>1, <2>2
<1>14. CASE Apply(th)
    <2>1. job[th].step = "apply" /\ job'[th].step = "store" /\ UNCHANGED <<chain, disk, acked>>
        BY <1>0, <1>14, GotoMoves DEF Apply, At, Steps
    <2> QED
        BY <1>7, <1>10, <1>11, <2>1
<1>15. CASE Store(th)
    <2>1. /\ job[th].step = "store" /\ job'[th].step = "tip" /\ job'[th].height = chain.height
          /\ job'[th].block = job[th].block /\ UNCHANGED <<chain, acked>>
        BY <1>0, <1>15 DEF Store, StoredHeight, At, JobType
    <2>2. /\ disk'.height = disk.height /\ disk'.best = disk.best
          /\ disk'.blocks = Put(disk.blocks, chain.height, job[th].block)
        BY <1>0, <1>15, StoreBlockStores DEF Store, StoredHeight
    <2>3. /\ DOMAIN disk'.blocks = DOMAIN disk.blocks \cup {chain.height}
          /\ disk'.blocks[chain.height] = job[th].block
          /\ \A k \in DOMAIN disk.blocks : k # chain.height => disk'.blocks[k] = disk.blocks[k]
        BY <2>2 DEF Put
    <2>4. StorageContiguous'
        BY <1>0, <1>7, <1>8, <2>1, <2>2, <2>3 DEF StorageContiguous
    <2>5. AcknowledgedSurvives'
        BY <1>0, <1>7, <1>8, <2>1, <2>2, <2>3 DEF AcknowledgedSurvives
    <2> QED
        BY <1>7, <1>10, <2>1, <2>2, <2>3, <2>4, <2>5
<1>16. CASE Tip(th)
    <2>1. /\ job[th].step = "tip" /\ job'[th].step = "utxo" /\ job'[th].height = job[th].height
          /\ job'[th].block = job[th].block /\ UNCHANGED <<chain, acked>>
        BY <1>0, <1>16, GotoMoves DEF Tip, At, Steps
    <2>2. /\ disk'.height = job[th].height /\ disk'.best = job[th].block /\ disk'.blocks = disk.blocks
        BY <1>0, <1>16 DEF Tip, UpdateChainTip, EmptyDisk
    <2>3. StorageContiguous'
        BY <1>0, <1>7, <1>8, <1>9, <2>1, <2>2 DEF StorageContiguous
    <2>4. AcknowledgedSurvives'
        BY <1>0, <1>7, <1>8, <1>9, <2>1, <2>2 DEF AcknowledgedSurvives
    <2> QED
        BY <1>0, <1>7, <1>9, <1>10, <2>1, <2>2, <2>3, <2>4
<1>17. CASE SaveUtxo(th)
    <2>1. /\ job[th].step = "utxo" /\ job'[th].step = "pool" /\ job'[th].height = job[th].height
          /\ job'[th].block = job[th].block /\ UNCHANGED <<chain, acked>>
        BY <1>0, <1>17, GotoMoves DEF SaveUtxo, At, Steps
    <2>2. disk'.height = disk.height /\ disk'.best = disk.best /\ disk'.blocks = disk.blocks
        BY <1>0, <1>17 DEF SaveUtxo, SaveUTXOSet, EmptyDisk
    <2>3. StorageContiguous' /\ AcknowledgedSurvives'
        BY <1>8, <2>1, <2>2 DEF StorageContiguous, AcknowledgedSurvives
    <2> QED
        BY <1>7, <1>9, <1>10, <2>1, <2>2, <2>3
<1>18. CASE Finish(th)
    <2>1. job[th].step = "pool" /\ job'[th].step = "idle" /\ UNCHANGED <<chain, disk>>
        BY <1>0, <1>18, IdleMoves DEF Finish, At
    <2>2. acked' = Put(acked, job[th].height, job[th].block)
        BY <1>18 DEF Finish
    <2>3. /\ DOMAIN acked' = DOMAIN acked \cup {job[th].height}
          /\ acked'[job[th].height] = job[th].block
          /\ \A k \in DOMAIN acked : k # job[th].height => acked'[k] = acked[k]
        BY <2>2 DEF Put
    <2>4. AcknowledgedSurvives'
        BY <1>0, <1>7, <1>8, <1>9, <2>1, <2>3 DEF AcknowledgedSurvives
    <2>5. StorageContiguous'
        BY <1>8, <2>1 DEF StorageContiguous
    <2> QED
        BY <1>7, <1>10, <2>1, <2>4, <2>5
<1> QED
    BY <1>12, <1>13, <1>14, <1>15, <1>16, <1>17, <1>18

(* Every step keeps the inductive invariant *)
LEMMA StepIInv == IInv /\ [Next]_vars => IInv'
<1> SUFFICES ASSUME IInv, [Next]_vars PROVE IInv'
    OBVIOUS
<1>1. TypeOK' /\ HeightsPositive'
    BY StepTypeOK, StepHeightsPositive DEF IInv
<1>2. ASSUME UNCHANGED vars PROVE Safe'
    <2>1. StorageContiguous' /\ AcknowledgedSurvives' /\ OneWriter' /\ JobMatchesDisk'
        BY <1>2 DEF vars, IInv, StorageContiguous, AcknowledgedSurvives, OneWriter, JobMatchesDisk,
                    Undisturbed
    <2>2. PhaseMatchesDisk' /\ ChainMatchesDisk'
        BY <1>2 DEF vars, IInv, PhaseMatchesDisk, ChainMatchesDisk, Undisturbed, AllIdle, Ahead,
                    AheadIn
    <2> QED
        BY <2>1, <2>2 DEF Safe
<1>3. ASSUME NEW t \in Tx, SubmitTransaction(t) PROVE Safe'
    BY <1>3 DEF SubmitTransaction, IInv, Safe, StorageContiguous, AcknowledgedSurvives, OneWriter,
       PhaseMatchesDisk, ChainMatchesDisk, JobMatchesDisk, Undisturbed, AllIdle, Ahead, AheadIn
<1>4. Safe'
    BY <1>2, <1>3, StartStopSafe, WriterSafe DEF Next, Safe, IInv
<1> QED
    BY <1>1, <1>4 DEF IInv, Safe

(* IInv is an invariant of the node *)
THEOREM NodeInductive == Spec => []IInv
<1> QED
    BY InitIInv, StepIInv, PTL DEF Spec

(* The type invariant holds for every universe of transactions and blocks *)
THEOREM NodeTypeCorrect == Spec => []TypeOK
<1>1. IInv => TypeOK
    BY DEF IInv
<1> QED
    BY <1>1, NodeInductive, PTL

(* Whatever the moment of a crash, no block is missing below the stored height, the *)
(* first one is the genesis block and the last one the recorded tip.                 *)
THEOREM NodeStorageContiguous == Spec => []StorageContiguous
<1>1. IInv => StorageContiguous
    BY DEF IInv
<1> QED
    BY <1>1, NodeInductive, PTL

(* A block ValidateAndApplyBlock returned true for is never lost *)
THEOREM NodeAcknowledgedSurvives == Spec => []AcknowledgedSurvives
<1>1. IInv => AcknowledgedSurvives
    BY DEF IInv
<1> QED
    BY <1>1, NodeInductive, PTL

(* No step changes a stored block or moves the stored height by more than one *)
LEMMA StepGrows ==
    ASSUME IInv, Next, Undisturbed'
    PROVE  /\ disk'.height \in {disk.height, disk.height + 1}
           /\ \A h \in 1 .. disk.height : disk'.blocks[h] = disk.blocks[h]
<1>0. /\ disk.height \in Nat /\ chain.height \in Nat /\ job \in JobType
      /\ DOMAIN disk = DOMAIN EmptyDisk
    BY DEF IInv, TypeOK, JobType
<1>1. Undisturbed
    BY DEF Next, OpenStores, GenesisTip, ReplayBlock, Started, Crash, Stop, Receive, Connect, Apply,
           Store, Tip, SaveUtxo, Finish, SubmitTransaction, Undisturbed
<1>2. CASE OpenStores
    <2>1. CASE disk.height >= 1
        BY <1>0, <1>2, <2>1 DEF OpenStores
    <2>2. CASE ~(disk.height >= 1)
        BY <1>0, <1>2, <2>2, StoreBlockStores DEF OpenStores
    <2> QED
        BY <2>1, <2>2
<1>3. CASE GenesisTip
    BY <1>0, <1>1, <1>3 DEF GenesisTip, UpdateChainTip, EmptyDisk, IInv, PhaseMatchesDisk
<1>4. CASE Stop
    BY <1>0, <1>4 DEF Stop, SaveUTXOSet, EmptyDisk
<1>5. ASSUME NEW th \in Thread, At(th, "store") \/ At(th, "tip")
      PROVE  chain.height = disk.height + 1
    BY <1>1, <1>5 DEF At, IInv, ChainMatchesDisk, Ahead, AheadIn
<1>6. ASSUME NEW th \in Thread, Store(th)
      PROVE  /\ disk'.height = disk.height
             /\ \A h \in 1 .. disk.height : disk'.blocks[h] = disk.blocks[h]
    <2>1. chain.height = disk.height + 1
        BY <1>5, <1>6 DEF Store
    <2>2. disk'.height = disk.height /\ disk'.blocks = Put(disk.blocks, chain.height, job[th].block)
        BY <1>0, <1>6, StoreBlockStores DEF Store, StoredHeight
    <2>3. 1 .. disk.height \subseteq DOMAIN disk.blocks
        BY <1>1 DEF IInv, StorageContiguous
    <2> QED
        BY <1>0, <2>1, <2>2, <2>3 DEF Put
<1>7. ASSUME NEW th \in Thread, Tip(th)
      PROVE  disk'.height = disk.height + 1 /\ disk'.blocks = disk.blocks
    <2>1. chain.height = disk.height + 1
        BY <1>5, <1>7 DEF Tip
    <2>2. job[th].height = chain.height
        BY <1>1, <1>7 DEF Tip, At, IInv, JobMatchesDisk
    <2> QED
        BY <1>0, <1>7, <2>1, <2>2 DEF Tip, UpdateChainTip, EmptyDisk
<1>8. ASSUME NEW th \in Thread, SaveUtxo(th)
      PROVE  disk'.height = disk.height /\ disk'.blocks = disk.blocks
    BY <1>0, <1>8 DEF SaveUtxo, SaveUTXOSet, EmptyDisk
(* The other actions leave the stores alone *)
<1>9. ASSUME UNCHANGED disk
      PROVE  disk'.height = disk.height /\ disk'.blocks = disk.blocks
    BY <1>9
<1>10. ASSUME NEW th \in Thread,
              (\E b \in Block : Receive(th, b)) \/ Connect(th) \/ Apply(th) \/ Finish(th)
       PROVE  UNCHANGED disk
    BY <1>10 DEF Receive, Connect, Apply, Finish
<1>11. ASSUME ReplayBlock \/ Started \/ Crash \/ \E t \in Tx : SubmitTransaction(t)
       PROVE  UNCHANGED disk
    BY <1>11 DEF ReplayBlock, Started, Crash, SubmitTransaction
<1> QED
    BY <1>2, <1>3, <1>4, <1>6, <1>7, <1>8, <1>9, <1>10, <1>11 DEF Next

(* The stored chain is only ever extended by one block *)
THEOREM NodeStoredChainGrows == Spec => StoredChainGrows
<1>1. IInv /\ [Next]_vars =>
        [Undisturbed' =>
             /\ disk'.height \in {disk.height, disk.height + 1}
             /\ \A h \in 1 .. disk.height : disk'.blocks[h] = disk.blocks[h]]_vars
    BY StepGrows
<1> QED
    BY <1>1, NodeInductive, PTL DEF Spec, StoredChainGrows

-----------------------------------------------------------------------------
(* What a restart rebuilds.  Of the loop of Node::Start only its turns are used *)

(* The loop after n turns: a list of what it has after each *)
IsReplay(g, d, n) ==
    g = [h \in 0 .. n |-> IF h = 0 THEN [ok |-> TRUE, chain |-> EmptyChain] ELSE ReplayStep(d, g[h - 1], h)]

(* There is such a list, however many turns *)
LEMMA ReplayExists ==
    ASSUME NEW d, NEW N \in Nat
    PROVE  \E g : IsReplay(g, d, N)
<1> DEFINE T == {m \in 0 .. N : \E g : IsReplay(g, d, m)}
<1>1. 0 \in T
    <2> DEFINE g == [n \in 0 .. 0 |-> [ok |-> TRUE, chain |-> EmptyChain]]
    <2>1. g = [h \in 0 .. 0 |-> IF h = 0 THEN [ok |-> TRUE, chain |-> EmptyChain] ELSE ReplayStep(d, g[h - 1], h)]
        OBVIOUS
    <2> HIDE DEF g
    <2>2. IsReplay(g, d, 0)
        BY <2>1 DEF IsReplay
    <2> QED
        BY <2>2
<1>2. ASSUME NEW m \in 1 .. N, m - 1 \in T PROVE m \in T
    <2>1. PICK g : IsReplay(g, d, m - 1)
        BY <1>2
    <2> DEFINE w == [n \in 0 .. m |-> IF n = m THEN ReplayStep(d, g[m - 1], m) ELSE g[n]]
    <2>2. ASSUME NEW n \in 0 .. m
          PROVE  w[n] = IF n = 0 THEN [ok |-> TRUE, chain |-> EmptyChain] ELSE ReplayStep(d, w[n - 1], n)
        <3>1. CASE n = m
            BY <3>1
        <3>2. CASE n # m
            <4>1. n \in 0 .. m - 1 /\ w[n] = g[n]
                BY <3>2
            <4>2. n # 0 => w[n - 1] = g[n - 1]
                BY <3>2
            <4>3. g[n] = IF n = 0 THEN [ok |-> TRUE, chain |-> EmptyChain] ELSE ReplayStep(d, g[n - 1], n)
                BY <2>1, <4>1 DEF IsReplay
            <4> QED
                BY <4>1, <4>2, <4>3
        <3> QED
            BY <3>1, <3>2
    <2>3. IsReplay(w, d, m)
        BY <2>2 DEF IsReplay
    <2> HIDE DEF w
    <2> QED
        BY <2>3
<1>3. 0 .. N \subseteq T
    <2> HIDE DEF T
    <2> QED
        BY <1>1, <1>2, CountUp
<1> QED
    BY <1>3

(* Lists of the same stores agree as far as both go *)
LEMMA ReplaysAgree ==
    ASSUME NEW d, NEW N \in Nat, NEW M \in Nat, N <= M, NEW f, NEW g, IsReplay(f, d, N), IsReplay(g, d, M)
    PROVE  f[N] = g[N]
<1> DEFINE T == {n \in 0 .. N : f[n] = g[n]}
<1>1. /\ f[0] = [ok |-> TRUE, chain |-> EmptyChain] /\ g[0] = [ok |-> TRUE, chain |-> EmptyChain]
      /\ \A n \in 1 .. N : f[n] = ReplayStep(d, f[n - 1], n)
      /\ \A n \in 1 .. N : g[n] = ReplayStep(d, g[n - 1], n)
    <2>1. ASSUME NEW w, NEW K \in Nat, IsReplay(w, d, K)
          PROVE  /\ w[0] = [ok |-> TRUE, chain |-> EmptyChain]
                 /\ \A n \in 1 .. K : w[n] = ReplayStep(d, w[n - 1], n)
        <3>1. \A n \in 0 .. K : w[n] = IF n = 0 THEN [ok |-> TRUE, chain |-> EmptyChain]
                                      ELSE ReplayStep(d, w[n - 1], n)
            BY <2>1 DEF IsReplay
        <3>2. w[0] = [ok |-> TRUE, chain |-> EmptyChain]
            <4>1. 0 \in 0 .. K
                OBVIOUS
            <4>2. w[0] = IF 0 = 0 THEN [ok |-> TRUE, chain |-> EmptyChain] ELSE ReplayStep(d, w[0 - 1], 0)
                BY ONLY <3>1, <4>1, Zenon
            <4> QED
                BY <4>2
        <3>3. ASSUME NEW n \in 1 .. K PROVE w[n] = ReplayStep(d, w[n - 1], n)
            <4>1. n \in 0 .. K /\ n # 0
                OBVIOUS
            <4> QED
                BY <3>1, <4>1
        <3> QED
            BY <3>2, <3>3
    <2>2. \A n \in 1 .. N : n \in 1 .. M
        OBVIOUS
    <2> QED
        BY <2>1, <2>2
<1>2. 0 \in T
    BY <1>1
<1>3. ASSUME NEW n \in 1 .. N, n - 1 \in T PROVE n \in T
    <2>1. f[n - 1] = g[n - 1] /\ n \in 0 .. N
        BY <1>3
    <2>2. f[n] = g[n]
        BY <1>1, <2>1
    <2> QED
        BY <2>1, <2>2
<1>4. 0 .. N \subseteq T
    <2> HIDE DEF T
    <2> QED
        BY <1>2, <1>3, CountUp
<1> QED
    BY <1>4

(* ReplayedTo is the last entry of the list *)
LEMMA ReplayIsList ==
    ASSUME NEW d, NEW N \in Nat
    PROVE  \E g : IsReplay(g, d, N) /\ ReplayedTo(d, N) = g[N]
<1> DEFINE g == CHOOSE g : IsReplay(g, d, N)
<1>1. IsReplay(g, d, N)
    <2>1. \E f : IsReplay(f, d, N)
        BY ReplayExists
    <2> QED
        BY <2>1, Zenon
<1>2. ReplayedTo(d, N) = g[N]
    BY DEF ReplayedTo, IsReplay
<1> HIDE DEF g
<1> QED
    BY <1>1, <1>2

(* The replay begins with a new chain and goes on one stored block at a time *)
LEMMA ReplayTurns ==
    ASSUME NEW d
    PROVE  /\ ReplayedTo(d, 0) = [ok |-> TRUE, chain |-> EmptyChain]
           /\ \A n \in Nat : ReplayedTo(d, n + 1) = ReplayStep(d, ReplayedTo(d, n), n + 1)
<1>1. ReplayedTo(d, 0) = [ok |-> TRUE, chain |-> EmptyChain]
    <2>1. PICK g : IsReplay(g, d, 0) /\ ReplayedTo(d, 0) = g[0]
        BY ReplayIsList
    <2>2. g[0] = [ok |-> TRUE, chain |-> EmptyChain]
        BY <2>1 DEF IsReplay
    <2> QED
        BY <2>1, <2>2
<1>2. ASSUME NEW n \in Nat PROVE ReplayedTo(d, n + 1) = ReplayStep(d, ReplayedTo(d, n), n + 1)
    <2>1. PICK f : IsReplay(f, d, n) /\ ReplayedTo(d, n) = f[n]
        BY ReplayIsList
    <2>2. PICK g : IsReplay(g, d, n + 1) /\ ReplayedTo(d, n + 1) = g[n + 1]
        <3>1. n + 1 \in Nat
            OBVIOUS
        <3> QED
            BY <3>1, ReplayIsList
    <2>3. f[n] = g[n]
        <3>1. n + 1 \in Nat /\ n <= n + 1
            OBVIOUS
        <3> QED
            BY <2>1, <2>2, <3>1, ReplaysAgree
    <2>4. g[n + 1] = ReplayStep(d, g[n], n + 1)
        <3>1. n + 1 \in 0 .. n + 1 /\ n + 1 # 0 /\ (n + 1) - 1 = n
            OBVIOUS
        <3>2. g[n + 1] = ReplayStep(d, g[(n + 1) - 1], n + 1)
            BY <2>2, <3>1 DEF IsReplay
        <3> QED
            BY <3>1, <3>2
    <2> QED
        BY <2>1, <2>2, <2>3, <2>4
<1> QED
    BY <1>1, <1>2

(* Two stores that hold the same blocks up to a height *)
SameBelow(d, e, n) ==
    \A k \in 1 .. n : (k \in DOMAIN d.blocks <=> k \in DOMAIN e.blocks) /\ d.blocks[k] = e.blocks[k]

(* The replay up to a height looks at the blocks up to it only *)
LEMMA ReplayLooksBelow ==
    ASSUME NEW d, NEW e, NEW N \in Nat, SameBelow(d, e, N)
    PROVE  \A k \in 0 .. N : ReplayedTo(d, k) = ReplayedTo(e, k)
<1> DEFINE T == {k \in 0 .. N : ReplayedTo(d, k) = ReplayedTo(e, k)}
<1>1. 0 \in T
    <2>1. ReplayedTo(d, 0) = ReplayedTo(e, 0)
        BY ReplayTurns
    <2> QED
        BY <2>1
<1>2. ASSUME NEW n \in 1 .. N, n - 1 \in T PROVE n \in T
    <2>1. /\ n - 1 \in Nat /\ (n - 1) + 1 = n /\ ReplayedTo(d, n - 1) = ReplayedTo(e, n - 1)
          /\ (n \in DOMAIN d.blocks <=> n \in DOMAIN e.blocks) /\ d.blocks[n] = e.blocks[n]
        BY <1>2 DEF SameBelow
    <2>2. /\ ReplayedTo(d, n) = ReplayStep(d, ReplayedTo(d, n - 1), n)
          /\ ReplayedTo(e, n) = ReplayStep(e, ReplayedTo(e, n - 1), n)
        <3>1. /\ ReplayedTo(d, (n - 1) + 1) = ReplayStep(d, ReplayedTo(d, n - 1), (n - 1) + 1)
              /\ ReplayedTo(e, (n - 1) + 1) = ReplayStep(e, ReplayedTo(e, n - 1), (n - 1) + 1)
            BY <2>1, ReplayTurns
        <3> QED
            BY <2>1, <3>1
    <2>3. ReplayStep(d, ReplayedTo(d, n - 1), n) = ReplayStep(e, ReplayedTo(e, n - 1), n)
        BY <2>1 DEF ReplayStep
    <2> QED
        BY <2>2, <2>3
<1>3. 0 .. N \subseteq T
    <2> HIDE DEF T
    <2> QED
        BY <1>1, <1>2, CountUp
<1> QED
    BY <1>3

(* The stored blocks up to a height connect and give this chain *)
Connects(d, n)    == \A k \in 0 .. n : ReplayedTo(d, k).ok
Rebuilds(d, n, c) == Connects(d, n) /\ ReplayedTo(d, n) = [ok |-> TRUE, chain |-> c]

(* ... which is the same in stores with the same blocks up to it *)
LEMMA RebuildsBelow ==
    ASSUME NEW d, NEW e, NEW n \in Nat, SameBelow(d, e, n)
    PROVE  /\ Connects(d, n) => Connects(e, n)
           /\ \A c : Rebuilds(d, n, c) => Rebuilds(e, n, c)
<1>1. \A k \in 0 .. n : ReplayedTo(d, k) = ReplayedTo(e, k)
    BY ReplayLooksBelow
<1>2. ReplayedTo(d, n) = ReplayedTo(e, n)
    BY <1>1
<1> QED
    BY <1>1, <1>2 DEF Connects, Rebuilds

(* No block is needed for the empty chain *)
LEMMA RebuildsNone ==
    ASSUME NEW d
    PROVE  Rebuilds(d, 0, EmptyChain)
<1>1. ReplayedTo(d, 0) = [ok |-> TRUE, chain |-> EmptyChain]
    BY ReplayTurns
<1> QED
    BY <1>1 DEF Rebuilds, Connects

(* One more block that connects *)
LEMMA RebuildsNext ==
    ASSUME NEW d, NEW n \in Nat, NEW c, Rebuilds(d, n, c), n + 1 \in DOMAIN d.blocks,
           ConnectBlock(c, d.blocks[n + 1]).ok
    PROVE  Rebuilds(d, n + 1, ConnectBlock(c, d.blocks[n + 1]).chain)
<1> DEFINE r == ConnectBlock(c, d.blocks[n + 1])
<1>1. ReplayedTo(d, n + 1) = ReplayStep(d, [ok |-> TRUE, chain |-> c], n + 1)
    BY ReplayTurns DEF Rebuilds
<1>2. ReplayStep(d, [ok |-> TRUE, chain |-> c], n + 1) = [ok |-> r.ok, chain |-> r.chain]
    BY DEF ReplayStep
<1>3. r.ok = TRUE
    BY DEF ConnectBlock
<1> HIDE DEF r
<1>4. ReplayedTo(d, n + 1) = [ok |-> TRUE, chain |-> r.chain]
    BY <1>1, <1>2, <1>3
<1>5. \A k \in 0 .. n + 1 : ReplayedTo(d, k).ok
    BY <1>4 DEF Rebuilds, Connects
<1> QED
    BY <1>4, <1>5 DEF Rebuilds, Connects, r

-----------------------------------------------------------------------------
(* The chain in memory and the replay of the disk *)

AtWork == {"apply", "store", "tip"}

(* What a thread connected that is not yet below the stored height *)
Rebuilt(d, c, j) ==
    IF AheadIn(j)
    THEN \A th \in Thread : j[th].step \in AtWork =>
            \E below : /\ Rebuilds(d, d.height, below)
                       /\ ConnectBlock(below, j[th].block).ok
                       /\ ConnectBlock(below, j[th].block).chain = c
    ELSE Rebuilds(d, d.height, c)

Outputs(utxo) == [p \in DOMAIN utxo |-> utxo[p].output]
Saved(d)      == \E c : Rebuilds(d, d.height, c) /\ d.utxo = Outputs(c.utxo)

GenesisConnects == ConnectBlock(EmptyChain, Genesis).ok

(* A node starts new, replays what is stored, and has in memory what a replay gives *)
MemoryIsRebuilt ==
    /\ phase \in {"down", "stopped", "genesis"} => chain = EmptyChain
    /\ phase = "replay" => Rebuilds(disk, chain.height, chain)
    /\ phase = "up" /\ taint = {} => Rebuilt(disk, chain, job)
    /\ phase = "stopped" /\ taint = {} => Saved(disk)
    /\ GenesisConnects => /\ taint = {} => Connects(disk, disk.height)
                          /\ phase = "refused" => taint # {}

(* With a genesis block that does not connect, a node ends at the replay of that block, every time *)
NeverStarts ==
    ~GenesisConnects =>
        /\ taint = {} /\ disk.height <= 1
        /\ phase \notin {"up", "stopped"}
        /\ phase \in {"replay", "refused"} => disk.height = 1
        /\ phase = "replay" => chain = EmptyChain

RInv == IInv /\ MemoryIsRebuilt /\ NeverStarts

(* The initial state has nothing stored and nothing in memory *)
LEMMA InitRebuilt == Init => MemoryIsRebuilt
<1> SUFFICES ASSUME Init PROVE MemoryIsRebuilt
    OBVIOUS
<1>1. phase = "down" /\ chain = EmptyChain /\ disk.height = 0
    BY DEF Init, EmptyDisk
<1>2. Connects(disk, 0)
    BY RebuildsNone DEF Rebuilds
<1> QED
    BY <1>1, <1>2 DEF MemoryIsRebuilt

(* With a thread ahead or without, the stored blocks connect *)
LEMMA RebuiltConnects ==
    ASSUME NEW d, NEW c, NEW j, Rebuilt(d, c, j)
    PROVE  Connects(d, d.height)
BY DEF Rebuilt, AheadIn, AtWork, Rebuilds

(* The actions of starting, stopping and dying *)
LEMMA StartStopRebuilt ==
    ASSUME RInv, OpenStores \/ GenesisTip \/ ReplayBlock \/ Started \/ Crash \/ Stop
    PROVE  MemoryIsRebuilt'
<1>0. /\ disk.height \in Nat /\ chain.height \in Nat
      /\ DOMAIN disk = DOMAIN EmptyDisk /\ DOMAIN chain = DOMAIN EmptyChain
    BY DEF RInv, IInv, TypeOK
<1>1. taint = {} => Undisturbed
    BY DEF Undisturbed
<1>2. CASE OpenStores
    <2>0. chain = EmptyChain /\ UNCHANGED <<chain, taint>> /\ phase' \in {"replay", "refused", "genesis"}
        BY <1>2 DEF OpenStores, RInv, MemoryIsRebuilt
    <2>1. CASE disk.height >= 1
        <3>1. phase' \in {"replay", "refused"} /\ disk' = disk
            BY <1>2, <2>1 DEF OpenStores
        <3>2. Rebuilds(disk, 0, EmptyChain) /\ EmptyChain.height = 0
            BY RebuildsNone DEF EmptyChain
        <3>3. taint = {} => phase' # "refused"
            <4> SUFFICES ASSUME taint = {} PROVE phase' # "refused"
                OBVIOUS
            <4>1. 1 \in DOMAIN disk.blocks /\ disk.blocks[1] = Genesis
                BY <1>0, <1>1, <2>1 DEF RInv, IInv, StorageContiguous
            <4> QED
                BY <1>2, <2>1, <4>1 DEF OpenStores, GetBlockByHeight
        <3> QED
            BY <2>0, <3>1, <3>2, <3>3 DEF RInv, MemoryIsRebuilt
    <2>2. CASE ~(disk.height >= 1)
        <3>1. phase' = "genesis" /\ disk'.height = 0
            BY <1>0, <1>2, <2>2, StoreBlockStores DEF OpenStores
        <3>2. Connects(disk', 0)
            BY RebuildsNone DEF Rebuilds
        <3> QED
            BY <2>0, <3>1, <3>2 DEF MemoryIsRebuilt
    <2> QED
        BY <2>1, <2>2
<1>3. CASE GenesisTip
    <2>1. /\ chain = EmptyChain /\ UNCHANGED <<chain, taint>> /\ phase' = "replay"
          /\ disk'.height = 1 /\ disk'.blocks = disk.blocks
        BY <1>0, <1>3 DEF GenesisTip, UpdateChainTip, EmptyDisk, RInv, MemoryIsRebuilt
    <2>2. Rebuilds(disk', 0, EmptyChain) /\ EmptyChain.height = 0
        BY RebuildsNone DEF EmptyChain
    <2>3. GenesisConnects /\ taint = {} => Connects(disk', 1)
        <3> SUFFICES ASSUME GenesisConnects, taint = {} PROVE Connects(disk', 1)
            OBVIOUS
        <3>1. 0 + 1 \in DOMAIN disk'.blocks /\ disk'.blocks[0 + 1] = Genesis
            BY <1>1, <1>3, <2>1 DEF GenesisTip, RInv, IInv, PhaseMatchesDisk
        <3>2. Rebuilds(disk', 0 + 1, ConnectBlock(EmptyChain, disk'.blocks[0 + 1]).chain)
            BY <2>2, <3>1, RebuildsNext DEF GenesisConnects
        <3> QED
            BY <3>2 DEF Rebuilds
    <2> QED
        BY <2>1, <2>2, <2>3 DEF MemoryIsRebuilt
<1>4. CASE ReplayBlock
    <2> DEFINE h == chain.height
               r == ReplayStep(disk, [ok |-> TRUE, chain |-> chain], h + 1)
    <2>1. /\ phase = "replay" /\ h < disk.height /\ chain' = r.chain /\ UNCHANGED <<disk, taint>>
          /\ phase' = IF r.ok THEN "replay" ELSE "refused"
        BY <1>4 DEF ReplayBlock, LastReplayed
    <2>2. Rebuilds(disk, h, chain)
        BY <2>1 DEF RInv, MemoryIsRebuilt
    <2>3. ReplayedTo(disk, h + 1) = r
        BY <1>0, <2>2, ReplayTurns DEF Rebuilds
    <2>4. r.ok => Rebuilds(disk, chain'.height, chain')
        <3> SUFFICES ASSUME r.ok PROVE Rebuilds(disk, chain'.height, chain')
            OBVIOUS
        <3>1. h + 1 \in DOMAIN disk.blocks
            BY DEF ReplayStep
        <3>2. r = [ok |-> ConnectBlock(chain, disk.blocks[h + 1]).ok, chain |-> ConnectBlock(chain, disk.blocks[h + 1]).chain]
            BY <3>1 DEF ReplayStep
        <3>3. ConnectBlock(chain, disk.blocks[h + 1]).ok /\ chain' = ConnectBlock(chain, disk.blocks[h + 1]).chain
            BY <2>1, <3>2
        <3>4. chain'.height = h + 1
            BY <1>0, <3>3, ConnectBlockMoves
        <3> QED
            BY <1>0, <2>2, <3>1, <3>3, <3>4, RebuildsNext
    <2>5. GenesisConnects /\ taint = {} => r.ok
        <3> SUFFICES ASSUME GenesisConnects, taint = {} PROVE r.ok
            OBVIOUS
        <3>1. Connects(disk, disk.height)
            BY DEF RInv, MemoryIsRebuilt
        <3>2. h + 1 \in 0 .. disk.height
            BY <1>0, <2>1
        <3> QED
            BY <2>3, <3>1, <3>2 DEF Connects
    <2> HIDE DEF r
    <2>6. GenesisConnects /\ taint = {} => Connects(disk, disk.height)
        BY DEF RInv, MemoryIsRebuilt
    <2> QED
        BY <2>1, <2>4, <2>5, <2>6 DEF MemoryIsRebuilt
<1>5. CASE Started
    <2>1. /\ phase = "replay" /\ phase' = "up" /\ chain.height >= disk.height
          /\ taint' = taint \ {"residue"} /\ UNCHANGED <<disk, chain, job>>
        BY <1>5 DEF Started, LastReplayed
    <2>2. Rebuilds(disk, chain.height, chain)
        BY <2>1 DEF RInv, MemoryIsRebuilt
    <2>3. taint' = {} => chain.height = disk.height
        BY <1>0, <2>1 DEF RInv, IInv, PhaseMatchesDisk, Undisturbed
    <2>4. ~AheadIn(job)
        BY <2>1 DEF RInv, IInv, PhaseMatchesDisk, AllIdle, AheadIn
    <2>5. taint' = {} => Rebuilt(disk, chain, job) /\ Connects(disk, disk.height)
        BY <2>2, <2>3, <2>4 DEF Rebuilt, Rebuilds
    <2> QED
        BY <2>1, <2>5 DEF MemoryIsRebuilt
<1>6. CASE Crash
    <2>1. phase' = "down" /\ chain' = EmptyChain /\ UNCHANGED <<disk, taint>>
        BY <1>6 DEF Crash, ProcessEnds
    <2> QED
        BY <2>1 DEF RInv, MemoryIsRebuilt
<1>7. CASE Stop
    <2>1. /\ phase = "up" /\ AllIdle /\ phase' = "stopped" /\ chain' = EmptyChain /\ UNCHANGED taint
          /\ disk'.height = disk.height /\ disk'.blocks = disk.blocks /\ disk'.utxo = Outputs(chain.utxo)
        BY <1>0, <1>7 DEF Stop, ProcessEnds, SaveUTXOSet, EmptyDisk, Outputs
    <2>2. ~AheadIn(job)
        BY <2>1 DEF AllIdle, AheadIn
    <2>3. SameBelow(disk, disk', disk.height)
        BY <2>1 DEF SameBelow
    <2>4. taint = {} => Rebuilds(disk, disk.height, chain)
        BY <2>1, <2>2 DEF RInv, MemoryIsRebuilt, Rebuilt
    <2>5. taint = {} => Rebuilds(disk', disk'.height, chain)
        BY <1>0, <2>1, <2>3, <2>4, RebuildsBelow
    <2>6. taint = {} => Saved(disk') /\ Connects(disk', disk'.height)
        BY <2>1, <2>5 DEF Saved, Rebuilds
    <2> QED
        BY <2>1, <2>6 DEF MemoryIsRebuilt
<1> QED
    BY <1>2, <1>3, <1>4, <1>5, <1>6, <1>7

(* A thread at work, alone: it has connected a block to what is stored, or nothing is ahead *)
LEMMA RebuiltAlone ==
    ASSUME NEW d, NEW c, NEW j, NEW th \in Thread, \A u \in Thread \ {th} : j[u].step = "idle"
    PROVE  Rebuilt(d, c, j) <=>
              IF j[th].step \in AtWork
              THEN \E below : /\ Rebuilds(d, d.height, below)
                              /\ ConnectBlock(below, j[th].block).ok
                              /\ ConnectBlock(below, j[th].block).chain = c
              ELSE Rebuilds(d, d.height, c)
<1>1. AheadIn(j) <=> j[th].step \in AtWork
    BY WriterAlone DEF AtWork
<1>2. \A u \in Thread : j[u].step \in AtWork => u = th
    BY DEF AtWork
<1> QED
    BY <1>1, <1>2 DEF Rebuilt

(* The steps of ValidateAndApplyBlock: whatever a thread has done so far, the stored blocks give the *)
(* chain in memory, or the one below the block that it has connected                                *)
LEMMA WriterRebuilt ==
    ASSUME NEW th \in Thread, RInv,
           (\E b \in Block : Receive(th, b)) \/ Connect(th) \/ Apply(th) \/ Store(th)
             \/ Tip(th) \/ SaveUtxo(th) \/ Finish(th)
    PROVE  MemoryIsRebuilt'
<1>0. /\ disk.height \in Nat /\ chain.height \in Nat /\ job \in JobType
      /\ DOMAIN disk = DOMAIN EmptyDisk /\ DOMAIN chain = DOMAIN EmptyChain
    BY DEF RInv, IInv, TypeOK, JobType
<1>1. /\ phase = "up" /\ phase' = "up" /\ taint \subseteq taint'
      /\ \A u \in Thread \ {th} : job'[u] = job[u]
    BY <1>0, GotoMoves, IdleMoves
       DEF Receive, Connect, Apply, Store, Tip, SaveUtxo, Finish, At, JobType, Steps
<1>2. ASSUME taint' = {} => Rebuilt(disk', chain', job') PROVE MemoryIsRebuilt'
    <2>1. taint' = {} => Connects(disk', disk'.height)
        BY <1>2, RebuiltConnects
    <2> QED
        BY <1>1, <1>2, <2>1 DEF MemoryIsRebuilt
<1> SUFFICES ASSUME taint' = {} PROVE Rebuilt(disk', chain', job')
    BY <1>2
<1>3. taint = {} /\ Undisturbed /\ Undisturbed'
    BY <1>1 DEF Undisturbed
<1>4. \A u \in Thread \ {th} : job[u].step = "idle" /\ job'[u].step = "idle"
    <2>1. CASE \E b \in Block : Receive(th, b)
        BY <1>1, <1>3, <2>1 DEF Receive, AllIdle
    <2>2. CASE job[th].step # "idle"
        BY <1>1, <1>3, <2>2 DEF RInv, IInv, OneWriter
    <2> QED
        BY <2>1, <2>2 DEF Connect, Apply, Store, Tip, SaveUtxo, Finish, At
<1>5. Rebuilt(disk, chain, job)
    BY <1>1, <1>3 DEF RInv, MemoryIsRebuilt
(* What thread th has, before the step and after it *)
<1>6. IF job[th].step \in AtWork
      THEN \E below : /\ Rebuilds(disk, disk.height, below)
                      /\ ConnectBlock(below, job[th].block).ok
                      /\ ConnectBlock(below, job[th].block).chain = chain
      ELSE Rebuilds(disk, disk.height, chain)
    BY <1>4, <1>5, RebuiltAlone
<1>7. ASSUME IF job'[th].step \in AtWork
             THEN \E below : /\ Rebuilds(disk', disk'.height, below)
                             /\ ConnectBlock(below, job'[th].block).ok
                             /\ ConnectBlock(below, job'[th].block).chain = chain'
             ELSE Rebuilds(disk', disk'.height, chain')
      PROVE  Rebuilt(disk', chain', job')
    BY <1>4, <1>7, RebuiltAlone
<1>8. job[th].step \in AtWork => chain.height = disk.height + 1
    <2>1. Ahead <=> job[th].step \in AtWork
        BY <1>4, WriterAlone DEF Ahead, AtWork
    <2> QED
        BY <1>1, <1>3, <2>1 DEF RInv, IInv, ChainMatchesDisk
<1>9. CASE \E b \in Block : Receive(th, b)
    <2>1. /\ job[th].step = "idle" /\ job'[th].step = "connect" /\ UNCHANGED <<chain, disk>>
        BY <1>0, <1>9 DEF Receive, Idle, JobType
    <2> QED
        BY <1>6, <1>7, <2>1 DEF AtWork
<1>10. CASE Connect(th)
    <2> DEFINE r == ConnectBlock(chain, job[th].block)
    <2>1. job[th].step = "connect" /\ chain' = r.chain /\ UNCHANGED disk
        BY <1>10 DEF Connect, At
    <2>2. Rebuilds(disk, disk.height, chain)
        BY <1>6, <2>1 DEF AtWork
    <2>3. CASE r.ok
        <3>1. job'[th].step = "apply" /\ job'[th].block = job[th].block
            BY <1>0, <1>10, <2>3, GotoMoves DEF Connect, Steps
        <3> QED
            BY <1>7, <2>1, <2>2, <2>3, <3>1 DEF AtWork
    <2>4. CASE ~r.ok
        <3>1. job'[th].step = "idle" /\ chain' = chain
            BY <1>0, <1>10, <2>4, IdleMoves DEF Connect
        <3> QED
            BY <1>7, <2>1, <2>2, <3>1 DEF AtWork
    <2> QED
        BY <2>3, <2>4
<1>11. CASE Apply(th)
    <2>1. /\ job[th].step = "apply" /\ job'[th].step = "store" /\ job'[th].block = job[th].block
          /\ UNCHANGED <<chain, disk>>
        BY <1>0, <1>11, GotoMoves DEF Apply, At, Steps
    <2> QED
        BY <1>6, <1>7, <2>1 DEF AtWork
<1>12. CASE Store(th)
    <2>1. /\ job[th].step = "store" /\ job'[th].step = "tip" /\ job'[th].block = job[th].block
          /\ UNCHANGED chain
        BY <1>0, <1>12 DEF Store, StoredHeight, At, JobType
    <2>2. disk'.height = disk.height /\ disk'.blocks = Put(disk.blocks, chain.height, job[th].block)
        BY <1>0, <1>12, StoreBlockStores DEF Store, StoredHeight
    <2>3. chain.height = disk.height + 1
        BY <1>8, <2>1 DEF AtWork
    <2>4. SameBelow(disk, disk', disk.height)
        <3>1. 1 .. disk.height \subseteq DOMAIN disk.blocks
            BY <1>3 DEF RInv, IInv, StorageContiguous
        <3> QED
            BY <1>0, <2>2, <2>3, <3>1 DEF SameBelow, Put
    <2>5. \A c : Rebuilds(disk, disk.height, c) => Rebuilds(disk', disk'.height, c)
        BY <1>0, <2>2, <2>4, RebuildsBelow
    <2> QED
        BY <1>6, <1>7, <2>1, <2>5 DEF AtWork
<1>13. CASE Tip(th)
    <2>1. job[th].step = "tip" /\ job'[th].step = "utxo" /\ UNCHANGED chain
        BY <1>0, <1>13, GotoMoves DEF Tip, At, Steps
    <2>2. /\ job[th].height = chain.height /\ job[th].height \in DOMAIN disk.blocks
          /\ disk.blocks[job[th].height] = job[th].block
        BY <1>3, <2>1 DEF RInv, IInv, JobMatchesDisk
    <2>3. disk'.height = job[th].height /\ disk'.blocks = disk.blocks
        BY <1>0, <1>13 DEF Tip, UpdateChainTip, EmptyDisk
    <2>4. chain.height = disk.height + 1
        BY <1>8, <2>1 DEF AtWork
    <2>5. PICK below : /\ Rebuilds(disk, disk.height, below)
                       /\ ConnectBlock(below, job[th].block).ok
                       /\ ConnectBlock(below, job[th].block).chain = chain
        BY <1>6, <2>1 DEF AtWork
    <2>6. Rebuilds(disk', disk.height, below)
        <3>1. SameBelow(disk, disk', disk.height)
            BY <2>3 DEF SameBelow
        <3> QED
            BY <1>0, <2>5, <3>1, RebuildsBelow
    <2>7. Rebuilds(disk', disk'.height, chain)
        <3>1. /\ disk.height + 1 \in DOMAIN disk'.blocks
              /\ disk'.blocks[disk.height + 1] = job[th].block
              /\ disk'.height = disk.height + 1
            BY <2>2, <2>3, <2>4
        <3>2. ConnectBlock(below, disk'.blocks[disk.height + 1]).ok
            BY <2>5, <3>1
        <3>3. Rebuilds(disk', disk.height + 1, ConnectBlock(below, disk'.blocks[disk.height + 1]).chain)
            BY <1>0, <2>6, <3>1, <3>2, RebuildsNext
        <3> QED
            BY <2>5, <3>1, <3>3
    <2> QED
        BY <1>7, <2>1, <2>7 DEF AtWork
<1>14. CASE SaveUtxo(th)
    <2>1. job[th].step = "utxo" /\ job'[th].step = "pool" /\ UNCHANGED chain
        BY <1>0, <1>14, GotoMoves DEF SaveUtxo, At, Steps
    <2>2. disk'.height = disk.height /\ disk'.blocks = disk.blocks
        BY <1>0, <1>14 DEF SaveUtxo, SaveUTXOSet, EmptyDisk
    <2>3. Rebuilds(disk, disk.height, chain)
        BY <1>6, <2>1 DEF AtWork
    <2>4. SameBelow(disk, disk', disk.height)
        BY <2>2 DEF SameBelow
    <2>5. Rebuilds(disk', disk'.height, chain)
        BY <1>0, <2>2, <2>3, <2>4, RebuildsBelow
    <2> QED
        BY <1>7, <2>1, <2>5 DEF AtWork
<1>15. CASE Finish(th)
    <2>1. job[th].step = "pool" /\ job'[th].step = "idle" /\ UNCHANGED <<chain, disk>>
        BY <1>0, <1>15, IdleMoves DEF Finish, At
    <2> QED
        BY <1>6, <1>7, <2>1 DEF AtWork
<1> QED
    BY <1>9, <1>10, <1>11, <1>12, <1>13, <1>14, <1>15

(* Every step keeps memory what a replay of the disk gives *)
LEMMA StepRebuilt == RInv /\ [Next]_vars => MemoryIsRebuilt'
<1> SUFFICES ASSUME RInv, [Next]_vars PROVE MemoryIsRebuilt'
    OBVIOUS
<1>1. ASSUME UNCHANGED <<phase, chain, disk, job, taint>> PROVE MemoryIsRebuilt'
    BY <1>1 DEF RInv, MemoryIsRebuilt
<1>2. CASE UNCHANGED vars
    BY <1>1, <1>2 DEF vars
<1>3. ASSUME NEW t \in Tx, SubmitTransaction(t) PROVE MemoryIsRebuilt'
    BY <1>1, <1>3 DEF SubmitTransaction
<1> QED
    BY <1>2, <1>3, StartStopRebuilt, WriterRebuilt DEF Next

(* A genesis block that does not connect is refused by the first turn of the loop, before anything else *)
LEMMA StepNeverStarts == RInv /\ [Next]_vars => NeverStarts'
<1> SUFFICES ASSUME RInv, [Next]_vars, ~GenesisConnects PROVE NeverStarts'
    BY DEF NeverStarts
<1>1. /\ taint = {} /\ disk.height <= 1 /\ phase \notin {"up", "stopped"}
      /\ phase \in {"replay", "refused"} => disk.height = 1
      /\ phase = "replay" => chain = EmptyChain
    BY DEF RInv, NeverStarts
<1>2. /\ disk.height \in Nat /\ DOMAIN disk = DOMAIN EmptyDisk
      /\ EmptyChain.height = 0 /\ Undisturbed
    BY <1>1 DEF RInv, IInv, TypeOK, EmptyChain, Undisturbed
<1>3. CASE OpenStores
    <2>1. chain = EmptyChain /\ UNCHANGED <<chain, taint>> /\ phase' \in {"replay", "refused", "genesis"}
        BY <1>3 DEF OpenStores, RInv, MemoryIsRebuilt
    <2>2. CASE disk.height >= 1
        BY <1>1, <1>2, <1>3, <2>1, <2>2 DEF OpenStores, NeverStarts
    <2>3. CASE ~(disk.height >= 1)
        <3>1. phase' = "genesis" /\ disk'.height = 0
            BY <1>2, <1>3, <2>3, StoreBlockStores DEF OpenStores
        <3> QED
            BY <1>1, <2>1, <3>1 DEF NeverStarts
    <2> QED
        BY <2>2, <2>3
<1>4. CASE GenesisTip
    <2>1. chain' = EmptyChain /\ UNCHANGED taint /\ phase' = "replay" /\ disk'.height = 1
        BY <1>2, <1>4 DEF GenesisTip, UpdateChainTip, EmptyDisk, RInv, MemoryIsRebuilt
    <2> QED
        BY <1>1, <2>1 DEF NeverStarts
<1>5. CASE ReplayBlock
    <2> DEFINE r == ReplayStep(disk, [ok |-> TRUE, chain |-> chain], chain.height + 1)
    <2>1. /\ phase = "replay" /\ chain = EmptyChain /\ chain.height + 1 = 1 /\ disk.height = 1
          /\ phase' = IF r.ok THEN "replay" ELSE "refused"
          /\ UNCHANGED <<disk, taint>>
        BY <1>1, <1>2, <1>5 DEF ReplayBlock
    <2>2. 1 \in DOMAIN disk.blocks /\ disk.blocks[1] = Genesis
        BY <1>2, <2>1 DEF RInv, IInv, StorageContiguous
    <2>3. ~r.ok
        BY <2>1, <2>2 DEF ReplayStep, GenesisConnects
    <2> QED
        BY <1>1, <2>1, <2>3 DEF NeverStarts
<1>6. CASE Started
    BY <1>1, <1>2, <1>6 DEF Started, LastReplayed
<1>7. CASE Crash
    BY <1>1, <1>7 DEF Crash, ProcessEnds, NeverStarts
<1>8. CASE UNCHANGED vars
    BY <1>1, <1>8 DEF vars, NeverStarts
<1>9. ASSUME NEW th \in Thread,
             (\E b \in Block : Receive(th, b)) \/ Connect(th) \/ Apply(th) \/ Store(th)
               \/ Tip(th) \/ SaveUtxo(th) \/ Finish(th)
      PROVE  FALSE
    BY <1>1, <1>9 DEF Receive, Connect, Apply, Store, Tip, SaveUtxo, Finish, At
<1> QED
    BY <1>1, <1>3, <1>4, <1>5, <1>6, <1>7, <1>8, <1>9 DEF Next, Stop, SubmitTransaction

(* The strengthened invariant, with what relates memory and disk, is an invariant of the node *)
THEOREM NodeRebuilds == Spec => []RInv
<1>1. Init => RInv
    <2>1. Init => NeverStarts
        BY DEF Init, EmptyDisk, NeverStarts
    <2> QED
        BY <2>1, InitIInv, InitRebuilt DEF RInv
<1>2. RInv /\ [Next]_vars => RInv'
    BY StepIInv, StepRebuilt, StepNeverStarts DEF RInv
<1> QED
    BY <1>1, <1>2, PTL DEF Spec

(* What the invariant says of a node at rest and of one that stopped *)
LEMMA RebuiltAtRest ==
    RInv => RestartGivesSameChain /\ CleanStopSavesCoins /\ RefusedOnlyWhenTainted
<1> SUFFICES ASSUME RInv
             PROVE  RestartGivesSameChain /\ CleanStopSavesCoins /\ RefusedOnlyWhenTainted
    OBVIOUS
<1>1. RestartGivesSameChain
    <2> SUFFICES ASSUME phase = "up", AllIdle, taint = {} PROVE Replay(disk) = [ok |-> TRUE, chain |-> chain]
        BY DEF RestartGivesSameChain
    <2>1. ~AheadIn(job)
        BY DEF AllIdle, AheadIn
    <2>2. Rebuilds(disk, disk.height, chain)
        BY <2>1 DEF RInv, MemoryIsRebuilt, Rebuilt
    <2> QED
        BY <2>2 DEF Rebuilds, Replay
<1>2. CleanStopSavesCoins
    <2> SUFFICES ASSUME phase = "stopped", taint = {}
                 PROVE  disk.utxo = Outputs(Replay(disk).chain.utxo)
        BY DEF CleanStopSavesCoins, Outputs
    <2>1. PICK c : Rebuilds(disk, disk.height, c) /\ disk.utxo = Outputs(c.utxo)
        BY DEF RInv, MemoryIsRebuilt, Saved
    <2> QED
        BY <2>1 DEF Rebuilds, Replay
<1>3. RefusedOnlyWhenTainted
    BY DEF RInv, MemoryIsRebuilt, NeverStarts, GenesisConnects, RefusedOnlyWhenTainted
<1> QED
    BY <1>1, <1>2, <1>3

(* Whatever crashes and blocks came before: between blocks the chain in memory is the one the next start *)
(* builds from the stores, a clean stop leaves the coins of the stored chain, and a start is refused only *)
(* after a block that failed half way or a race, or because the genesis block does not connect.           *)
THEOREM NodeRestartIsFaithful == Spec => []RestartIsFaithful
<1>1. RInv => RestartIsFaithful
    BY RebuiltAtRest DEF RestartIsFaithful
<1> QED
    BY <1>1, NodeRebuilds, PTL
=============================================================================
