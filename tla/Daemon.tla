------------------------------- MODULE Daemon -------------------------------
(***************************************************************************)
(* clients/core-daemon/main.cpp: reading the configuration, starting the      *)
(* parts in order, the signal handler, which may run between any two steps of  *)
(* the start, and the end of the process with its destructors.  The wallet     *)
(* seed is the only file of its own; the core node is Node.                   *)
(*                                                                          *)
(* A line of the configuration is a key and a value; "bad" stands for every    *)
(* value its parser refuses, keys of no consequence here are left out.        *)
(***************************************************************************)
EXTENDS Integers, Sequences, SequencesExt

CONSTANTS
    ConfigLines,    \* the lines a file may have, <<key, value>>
    MaxLines,       \* bound on their number
    LayerOverride,  \* the values of --layer, "" for none
    DefaultPort,    \* network to GetNetworkParams(..).default_p2p_port
    MaxRuns         \* bound on the number of times the daemon is started

ASSUME DaemonAssumption == {MaxLines, MaxRuns} \subseteq Nat

VARIABLES
    config,         \* what Parse returned, with the override
    phase,          \* where Start is; "waiting" in WaitForShutdown
    daemonUp,       \* running_
    core,           \* core_node_: "none", "running", "stopped"
    mining,         \* whether it has mining threads
    rpcUp,          \* rpc_server_->IsRunning()
    seedFile,       \* wallet.seed: <<>>, <<0>> if short, <<n>>
    seed,           \* the seed in memory, 0 if none
    usedSeeds,      \* history: the seeds of all wallets so far
    runs            \* history: how often the daemon was started
daemonVars == <<config, phase, daemonUp, core, mining, rpcUp, seedFile, seed, usedSeeds, runs>>

-----------------------------------------------------------------------------
DefaultConfig == [port |-> DefaultPort["mainnet"], portSet |-> FALSE, rpc |-> TRUE, user |-> "",
                  password |-> "", open |-> FALSE, mining |-> FALSE, network |-> "mainnet", layer |-> "l1"]

(* A value that is not understood leaves what was there; names are checked at the end *)
ApplyLine(c, line) ==
    LET key == line[1]  value == line[2] IN
    CASE key \in {"network", "layer", "user", "password"} -> [c EXCEPT ![key] = value]
      [] value = "bad" -> c
      [] key = "port" -> [c EXCEPT !.port = value, !.portSet = TRUE]
      [] OTHER -> [c EXCEPT ![key] = (value = "yes")]

Normalised(c) ==
    LET network == IF c.network \in DOMAIN DefaultPort THEN c.network ELSE "mainnet" IN
    [c EXCEPT !.network = network,
              !.layer = IF @ \in {"l1", "l2", "l3"} THEN @ ELSE "l1",
              !.port = IF c.portSet THEN @ ELSE DefaultPort[network]]

Parse(lines) == Normalised(FoldLeft(ApplyLine, DefaultConfig, lines))

(* The override is not checked *)
Configs == {LET c == Parse(lines) IN IF o = "" THEN c ELSE [c EXCEPT !.layer = o] :
               lines \in UNION {[1 .. n -> ConfigLines] : n \in 0 .. MaxLines}, o \in LayerOverride}

InitDaemon ==
    /\ config \in Configs /\ phase = "seed" /\ daemonUp = FALSE /\ core = "none" /\ mining = FALSE
    /\ rpcUp = FALSE /\ seedFile = <<>> /\ seed = 0 /\ usedSeeds = {} /\ runs = 1

-----------------------------------------------------------------------------
(* LoadOrGenerateWalletSeed: a new seed is written into a file that is empty first *)
LoadSeed ==
    /\ phase = "seed"
    /\ IF seedFile = <<>> THEN seedFile' = <<0>> /\ phase' = "write" /\ UNCHANGED seed
       ELSE /\ seed' = seedFile[1] /\ phase' = IF seedFile = <<0>> THEN "failed" ELSE "core"
            /\ UNCHANGED seedFile
    /\ UNCHANGED <<config, daemonUp, core, mining, rpcUp, usedSeeds, runs>>

WriteSeed ==
    /\ phase = "write"
    /\ \/ seedFile' = <<runs>> /\ seed' = runs /\ phase' = "core"
       \/ phase' = "failed" /\ UNCHANGED <<seedFile, seed>>
    /\ UNCHANGED <<config, daemonUp, core, mining, rpcUp, usedSeeds, runs>>

(* The wallet is made, and core_node_->Start() *)
StartCore ==
    /\ phase = "core" /\ usedSeeds' = usedSeeds \cup {seed}
    /\ \/ core' = "running" /\ phase' = "attach"
       \/ core' = "stopped" /\ phase' = "failed"
    /\ UNCHANGED <<config, daemonUp, mining, rpcUp, seedFile, seed, runs>>

(* AttachWallet locks wallet_mutex_ twice when the node runs: Start goes no further, unless a *)
(* signal stopped the node before                                                            *)
Attach ==
    /\ phase = "attach" /\ phase' = IF core = "running" THEN "hung" ELSE "rpc"
    /\ UNCHANGED <<config, daemonUp, core, mining, rpcUp, seedFile, seed, usedSeeds, runs>>

(* Mutant: a user name is enough *)
MayServe_UserOnly == config.open \/ config.user # ""
MayServe == config.open \/ (config.user # "" /\ config.password # "")

StopCore == core' = (IF core = "running" THEN "stopped" ELSE core) /\ mining' = (core # "running" /\ mining)

(* Without credentials the server is refused; with them it may still fail to start *)
StartRpc ==
    /\ phase = "rpc"
    /\ \/ /\ config.rpc => MayServe
          /\ rpcUp' = config.rpc /\ phase' = "mining" /\ UNCHANGED <<core, mining>>
       \/ config.rpc /\ StopCore /\ phase' = "failed" /\ UNCHANGED rpcUp
    /\ UNCHANGED <<config, daemonUp, seedFile, seed, usedSeeds, runs>>

(* Start returns FALSE for another layer and leaves the parts running, and stops them when no address *)
(* can be made; StartMining does not ask whether the node runs                                        *)
StartMining ==
    /\ phase = "mining"
    /\ \/ /\ config.mining => config.layer = "l1"
          /\ mining' = config.mining /\ daemonUp' = TRUE /\ phase' = "waiting" /\ UNCHANGED <<core, rpcUp>>
       \/ /\ config.mining /\ config.layer # "l1"
          /\ phase' = "failed" /\ UNCHANGED <<core, mining, daemonUp, rpcUp>>
       \/ /\ config.mining /\ config.layer = "l1"
          /\ phase' = "failed" /\ rpcUp' = FALSE /\ StopCore /\ UNCHANGED daemonUp
    /\ UNCHANGED <<config, seedFile, seed, usedSeeds, runs>>

(* The signal handler: Stop() on the thread that it interrupts *)
Signal ==
    /\ phase \notin {"ended", "aborted"}
    /\ daemonUp \/ core = "running" \/ rpcUp
    /\ daemonUp' = FALSE /\ rpcUp' = FALSE /\ StopCore
    /\ UNCHANGED <<config, phase, seedFile, seed, usedSeeds, runs>>

(* WaitForShutdown, or a failed Start, and the destructors: mining threads that StopMining did not *)
(* join end the process in std::terminate                                                          *)
Exit ==
    /\ phase = "failed" \/ (phase = "waiting" /\ (~daemonUp \/ core # "running"))
    /\ phase' = IF mining /\ core # "running" THEN "aborted" ELSE "ended"
    /\ daemonUp' = FALSE /\ rpcUp' = FALSE /\ core' = "none" /\ mining' = FALSE /\ seed' = 0
    /\ UNCHANGED <<config, seedFile, usedSeeds, runs>>

DaemonCrash ==
    /\ phase \notin {"ended", "aborted"} /\ phase' = "aborted"
    /\ daemonUp' = FALSE /\ rpcUp' = FALSE /\ core' = "none" /\ mining' = FALSE /\ seed' = 0
    /\ UNCHANGED <<config, seedFile, usedSeeds, runs>>

Rerun ==
    /\ phase \in {"ended", "aborted"} /\ runs < MaxRuns
    /\ runs' = runs + 1 /\ phase' = "seed"
    /\ UNCHANGED <<config, daemonUp, core, mining, rpcUp, seedFile, seed, usedSeeds>>

DaemonStep ==
    \/ LoadSeed \/ WriteSeed \/ StartCore \/ Attach \/ StartRpc \/ StartMining
    \/ Signal \/ Exit \/ DaemonCrash \/ Rerun

-----------------------------------------------------------------------------
DaemonTypeOK ==
    /\ phase \in {"seed", "write", "core", "attach", "hung", "rpc", "mining", "waiting", "failed",
                  "ended", "aborted"}
    /\ seed \in 0 .. MaxRuns /\ runs \in 1 .. MaxRuns

(* Whatever the configuration says and wherever signals, failures and crashes fall: requests are  *)
(* served only with credentials or by explicit consent, all runs that get a wallet get the same     *)
(* one, another layer than l1 never mines, a running node is that of a start under way or waiting,  *)
(* and a port that was configured is the one used.                                                 *)
DaemonIsSafe ==
    /\ rpcUp => config.open \/ (config.user # "" /\ config.password # "")
    /\ \A s, t \in usedSeeds \cup ({seed} \ {0}) : s = t
    /\ mining => config.layer = "l1"
    /\ daemonUp => phase = "waiting" /\ core # "none" /\ seed # 0
    /\ config.portSet \/ config.port = DefaultPort[config.network]
=============================================================================
