--------------------------------- MODULE Rpc ---------------------------------
(***************************************************************************)
(* rpc/rpc_server.cpp and rate_limiter.h: the JSON-RPC server over a node and  *)
(* a wallet.  The HTTP library runs requests in worker threads; a request is  *)
(* admitted by the rate limiter, authorised, parsed, dispatched and answered.  *)
(*                                                                          *)
(* A request is its method, whether it carries the right credentials, whether *)
(* its parameters pass the handler's own checks, and an argument.  Handlers    *)
(* that only read are operators: what they answer in the present state.        *)
(***************************************************************************)
EXTENDS Integers, Sequences, SequencesExt, FiniteSets, FiniteSetsExt, Functions, TLC

CONSTANTS
    Ip,             \* client addresses
    Worker,         \* threads of the HTTP server
    Requests,       \* [method, authorized, good, arg]
    MaxRequestCount, Window, BurstSize, BurstTime,  \* max_requests_, window_duration_, burst_size_, 100 ms
    IdleTime,       \* one hour, after which Cleanup forgets a client
    Fee,            \* 1000
    CoinAmounts,    \* the wallet's first coins, a sequence of amounts of TALANTON
    Holders,        \* the accounts the balance registry knows
    MaxAdmitted, MaxFlood, MaxClock, MaxTip          \* bounds on behaviours

ASSUME RpcAssumption ==
    /\ {MaxRequestCount, Window, BurstSize, BurstTime, IdleTime, Fee, MaxAdmitted, MaxFlood, MaxClock, MaxTip}
          \subseteq Nat
    /\ IdleTime >= Window

VARIABLES
    attached,       \* the components that were set, and "auth" if credentials were configured
    listening,      \* running_
    clients,        \* clients_: address to [count, start, last]
    admitted,       \* history: <<address, time>> of what the limiter let through
    work,           \* what each worker is doing
    answers,        \* history: number of the request to the request and its reply
    effects,        \* history: numbers of the requests that changed something
    commitments,    \* commitment_log_, as numbers of requests
    wallet,         \* [coins, addresses]: unspent coins in order, <<name, amount>>
    memPool,        \* transactions of the node: number of the request to the coins it spends
    tip, storedTip, \* the heights of the chain and of the block storage
    chainSpent,     \* the coins that the blocks of the chain spend
    applying,       \* the block in ProcessBlock: what is left to do, and the pooled transactions it has
    nodeUp,         \* whether the node runs
    rpcClock
chainSide == <<tip, storedTip, chainSpent, applying, nodeUp>>
rpcVars == <<attached, listening, clients, admitted, work, answers, effects, commitments, wallet,
             memPool, chainSide, rpcClock>>

Free        == [stage |-> "free"]
NoneApplied == [next |-> "none", txs |-> {}, coins |-> {}]
Parts == {"node", "wallet", "voting", "treasury", "ostracism", "registry"}
Refused == [ok |-> FALSE]
Answer(v) == [ok |-> TRUE, value |-> v]

(* A map with x set to v *)
Updated(f, x, v) == [y \in DOMAIN f \cup {x} |-> IF y = x THEN v ELSE f[y]]

GovernanceChanges == {"governance/submit_proposal", "governance/vote", "governance/tally", "governance/execute"}
GovernanceReads   == {"governance/get_proposal", "governance/list_proposals"}

(* The components whose absence a handler reports *)
Needs(method) ==
    CASE method \in {"getinfo", "chain/info", "getblockcount", "getblock", "sendrawtransaction", "stop"} -> {"node"}
      [] method \in {"getbalance", "getnewaddress"} -> {"wallet"}
      [] method = "sendtoaddress" -> {"node", "wallet"}
      [] method \in GovernanceChanges \cup GovernanceReads -> {"voting"}
      [] method = "treasury/balance" -> {"treasury"}
      [] method \in {"ostracism/nominate", "ostracism/list_bans"} -> {"ostracism"}
      [] OTHER -> {}

(* The methods that look at no parameters, or take any *)
Unchecked == {"getinfo", "chain/info", "getblockcount", "stop", "treasury/balance", "commitments/submit",
              "commitments/list", "chain/monetary_spec", "staking/deposit", "staking/stake",
              "staking/unstake", "evm/deploy", "governance/list_proposals"}

InitRpc ==
    /\ attached \in {Parts, Parts \cup {"auth"}, {"node"}, {}} /\ listening = TRUE
    /\ clients = [i \in {} |-> 0] /\ admitted = <<>>
    /\ work = [w \in Worker |-> Free] /\ answers = [r \in {} |-> 0] /\ effects = {} /\ commitments = <<>>
    /\ wallet = [coins |-> [i \in DOMAIN CoinAmounts |-> <<i, CoinAmounts[i]>>], addresses |-> 0]
    /\ memPool = [r \in {} |-> 0] /\ tip = 0 /\ storedTip = 0 /\ nodeUp = TRUE /\ rpcClock = 0
    /\ chainSpent = {} /\ applying = NoneApplied

-----------------------------------------------------------------------------
(* RateLimiter::AllowRequest under its mutex: the window is renewed first, also for a request *)
(* that is then refused                                                                       *)
Fresh(info) ==
    IF rpcClock - info.start >= Window THEN [info EXCEPT !.count = 0, !.start = rpcClock] ELSE info
(* Mutant: one request more than the limit *)
Limited_Above(info) ==
    \/ info.count > MaxRequestCount
    \/ rpcClock - info.last < BurstTime /\ info.count >= BurstSize
Limited(info) ==
    \/ info.count >= MaxRequestCount
    \/ rpcClock - info.last < BurstTime /\ info.count >= BurstSize

Entry(ip) == IF ip \in DOMAIN clients THEN clients[ip]
             ELSE [count |-> 0, start |-> rpcClock, last |-> rpcClock]

Arrive(w, ip, req, most) ==
    LET info == Fresh(Entry(ip)) IN
    /\ listening /\ work[w] = Free /\ Len(admitted) < most
    /\ IF Limited(info)
       THEN clients' = Updated(clients, ip, info) /\ UNCHANGED <<work, admitted>>
       ELSE /\ clients' = Updated(clients, ip, [info EXCEPT !.count = @ + 1, !.last = rpcClock])
            /\ work' = [work EXCEPT ![w] = [stage |-> "parse", req |-> req, number |-> Len(admitted) + 1]]
            /\ admitted' = Append(admitted, <<ip, rpcClock>>)
    /\ UNCHANGED <<attached, listening, answers, effects, commitments, wallet, memPool, chainSide, rpcClock>>

(* Cleanup forgets the clients that have been idle; ResetIP any client, and the history with it *)
Forget(gone, reset) ==
    /\ gone # {} /\ gone \subseteq DOMAIN clients
    /\ clients' = Restrict(clients, DOMAIN clients \ gone)
    /\ admitted' = [k \in DOMAIN admitted |->
                      IF reset /\ admitted[k][1] \in gone THEN <<admitted[k][1], -1>> ELSE admitted[k]]
    /\ UNCHANGED <<attached, listening, work, answers, effects, commitments, wallet, memPool,
                   chainSide, rpcClock>>
Cleanup == Forget({i \in DOMAIN clients : rpcClock - clients[i].last > IdleTime}, FALSE)
ResetIP(ip) == Forget({ip}, TRUE)

-----------------------------------------------------------------------------
Reply(w, a) ==
    /\ answers' = Updated(answers, work[w].number, [req |-> work[w].req, reply |-> a])
    /\ work' = [work EXCEPT ![w] = Free]
Effect(w) == effects' = effects \cup {work[w].number}

(* Authentication, parsing, the method table, and the checks at the start of every handler *)
Dispatchable(req) ==
    /\ "auth" \in attached => req.authorized
    /\ req.method # "unknown" /\ Needs(req.method) \subseteq attached
    /\ req.good \/ req.method \in Unchecked

HandleGetBlockCount == Answer(tip)
GetBlockReply(h) == IF h > tip \/ h > storedTip \/ ~nodeUp THEN Refused ELSE Answer(h)

(* The height beside what the node says of its peers and of its synchronisation, which Network has *)
HandleGetInfo == {Answer([blocks |-> tip, connections |-> n, syncing |-> s]) : n \in 0..1, s \in BOOLEAN}

(* The same with a constant, the hash of the monetary rules *)
HandleChainInfo == {Answer([spec |-> "hash"] @@ a.value) : a \in HandleGetInfo}

(* Without a name the balance of TALANTON; a name that is none of the three is an error *)
AssetNames == {"TALANTON", "DRACHMA", "OBOLOS"}
BalanceOf(name) == IF name = "TALANTON" THEN FoldLeft(LAMBDA n, c : n + c[2], 0, wallet.coins) ELSE 0
HandleGetBalance(name) ==
    LET meant == IF name = "" THEN "TALANTON" ELSE name
    IN  IF meant \in AssetNames THEN Answer([asset |-> meant, balance |-> BalanceOf(meant)]) ELSE Refused

(* An account the registry knows has the power 1, whatever it holds; without the registry every address *)
(* has it as soon as the server's own wallet holds anything                                              *)
HandleStakingGetPower(account) ==
    IF "registry" \in attached THEN Answer([power |-> IF account \in Holders THEN 1 ELSE 0, total |-> Cardinality(Holders)])
    ELSE Answer([power |-> IF "wallet" \in attached /\ \E name \in AssetNames : BalanceOf(name) > 0 THEN 1 ELSE 0,
                 total |-> 0])

(* Deposits and deployments are answered as accepted and go nowhere; staking is refused *)
PlainReplies(method) ==
    CASE method \in {"staking/deposit", "evm/deploy"} -> {Answer("accepted")}
      [] method = "chain/monetary_spec" -> {Answer("hash")}
      [] method \in {"staking/stake", "staking/unstake"} -> {Refused}
      [] method = "commitments/list" -> {Answer(commitments)}

(* A run of the machine changes nothing here and ends in whatever way; one that reverts is no error *)
HandleEvmCall == {Answer(status) : status \in {"ok", "revert"}}
HandleEstimateGas == {Answer(0)}

(* What VotingSystem, Treasury and Ostracism have is in the modules of the governance; a proposal may be unknown *)
GovernanceReplies(method) ==
    IF method = "governance/get_proposal" THEN {Refused, Answer(0)} ELSE {Answer(0)}
TreasuryReply == Answer(0)
BansReply == Answer(0)

Reading(req) ==
    CASE req.method = "getblockcount" -> {HandleGetBlockCount}
      [] req.method = "getblock" -> {GetBlockReply(req.arg)}
      [] req.method = "getinfo" -> HandleGetInfo
      [] req.method = "chain/info" -> HandleChainInfo
      [] req.method = "getbalance" -> {HandleGetBalance(req.arg)}
      [] req.method = "staking/get_power" -> {HandleStakingGetPower(req.arg)}
      [] req.method = "evm/call" -> HandleEvmCall
      [] req.method = "evm/estimate_gas" -> HandleEstimateGas
      [] req.method \in GovernanceReads -> GovernanceReplies(req.method)
      [] req.method = "treasury/balance" -> {TreasuryReply}
      [] req.method = "ostracism/list_bans" -> {BansReply}
      [] req.method \in {"staking/deposit", "evm/deploy", "chain/monetary_spec", "staking/stake",
                         "staking/unstake", "commitments/list"} -> PlainReplies(req.method)
      [] OTHER -> {}

Refuse(w) ==
    /\ work[w].stage = "parse" /\ ~Dispatchable(work[w].req)
    /\ Reply(w, Refused)
    /\ UNCHANGED <<attached, listening, clients, admitted, effects, commitments, wallet, memPool,
                   chainSide, rpcClock>>

Read(w) ==
    /\ work[w].stage = "parse" /\ Dispatchable(work[w].req)
    /\ \E a \in Reading(work[w].req) : Reply(w, a)
    /\ UNCHANGED <<attached, listening, clients, admitted, effects, commitments, wallet, memPool,
                   chainSide, rpcClock>>

(* Passed on, whatever becomes of it there: to VotingSystem and Ostracism, node_->Stop(), the wallet. *)
(* The answer is no error and tells in a field whether it was taken                                   *)
PassOn(w, methods, values) ==
    /\ work[w].stage = "parse" /\ Dispatchable(work[w].req) /\ work[w].req.method \in methods
    /\ \E v \in values : Reply(w, Answer(v))
    /\ Effect(w)
    /\ UNCHANGED <<attached, listening, clients, admitted, commitments, memPool, tip, storedTip,
                   chainSpent, applying, rpcClock>>

(* A proposal is always taken; the answer is its fresh number, which the request's stands for *)
SubmitProposal(w) ==
    PassOn(w, {"governance/submit_proposal"}, {work[w].number}) /\ UNCHANGED <<wallet, nodeUp>>
ChangeGovernance(w) ==
    PassOn(w, GovernanceChanges \ {"governance/submit_proposal"}, BOOLEAN) /\ UNCHANGED <<wallet, nodeUp>>
Nominate(w) == PassOn(w, {"ostracism/nominate"}, BOOLEAN) /\ UNCHANGED <<wallet, nodeUp>>
StopNode(w) == PassOn(w, {"stop"}, {0}) /\ nodeUp' = FALSE /\ UNCHANGED wallet
NewAddress(w) ==
    PassOn(w, {"getnewaddress"}, {0}) /\ wallet' = [wallet EXCEPT !.addresses = @ + 1] /\ UNCHANGED nodeUp

(* HandleCommitmentSubmit: the entry under commitment_mutex_, the count it reports after it *)
AddCommitment(w) ==
    /\ work[w].stage = "parse" /\ Dispatchable(work[w].req) /\ work[w].req.method = "commitments/submit"
    /\ commitments' = Append(commitments, work[w].number) /\ Effect(w)
    /\ work' = [work EXCEPT ![w].stage = "count"]
    /\ UNCHANGED <<attached, listening, clients, admitted, answers, wallet, memPool, chainSide, rpcClock>>
CountCommitments(w) ==
    /\ work[w].stage = "count" /\ Reply(w, Answer(Len(commitments)))
    /\ UNCHANGED <<attached, listening, clients, admitted, effects, commitments, wallet, memPool,
                   chainSide, rpcClock>>

-----------------------------------------------------------------------------
(* Wallet::CreateTransaction: the first coins that are enough, which stay in the list *)
Selected(amount) ==
    LET Sum(n) == FoldLeft(LAMBDA s, c : s + c[2], 0, SubSeq(wallet.coins, 1, n))
        enough == {n \in 1 .. Len(wallet.coins) : Sum(n) >= amount}
    IN  IF enough = {} THEN {} ELSE
        {wallet.coins[i][1] : i \in 1 .. Min(enough)}

(* What is to be given to Node::SubmitTransaction *)
HandToNode(w, coins) ==
    work' = [work EXCEPT ![w] = [stage |-> "submit", req |-> @.req, number |-> @.number, coins |-> coins]]

CreatePayment(w) ==
    LET coins == Selected(work[w].req.arg + Fee) IN
    /\ work[w].stage = "parse" /\ Dispatchable(work[w].req) /\ work[w].req.method = "sendtoaddress"
    /\ IF coins = {} THEN Reply(w, Refused) /\ UNCHANGED wallet
       ELSE /\ HandToNode(w, coins) /\ UNCHANGED answers
            /\ wallet' = [wallet EXCEPT !.addresses = @ + 1]
    /\ UNCHANGED <<attached, listening, clients, admitted, effects, commitments, memPool, chainSide, rpcClock>>
ReadRaw(w) ==
    /\ work[w].stage = "parse" /\ Dispatchable(work[w].req) /\ work[w].req.method = "sendrawtransaction"
    /\ HandToNode(w, {work[w].req.arg})
    /\ UNCHANGED <<attached, listening, clients, admitted, answers, effects, commitments, wallet,
                   memPool, chainSide, rpcClock>>

Pooled == UNION Range(memPool)
(* Mutant: the result of SubmitTransaction is not looked at *)
SubmitReply_Ignored(coins) == TRUE
(* SubmitTransaction: the coins are in the chain and no pooled transaction spends them *)
SubmitReply(coins) == coins \subseteq DOMAIN CoinAmounts \ (chainSpent \cup Pooled)

Submit(w) ==
    /\ work[w].stage = "submit"
    /\ IF SubmitReply(work[w].coins)
       THEN /\ memPool' = Updated(memPool, work[w].number, work[w].coins)
            /\ Reply(w, Answer(0)) /\ Effect(w)
       ELSE Reply(w, Refused) /\ UNCHANGED <<memPool, effects>>
    /\ UNCHANGED <<attached, listening, clients, admitted, commitments, wallet, chainSide, rpcClock>>

-----------------------------------------------------------------------------
(* Node::ProcessBlock of a block with some pooled transactions: it is connected, stored, its  *)
(* transactions leave the memory pool, and the wallet is told.  Requests come between any two. *)
ConnectBlockOf(rs) ==
    /\ nodeUp /\ applying = NoneApplied /\ tip < MaxTip /\ rs \subseteq DOMAIN memPool
    /\ tip' = tip + 1
    /\ chainSpent' = chainSpent \cup UNION {memPool[r] : r \in rs}
    /\ applying' = [next |-> "store", txs |-> rs, coins |-> UNION {memPool[r] : r \in rs}]
    /\ UNCHANGED <<wallet, memPool, storedTip>>
StoreBlockOf ==
    /\ applying.next = "store" /\ applying' = [applying EXCEPT !.next = "pool"]
    /\ storedTip' = tip
    /\ UNCHANGED <<wallet, memPool, tip, chainSpent>>
UnpoolBlock ==
    /\ applying.next = "pool" /\ applying' = [applying EXCEPT !.next = "wallet"]
    /\ memPool' = Restrict(memPool, DOMAIN memPool \ applying.txs)
    /\ UNCHANGED <<wallet, tip, storedTip, chainSpent>>
TellWallet ==
    /\ applying.next = "wallet" /\ applying' = NoneApplied
    /\ wallet' = [wallet EXCEPT !.coins = SelectSeq(@, LAMBDA c : c[1] \notin applying.coins)]
    /\ UNCHANGED <<memPool, tip, storedTip, chainSpent>>
ServerChain ==
    /\ StoreBlockOf \/ UnpoolBlock \/ TellWallet \/ \E rs \in SUBSET DOMAIN memPool : ConnectBlockOf(rs)
    /\ UNCHANGED <<attached, listening, clients, admitted, work, answers, effects, commitments, nodeUp, rpcClock>>

PassTime ==
    /\ rpcClock < MaxClock /\ rpcClock' = rpcClock + 1
    /\ UNCHANGED <<attached, listening, clients, admitted, work, answers, effects, commitments,
                   wallet, memPool, chainSide>>

(* Stop waits for the workers; Start makes a new HTTP server over the same limiter and methods *)
StartStop ==
    /\ \A w \in Worker : work[w] = Free
    /\ listening' = ~listening
    /\ UNCHANGED <<attached, clients, admitted, work, answers, effects, commitments, wallet,
                   memPool, chainSide, rpcClock>>

Serve(w) ==
    \/ Refuse(w) \/ Read(w) \/ AddCommitment(w) \/ CountCommitments(w)
    \/ SubmitProposal(w) \/ ChangeGovernance(w) \/ Nominate(w) \/ StopNode(w) \/ NewAddress(w)
    \/ CreatePayment(w) \/ ReadRaw(w) \/ Submit(w)

LimiterStep(ips, reqs) ==
    \/ \E w \in Worker, ip \in ips, req \in reqs : Arrive(w, ip, req, MaxFlood)
    \/ \E w \in Worker : Serve(w)
    \/ \E ip \in ips : ResetIP(ip)
    \/ Cleanup \/ PassTime \/ StartStop

(* Every request from an address of its own *)
RequestStep(reqs) ==
    \/ \E w \in Worker, ip \in Ip, req \in reqs :
          ip = Len(admitted) + 1 /\ Arrive(w, ip, req, MaxAdmitted)
    \/ \E w \in Worker : Serve(w)
    \/ ServerChain

RpcSpec == InitRpc /\ [][LimiterStep(Ip, Requests) \/ RequestStep(Requests)]_rpcVars

-----------------------------------------------------------------------------
RpcTypeOK ==
    /\ Len(admitted) <= MaxAdmitted + MaxFlood /\ storedTip \in 0 .. tip /\ tip \in 0 .. MaxTip
    /\ \A i \in DOMAIN clients : clients[i].count \in 0 .. MaxRequestCount

(* A client whose entry was not reset is not served more than twice the limit in any stretch as  *)
(* long as a window, wherever the windows of the limiter began and whatever it forgets; a request *)
(* answered with an error changed no pool, list or vote, also one refused half way (a refused        *)
(* payment leaves its fresh change address in the wallet); and what is answered as accepted         *)
(* spends no coin of another accepted payment and counts at least its own commitment.               *)
RequestsAreSound ==
    /\ \A ip \in Ip, t \in 0 .. rpcClock :
          Cardinality({k \in DOMAIN admitted : admitted[k][1] = ip /\ admitted[k][2] \in t .. t + Window - 1})
             <= 2 * MaxRequestCount
    /\ \A r \in DOMAIN answers : ~answers[r].reply.ok => r \notin effects
    /\ \A r, s \in DOMAIN memPool : r # s => memPool[r] \cap memPool[s] = {}
    /\ \A r \in DOMAIN answers :
          answers[r].reply.ok /\ answers[r].req.method = "commitments/submit" =>
             \E n \in DOMAIN commitments : commitments[n] = r /\ answers[r].reply.value >= n
=============================================================================
