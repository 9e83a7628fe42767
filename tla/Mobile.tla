------------------------------- MODULE Mobile -------------------------------
(***************************************************************************)
(* tools/mobile_sdks/mobile_sdk.cpp: a client of the server in Rpc.  Every     *)
(* request may fail (no connection, a status that is not 2xx, an error or an  *)
(* unexpected reply), before or after the server acted on it.  Subscriptions  *)
(* are threads that poll; a call blocks its caller.                          *)
(*                                                                          *)
(* Below, SecureStorage over a file system: writing a file truncates it first, *)
(* so a crash, or a full disk, leaves it short.                               *)
(***************************************************************************)
EXTENDS Rpc

CONSTANTS
    Subscriber,     \* the subscriptions a client makes: "blocks" or an address
    TxsOf,          \* height to the transactions of the block, a sequence; some may occur twice
    MaxScan, MaxSeen,               \* kMaxTransactionScanBlocks, kMaxSeenTransactions
    StorageName, StorageData,      \* SecureStorage keys and data
    Thread,                         \* threads that use SecureStorage
    MaxStores, MaxCalls             \* bounds on behaviours

ASSUME MobileAssumption ==
    /\ {MaxScan, MaxSeen, MaxStores, MaxCalls} \subseteq Nat \ {0}
    /\ 1 .. MaxTip \subseteq DOMAIN TxsOf

VARIABLES
    clientUp,       \* running_
    subs,           \* subscriptions_: what each thread is doing
    delivered,      \* history: subscriber to the callbacks it had
    call,           \* the call under way
    calls           \* history: the number of calls, and the last result
mobileVars == <<clientUp, subs, delivered, call, calls>>

NotStarted == [stage |-> "none"]
InitMobile ==
    /\ clientUp = TRUE
    /\ subs = [s \in Subscriber |-> NotStarted] /\ delivered = [s \in Subscriber |-> <<>>]
    /\ call = NotStarted /\ calls = [count |-> 0, result |-> Refused]

(* HttpPost: an endpoint that cannot be resolved or connected to, or a request that cannot be sent, reaches *)
(* no server; after it, a reply that is empty, is no HTTP message or has another status than 2xx is an error *)
NotSent   == [acted |-> FALSE, answer |-> Refused]
Sent(a)   == [acted |-> TRUE, answer |-> a]
HttpPost(reply) == {NotSent, Sent(Refused), Sent(reply)}

(* RpcRequest: what became of the request; a body that is no JSON, or has no result, and one with an error are *)
(* errors for the caller alike                                                                               *)
RpcRequest(replies) == UNION {HttpPost(reply) : reply \in replies}
Heard(outcomes) == {o.answer : o \in outcomes}

(* The count arrives as a number, which is taken as it is *)
FetchBlockHeight == Heard(RpcRequest({HandleGetBlockCount}))
FetchBlockInfo(h) == Heard(RpcRequest({GetBlockReply(h)}))

-----------------------------------------------------------------------------
SubscribeTo(s) ==
    /\ clientUp /\ subs[s] = NotStarted
    /\ subs' = [subs EXCEPT ![s] = [stage |-> "first", last |-> 0, next |-> 0, upto |-> 0, seen |-> <<>>]]
    /\ UNCHANGED <<clientUp, delivered, call, calls>>

(* Without an answer a subscription starts at the first block *)
FirstHeight(s) ==
    /\ subs[s].stage = "first"
    /\ \E a \in FetchBlockHeight :
          subs' = [subs EXCEPT ![s].stage = "poll", ![s].last = IF a.ok THEN a.value ELSE 0]
    /\ UNCHANGED <<clientUp, delivered, call, calls>>

PollHeight(s) ==
    /\ subs[s].stage = "poll"
    /\ IF ~clientUp THEN subs' = [subs EXCEPT ![s].stage = "ended"] ELSE
       \E a \in FetchBlockHeight :
          /\ a.ok
          /\ subs' = [subs EXCEPT ![s].stage = "scan", ![s].next = subs[s].last + 1, ![s].upto = a.value]
    /\ UNCHANGED <<clientUp, delivered, call, calls>>

(* seen_order, whose members are seen_tx *)
Seen(seen, id) == IF Len(seen) = MaxSeen THEN Append(Tail(seen), id) ELSE Append(seen, id)

(* The transactions of a block that the subscription has not seen, and the window after them *)
Unseen(seen, txs, confirmations) ==
    FoldLeft(LAMBDA acc, id :
                IF Contains(acc.seen, id) THEN acc
                ELSE [seen |-> Seen(acc.seen, id),
                      entries |-> Append(acc.entries, [id |-> id, confirmations |-> confirmations])],
             [seen |-> seen, entries |-> <<>>], txs)

(* One iteration of the loop over the new heights: a block that was not fetched is passed over *)
ScanBlock(s) ==
    LET sub == subs[s]
        fresh == Unseen(sub.seen, TxsOf[sub.next], sub.upto - sub.next + 1)
    IN  /\ sub.stage = "scan" /\ sub.next <= sub.upto
        /\ \E a \in FetchBlockInfo(sub.next) :
              /\ delivered' = [delivered EXCEPT ![s] =
                    IF ~a.ok THEN @
                    ELSE IF s = "blocks" THEN Append(@, a.value) ELSE @ \o fresh.entries]
              /\ subs' = [subs EXCEPT ![s].next = @ + 1,
                                      ![s].seen = IF a.ok /\ s # "blocks" THEN fresh.seen ELSE @]
        /\ UNCHANGED <<clientUp, call, calls>>

EndScan(s) ==
    /\ subs[s].stage = "scan" /\ subs[s].next > subs[s].upto
    /\ subs' = [subs EXCEPT ![s].stage = "poll", ![s].last = subs[s].upto]
    /\ UNCHANGED <<clientUp, delivered, call, calls>>

(* ~Impl; the join waits for the threads, which look at running_ between scans only *)
Destroy ==
    /\ clientUp /\ clientUp' = FALSE
    /\ UNCHANGED <<subs, delivered, call, calls>>

-----------------------------------------------------------------------------
(* A call is begun, and ends with what its callback is given *)
Calling(kind, stage, wanted) ==
    [stage |-> stage, kind |-> kind, wanted |-> wanted, height |-> 0, current |-> 0,
     entries |-> <<>>, missed |-> FALSE, sent |-> 0]
MayCall == call = NotStarted /\ calls.count < MaxCalls
End(ended, result) ==
    /\ calls' = [count |-> IF call = NotStarted THEN calls.count + 1 ELSE calls.count, result |-> result @@ ended]
    /\ call' = NotStarted

(* GetTransaction and GetTransactionHistory walk down from the height; wanted is an id, or how  *)
(* many entries; no entries are no request, and neither is the history of some address            *)
Begin(kind, wanted) ==
    /\ MayCall
    /\ call' = Calling(kind, "height", wanted) /\ calls' = [calls EXCEPT !.count = @ + 1]
    /\ UNCHANGED <<clientUp, subs, delivered>>

(* The other calls check their arguments first; a call with wrong ones ends without a request *)
AnswerWithoutRequest(kind, answer) ==
    /\ MayCall /\ End(Calling(kind, "local", 0), answer)
    /\ UNCHANGED <<clientUp, subs, delivered>>

(* One request or, for GetBalance, one per asset *)
Assets == <<"TALANTON", "DRACHMA", "OBOLOS">>
BeginRequest(kind) ==
    /\ MayCall
    /\ call' = Calling(kind, "request", IF kind = "balance" THEN Len(Assets) ELSE 1)
    /\ calls' = [calls EXCEPT !.count = @ + 1]
    /\ UNCHANGED <<clientUp, subs, delivered>>
CallOf(kind, valid) == IF valid THEN BeginRequest(kind) ELSE AnswerWithoutRequest(kind, Refused)

(* An address, or a sender, is not supported: the node's wallet chooses *)
GetBalance(address) == CallOf("balance", address = "")
SendTransaction(from, fee, name) == CallOf("send", from = "" /\ fee = 0 /\ name \in ToSet(Assets))
CallContract(address) == CallOf("contract", address # "")
DeployContract(bytecode) == CallOf("deploy", bytecode # "")
EstimateGas(to) == CallOf("gas", to # "")
GetNetworkStatus == CallOf("status", TRUE)

(* What the server answers: a payment it makes or refuses; to a contract call and an estimate, whose parameters *)
(* are sent as an array where its handlers look into an object, an error                                      *)
ServerReplies(c) ==
    CASE c.kind = "balance" -> {HandleGetBalance(Assets[Len(Assets) - c.wanted + 1])}
      [] c.kind = "send" -> {Refused, Answer("txid")}
      [] c.kind \in {"contract", "gas"} -> {Refused}
      [] c.kind = "deploy" -> PlainReplies("evm/deploy")
      [] c.kind = "status" -> HandleGetInfo

(* Mutant: the figures that were there before a request failed are given *)
Failed_KeepsFigures(c) == IF c.kind = "balance" /\ c.entries # <<>> THEN Answer(0) ELSE Refused
Failed(c) == Refused

(* The request may be lost before the server acted on it, or its reply after; it is not repeated *)
SendRequest ==
    /\ call.stage = "request"
    /\ \E o \in RpcRequest(ServerReplies(call)) :
          LET sent == [call EXCEPT !.sent = IF o.acted THEN @ + 1 ELSE @]
              heard == IF call.kind = "balance" /\ o.answer.ok THEN [sent EXCEPT !.entries = Append(@, o.answer.value)] ELSE sent
          IN  IF ~o.answer.ok THEN End(heard, Failed(heard))
              ELSE IF call.wanted = 1 THEN End(heard, o.answer)
              ELSE call' = [heard EXCEPT !.wanted = @ - 1] /\ UNCHANGED calls
    /\ UNCHANGED <<clientUp, subs, delivered>>

CallHeight ==
    /\ call.stage = "height"
    /\ \E a \in FetchBlockHeight :
          IF a.ok THEN /\ call' = [call EXCEPT !.stage = "walk", !.height = a.value, !.current = a.value]
                       /\ UNCHANGED calls
          ELSE End(call, Refused)
    /\ UNCHANGED <<clientUp, subs, delivered>>

Complete == call.kind = "history" /\ Len(call.entries) >= call.wanted
WalkEnds == call.current = 0 \/ call.height - call.current >= MaxScan \/ Complete

EntriesOf(h) == [i \in DOMAIN TxsOf[h] |-> [id |-> TxsOf[h][i], confirmations |-> call.height - h + 1]]

(* A block that was not fetched, or no longer is there, is passed over *)
Walk ==
    /\ call.stage = "walk" /\ ~WalkEnds
    /\ \E a \in FetchBlockInfo(call.current) :
          LET here == IF a.ok THEN EntriesOf(call.current) ELSE <<>>
              hits == SelectSeq(here, LAMBDA e : e.id = call.wanted)
          IN  IF call.kind = "transaction" /\ hits # <<>>
              THEN End(call, Answer(hits[1].confirmations))
              ELSE /\ call' = [call EXCEPT
                         !.current = @ - 1,
                         !.entries = IF call.kind = "history"
                                     THEN SubSeq(@ \o here, 1, Min({Len(@ \o here), call.wanted})) ELSE @,
                         !.missed = @ \/ ~a.ok]
                   /\ UNCHANGED calls
    /\ UNCHANGED <<clientUp, subs, delivered>>

EndWalk ==
    /\ call.stage = "walk" /\ WalkEnds
    /\ End(call, IF call.kind = "history" THEN Answer(0) ELSE Refused)
    /\ UNCHANGED <<clientUp, subs, delivered>>

ClientStep ==
    \/ \E s \in Subscriber :
          SubscribeTo(s) \/ FirstHeight(s) \/ PollHeight(s) \/ ScanBlock(s) \/ EndScan(s)
    \/ Destroy

CallStep ==
    \/ \E id \in UNION {ToSet(TxsOf[h]) : h \in DOMAIN TxsOf} : Begin("transaction", id)
    \/ \E limit \in 1 .. 2 : Begin("history", limit)
    \/ \E text \in {"", "x"} : GetBalance(text) \/ CallContract(text) \/ DeployContract(text) \/ EstimateGas(text)
    \/ \E from \in {"", "x"}, fee \in 0..1, name \in {"TALANTON", "x"} : SendTransaction(from, fee, name)
    \/ GetNetworkStatus
    \/ AnswerWithoutRequest("history", Refused)
    \/ AnswerWithoutRequest("history", Answer(0))
    \/ CallHeight \/ Walk \/ EndWalk \/ SendRequest

-----------------------------------------------------------------------------
VARIABLES
    keyFile,        \* contents of the file of the storage key
    dataFiles,      \* name to the contents of its file: the key and the value
    storing,        \* what each thread is doing
    storageLock,    \* the holder of g_storage_mutex
    made,           \* history: how many operations began; numbers the keys
    damaged         \* history: whether a crash or a full disk left a file short
vaultVars == <<keyFile, dataFiles, storing, storageLock, made, damaged>>

NoFile == <<>>
Short == <<0>>
Whole(file) == file \notin {NoFile, Short}

InitVault ==
    /\ keyFile = NoFile /\ dataFiles = [n \in StorageName |-> NoFile]
    /\ storing = [t \in Thread |-> NotStarted] /\ storageLock = {}
    /\ made = 0 /\ damaged = FALSE

(* Store, or Retrieve if the value is 0 *)
BeginStorage(t, n, value) ==
    /\ storing[t] = NotStarted /\ made < MaxStores
    /\ storing' = [storing EXCEPT ![t] = [stage |-> "key", name |-> n, value |-> value, key |-> made + 1]]
    /\ made' = made + 1
    /\ UNCHANGED <<keyFile, dataFiles, storageLock, damaged>>

(* A thread enters a critical section only when no other is in one *)
Locking(t) == storageLock \subseteq {t}

(* LoadOrCreateStorageKey: the key that is there, a failure if its file is short, or a new one *)
LoadKey(t) ==
    /\ storing[t].stage = "key" /\ Locking(t)
    /\ IF keyFile = NoFile
       THEN /\ keyFile' = Short /\ storageLock' = {t}
            /\ storing' = [storing EXCEPT ![t].stage = "create"]
       ELSE /\ storing' = [storing EXCEPT ![t] =
                              IF keyFile = Short THEN NotStarted
                              ELSE [@ EXCEPT !.stage = "data", !.key = keyFile[1]]]
            /\ UNCHANGED <<keyFile, storageLock>>
    /\ UNCHANGED <<dataFiles, made, damaged>>

(* The result of a write is not looked at, here and below *)
WriteKey(t) ==
    /\ storing[t].stage = "create"
    /\ \E full \in BOOLEAN :
          /\ keyFile' = IF full THEN keyFile ELSE <<storing[t].key>>
          /\ damaged' = (damaged \/ full)
    /\ storageLock' = {} /\ storing' = [storing EXCEPT ![t].stage = "data"]
    /\ UNCHANGED <<dataFiles, made>>

OpenData(t) ==
    /\ storing[t].stage = "data" /\ storing[t].value # 0 /\ Locking(t)
    /\ dataFiles' = [dataFiles EXCEPT ![storing[t].name] = Short]
    /\ storageLock' = {t} /\ storing' = [storing EXCEPT ![t].stage = "write"]
    /\ UNCHANGED <<keyFile, made, damaged>>
WriteData(t) ==
    /\ storing[t].stage = "write"
    /\ \E full \in BOOLEAN :
          /\ dataFiles' = [dataFiles EXCEPT ![storing[t].name] =
                               IF full THEN @ ELSE <<storing[t].key, storing[t].value>>]
          /\ damaged' = (damaged \/ full)
    /\ storageLock' = {} /\ storing' = [storing EXCEPT ![t] = NotStarted]
    /\ UNCHANGED <<keyFile, made>>

(* Retrieve decrypts what it finds, or fails; it changes nothing *)
Retrieved(t) == LET file == dataFiles[storing[t].name] IN
                IF Whole(file) /\ file[1] = storing[t].key THEN file[2] ELSE 0
ReadData(t) ==
    /\ storing[t].stage = "data" /\ storing[t].value = 0 /\ Locking(t)
    /\ storing' = [storing EXCEPT ![t] = NotStarted]
    /\ UNCHANGED <<keyFile, dataFiles, storageLock, made, damaged>>

DeleteData(n) ==
    /\ storageLock = {} /\ dataFiles' = [dataFiles EXCEPT ![n] = NoFile]
    /\ UNCHANGED <<keyFile, storing, storageLock, made, damaged>>

VaultCrash ==
    /\ damaged' = (damaged \/ storageLock # {})
    /\ storing' = [t \in Thread |-> NotStarted] /\ storageLock' = {}
    /\ UNCHANGED <<keyFile, dataFiles, made>>

VaultStep ==
    \/ \E t \in Thread :
          \/ \E n \in StorageName, v \in StorageData \cup {0} : BeginStorage(t, n, v)
          \/ LoadKey(t) \/ WriteKey(t) \/ OpenData(t) \/ WriteData(t) \/ ReadData(t)
    \/ \E n \in StorageName : DeleteData(n)
    \/ VaultCrash

-----------------------------------------------------------------------------
MobileTypeOK ==
    /\ \A s \in Subscriber : subs[s] = NotStarted \/ Len(subs[s].seen) <= MaxSeen
    /\ calls.count \in 0 .. MaxCalls
    /\ Cardinality(storageLock) <= 1 /\ made \in 0 .. MaxStores

(* Whatever is lost and however the chain grows meanwhile, a subscriber hears of each block at *)
(* most once and in order, and of a transaction again only after MaxSeen others; what a call    *)
(* reports of a transaction is where it is; a transaction is reported missing only if a request  *)
(* failed, the walk was too long, or no block it passed holds it; a payment reported as sent was  *)
(* sent once, any other once or never; and a balance has the figure of every asset.              *)
ClientsAreToldTheTruth ==
    /\ "blocks" \in Subscriber =>
          \A i, j \in DOMAIN delivered["blocks"] : i < j => delivered["blocks"][i] < delivered["blocks"][j]
    /\ \A s \in Subscriber \ {"blocks"} : \A i, j \in DOMAIN delivered[s] :
          i < j /\ delivered[s][i].id = delivered[s][j].id => j - i > MaxSeen
    /\ LET r == calls.result IN
       "kind" \in DOMAIN r =>
          /\ r.ok /\ r.kind = "transaction" =>
                r.value \in 1 .. r.height /\ Contains(TxsOf[r.height - r.value + 1], r.wanted)
          /\ r.ok /\ r.kind = "balance" => [i \in DOMAIN r.entries |-> r.entries[i].asset] = Assets
          /\ r.kind # "balance" => r.sent <= 1
          /\ r.ok /\ r.kind \in {"send", "deploy"} => r.sent = 1
          /\ r.stage = "local" => r.sent = 0
          /\ r.ok /\ r.kind = "history" => \A e \in ToSet(r.entries) :
                Contains(TxsOf[r.height - e.confirmations + 1], e.id)
          /\ ~r.ok /\ r.kind = "transaction" /\ ~r.missed =>
                \A h \in 1 .. r.height : h > r.height - MaxScan => ~Contains(TxsOf[h], r.wanted)

(* There is one storage key, whoever needs it first: what is stored whole can be decrypted with  *)
(* it, through crashes and restarts, and as long as no write was cut off no file is short, so    *)
(* that a value that was stored is read back.                                                    *)
StoredCanBeRead ==
    /\ Whole(keyFile) => \A n \in StorageName : Whole(dataFiles[n]) => dataFiles[n][1] = keyFile[1]
    /\ ~damaged /\ storageLock = {} =>
          keyFile # Short /\ \A n \in StorageName : dataFiles[n] # Short
    /\ ~damaged => \A t \in Thread : storing[t].stage = "data" =>
          (Whole(dataFiles[storing[t].name]) => Retrieved(t) = dataFiles[storing[t].name][2])
=============================================================================
