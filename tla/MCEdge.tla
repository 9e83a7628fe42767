-------------------------------- MODULE MCEdge --------------------------------
(***************************************************************************)
(* What stands around the node: the JSON-RPC server with the mobile library     *)
(* that calls it, the daemon, hardware wallets, the mining threads, the targets, *)
(* validation, the encodings, amounts, settlement scripts, certificates and the enterprise   *)
(* mode.  Only the server and the mobile library share state: a behaviour        *)
(* exercises one part, its focus, and the others stay as they began.            *)
(***************************************************************************)
EXTENDS Mobile, Daemon, Firmware, Codec, Settlement, Certificates, Consortium,
        Miner, Texts, Ledgers, Validation, Anchoring

VARIABLE focus
clientSideVars == <<rpcVars, mobileVars, vaultVars, daemonVars, firmwareVars>>
workVars == <<difficultyVars, minerVars>>
bookVars == <<coinStoreVars, paymentVars, delegationVars, entries, identityVars, shardVars>>
formatVars == <<codecVars, unitVars, settlementVars, textVars>>
trustVars == <<certVars, consortiumVars>>
edgeVars == <<clientSideVars, formatVars, trustVars, workVars, bookVars, validationVars, anchorVars, focus>>

foci == {"limiter", "requests", "client", "call", "vault", "daemon", "firmware", "signing", "codec", "units",
         "escrow", "multisig", "certificates", "permission", "decision", "screening", "audit", "sla",
         "difficulty", "mining", "texts", "coins", "payments", "delegation", "identity", "shards", "memo",
         "validation", "anchoring"}

RequestOf(m, authorized, good, arg) == [method |-> m, authorized |-> authorized, good |-> good, arg |-> arg]
Request(m, authorized, good) == RequestOf(m, authorized, good, 1)
rpcRequests ==
    {Request(m, TRUE, TRUE) : m \in {"sendtoaddress", "sendrawtransaction", "commitments/submit",
                                     "getblock", "governance/submit_proposal", "governance/vote", "ostracism/nominate", "stop"}}
    \cup {Request("sendtoaddress", FALSE, TRUE), Request("getnewaddress", TRUE, FALSE),
          Request("getnewaddress", TRUE, TRUE)}
(* Those that meet others: the first request may be any, and be as slow as it likes beside them *)
laterRequests == {Request(m, TRUE, TRUE) : m \in {"sendtoaddress", "sendrawtransaction", "commitments/submit"}}
oneRequest == {Request("evm/deploy", TRUE, TRUE)}
coinAmounts == <<2, 3>>
txsOf == <<<<"a", "b">>, <<"c", "a">>, <<"b">>>>

configLines == {<<"port", "p">>, <<"network", "x">>, <<"network", "testnet">>, <<"layer", "l2">>, <<"user", "u">>,
                <<"password", "p">>, <<"open", "yes">>, <<"mining", "yes">>, <<"rpc", "no">>, <<"rpc", "bad">>}
defaultPort == [n \in {"mainnet", "testnet"} |-> IF n = "mainnet" THEN "main" ELSE "test"]

(* Vendor A has versions 1 to 3, one of them in the name of B and one malformed *)
FirmwareEntry(v, n, h, i, k) == [vendor |-> v, version |-> n, hash |-> h, image |-> i, signature |-> <<k, i>>]
databaseFiles == {<<FirmwareEntry("A", 1, -1, 1, "k"), FirmwareEntry("A", 2, -1, 2, "k")>>,
                  <<FirmwareEntry("A", 3, 2, 3, "l"), FirmwareEntry("B", 2, 3, 3, "k")>>,
                  <<FirmwareEntry("A", 0, 0, 1, "k"), FirmwareEntry("A", 2, 3, 3, "l")>>}
vendorKeySets == {<<"A", {"k"}>>, <<"A", {"k", "l"}>>, <<"B", {"k"}>>, <<"A", {}>>}
advisory == {<<"A", 2>>}

(* One digit, its base is 6: lists reach sizes of one and of three cells, strings their limits *)
limits == [agent |-> 4, inv |-> 4, addr |-> 3, headers |-> 2, reject |-> 3, tx |-> 2, block |-> 5, message |-> 3]
magic == <<1>>
MaxTwiceDamaged == 9     \* bound on the length of what is damaged twice
cellsOf(n) == [i \in 1 .. n |-> (i + 1) % 3]
times(n, x) == [i \in 1 .. n |-> x]
input(n) == [prevout |-> <<1, 0>>, script |-> cellsOf(n), sequence |-> <<2>>]
output(n) == [value |-> <<0, 1>>, script |-> cellsOf(n)]
transaction(m, n, s) ==
    [version |-> <<1>>, inputs |-> times(m, input(s)), outputs |-> times(n, output(s)), locktime |-> <<s>>]
header(n) == [previous |-> <<n>>, rest |-> <<2>>]
messageHeader(m, l, n) ==
    [magic |-> <<m>>, command |-> <<2>>, last |-> <<l>>, length |-> <<n>>, checksum |-> <<0>>]
batch(n) == [roots |-> <<1, 2>>, txs |-> times(n, <<3>>)]
samples ==
    {<<"version", [head |-> cellsOf(4), agent |-> cellsOf(n), height |-> <<2>>, relay |-> <<n>>]>> : n \in {0, 1}}
    \cup {<<"header", messageHeader(1, 2, 3)>>, <<"header", messageHeader(1, 0, 4)>>, <<"header", messageHeader(2, 0, 0)>>}
    \cup {<<"ping", [nonce |-> <<2>>]>>}
    \cup {<<"inv", times(n, [type |-> <<1>>, hash |-> <<2>>])>> : n \in {0, 3, 5}}
    \cup {<<"addr", times(n, [time |-> <<1>>, services |-> <<2>>, endpoint |-> <<0>>])>> : n \in {0, 2}}
    \cup {<<"getheaders", [version |-> <<1>>, locator |-> times(n, <<2>>), stop |-> <<0>>]>> : n \in {0, 2, 3}}
    \cup {<<"headers", times(n, header(1))>> : n \in {0, 1, 3}}
    \cup {<<"reject", [message |-> cellsOf(n), code |-> <<1>>, reason |-> <<>>, data |-> cellsOf(n)]>> : n \in {0, 3}}
    \cup {<<"tx", transaction(1, 1, 1)>>, <<"tx", transaction(0, 3, 0)>>}
    \cup {<<"block", [header |-> header(1), txs |-> [i \in 1 .. n |-> transaction(0, 0, i)]]>> : n \in {0, 3}}
    \cup {<<"output", output(n)>> : n \in {0, 2}}
    \cup {<<"batch", batch(2)>>}
    \cup {<<"proved", [id |-> <<1, 2>>, roots |-> <<1, 2>>, txs |-> times(n, <<3>>), proof |-> cellsOf(n),
                        inputs |-> <<>>, type |-> <<1>>, signature |-> <<2>>]>> : n \in {0, 2}}

(* Two keys that share their X, and another *)
policyKeys == {<<2, 1>>, <<3, 1>>, <<2, 2>>}

denom(n, d, i) == [numerator |-> n, denominator |-> d, decimals |-> 1, input |-> i]
denominations == [TAL |-> <<denom(1, 1, TRUE), denom(1, 60, FALSE)>>,
                  DR |-> <<denom(1, 1, TRUE), denom(1, 6, TRUE), denom(4, 1, TRUE), denom(100, 1, TRUE)>>,
                  OB |-> <<denom(1, 1, TRUE), denom(1, 2, FALSE)>>]
typed == [whole : {0, 1, 25}, fraction : {<<>>, <<0>>, <<5>>, <<2, 5>>}]

login(u, p) == [user |-> u, password |-> p]
invoice(ad, n, as, m) == [address |-> ad, amount |-> n, asset |-> as, memo |-> m]
signing(as, m, fee) == [from |-> <<>>, to |-> <<1>>, amount |-> 2, asset |-> as, memo |-> m, fee |-> fee]
textSamples ==
    {<<"mnemonic", k>> : k \in {<<1, 2>>, <<15, 0>>, <<0, 7>>}} \cup {<<"hex", b>> : b \in {<<>>, <<9, 4>>}}
    \cup {<<"number", n>> : n \in {0, 5, 20, 21}} \cup {<<"coin", [txid |-> <<3, 14>>, vout |-> 4]>>}
    \cup {<<"payment", invoice(<<2>>, 5, <<1>>, m)>> : m \in {<<>>, <<EQUALS, BLANK>>, <<PERCENT, 1, 2, AMPERSAND, MEMO>>, <<PLUS>>}}
    \cup {<<"login", login(u, p)>> : u \in {<<1>>, <<1, COLON>>, <<>>}, p \in {<<2>>, <<COLON, 2>>, <<3, 2>>}}
    \cup {<<"signed", signing(as, m, f)>> : as \in {<<1>>, <<1, BAR>>}, m \in {<<>>, <<BAR>>, <<3>>}, f \in {0, 1}}

rewards == [TAL |-> <<4, 4, 4, 2, 1>>, DRM |-> <<0, 0, 4, 4, 2>>]

slaLevels(b, c) == [uptime |-> 999, block |-> b, confirmation |-> c, success |-> 990]
slaDefault == slaLevels(1, 6)
slaOthers == {slaLevels(6, 1)}

didKeys == {<<"p", 1>>, <<"p", 2>>, <<"q", 1>>}
manager(i, n) == [shard |-> i, total |-> n]
managers == {manager(0, 2), manager(1, 2), manager(1, 3), manager(2, 1)}
crossTx(h, i, j, p) == [tx_hash |-> h, source |-> i, destination |-> j, proof |-> p]
crossTxs == {crossTx(1, 0, 1, TRUE), crossTx(1, 2, 1, TRUE), crossTx(2, 1, 0, TRUE), crossTx(2, 0, 0, TRUE),
             crossTx(3, 0, 1, FALSE), crossTx(3, 0, 2, TRUE), crossTx(2, 5, 1, TRUE)}

initialStake == [v \in StakeHolder |-> IF v = "v1" THEN 10 ELSE 9]
tableOrder == <<"v1", "v2", "v3">>
finalBlocks == {<<1, "x">>, <<1, "y">>}

(* The coin of a miner, another of the wallet, and one nobody can sign for *)
paidCoin == "p" :> [asset |-> "TAL", amount |-> 2, height |-> 1, coinbase |-> TRUE, owner |-> "l"]
         @@ "q" :> [asset |-> "TAL", amount |-> 3, height |-> 1, coinbase |-> FALSE, owner |-> "k"]
         @@ "r" :> [asset |-> "DRM", amount |-> 1, height |-> 1, coinbase |-> FALSE, owner |-> "none"]
paid(n, x) == [amount |-> n, asset |-> x]
draft(ins, outs) == [inputs |-> ins, outputs |-> outs]
drafts == {draft(<<"q">>, <<paid(3, "TAL")>>), draft(<<"p", "q">>, <<paid(4, "TAL"), paid(1, "TAL")>>),
           draft(<<"q", "r">>, <<paid(2, "TAL"), paid(1, "DRM")>>), draft(<<"r">>, <<paid(1, "TAL")>>),
           draft(<<"q", "q">>, <<paid(4, "TAL"), paid(1, "TAL")>>), draft(<<"q">>, <<>>),
           draft(<<"q">>, <<paid(15, "TAL")>>), draft(<<CoinbasePoint>>, <<paid(1, "TAL")>>)}
coinbaseDrafts == {<<paid(4, "TAL")>>, <<paid(2, "TAL"), paid(4, "DRM")>>, <<paid(2, "TAL"), paid(3, "TAL")>>}
supplyCap == [TAL |-> 12, DRM |-> 6]
heightReward == [TAL |-> <<4, 4, 2, 1>>, DRM |-> <<0, 4, 4, 2>>]

(* No property tells one worker of the server from another, nor one storing, checking or mining thread,  *)
(* nor a relayer; a behaviour has one kind of them, so all kinds change places at once                     *)
Pairs == {Worker, Thread, Checker, MiningThread, Relayer}
Exchange == [x \in UNION Pairs |-> CHOOSE y \in UNION Pairs : y # x /\ \E P \in Pairs : {x, y} = P]
symmetry == {[x \in DOMAIN Exchange |-> IF exchanged THEN Exchange[x] ELSE x] : exchanged \in BOOLEAN}

(* Of each part that is not the focus one initial state is enough; a server with every part and no   *)
(* credentials does what one with credentials does for a caller who has them                          *)
Init ==
    /\ focus \in foci
    /\ InitRpc /\ InitMobile /\ InitVault
    /\ IF focus \in {"limiter", "requests"} THEN attached # Parts
       ELSE attached = IF focus \in {"client", "call"} THEN Parts ELSE {}
    /\ InitDaemon /\ (focus # "daemon" => config = DefaultConfig)
    /\ InitFirmware /\ InitCertificates /\ InitConsortium
    /\ InitCodec /\ (focus # "codec" => written = <<"ping", [nonce |-> <<2>>]>>)
    /\ InitUnits /\ (focus # "units" => asset = "TAL" /\ raw = 0)
    /\ InitSettlement
    /\ (focus # "escrow" => agreed = [type |-> CONDITIONAL, time |-> 1, hash |-> 1])
    /\ (focus # "multisig" => threshold = 0 /\ keys = <<>>)
    /\ InitMiner /\ InitLedgers /\ InitValidation
    /\ InitAnchoring /\ (focus # "anchoring" => source = OBOLOS)
    /\ InitTexts /\ (focus # "texts" => noted = <<"number", 0>>)
    /\ InitDifficulty /\ (focus # "difficulty" => bits = GetInitialBits)

ServerStep ==
    /\ UNCHANGED <<vaultVars, daemonVars, firmwareVars>>
    /\ \/ focus = "limiter" /\ LimiterStep({1}, oneRequest) /\ UNCHANGED mobileVars
       \/ focus = "requests" /\ RequestStep(IF admitted = <<>> THEN Requests ELSE laterRequests) /\ UNCHANGED mobileVars
       \/ focus = "client" /\ ClientStep /\ UNCHANGED rpcVars
       \/ focus = "call" /\ CallStep /\ UNCHANGED rpcVars
       \/ focus \in {"client", "call"} /\ ServerChain /\ UNCHANGED mobileVars

DeviceStep ==
    /\ UNCHANGED <<rpcVars, mobileVars>>
    /\ \/ focus = "vault" /\ VaultStep /\ UNCHANGED <<daemonVars, firmwareVars>>
       \/ focus = "daemon" /\ DaemonStep /\ UNCHANGED <<vaultVars, firmwareVars>>
       \/ focus = "firmware" /\ FirmwareStep /\ UNCHANGED <<vaultVars, daemonVars>>
       \/ focus = "signing" /\ WalletSessionStep /\ UNCHANGED <<vaultVars, daemonVars>>

FormatStep ==
    \/ focus = "codec" /\ (faults # <<>> => Len(cells) <= MaxTwiceDamaged) /\ CodecStep /\ UNCHANGED <<unitVars, settlementVars, textVars>>
    \/ focus = "units" /\ UnitsStep /\ UNCHANGED <<codecVars, settlementVars, textVars>>
    \/ focus = "escrow" /\ EscrowStep /\ UNCHANGED <<codecVars, unitVars, textVars>>
    \/ focus = "multisig" /\ MultisigStep /\ UNCHANGED <<codecVars, unitVars, textVars>>
    \/ focus = "memo" /\ MemoStep /\ UNCHANGED <<codecVars, unitVars, textVars>>
    \/ focus = "texts" /\ TextStep /\ UNCHANGED <<codecVars, unitVars, settlementVars>>

NetworkModeStep ==
    \/ focus = "permission" /\ PermissionStep /\ UNCHANGED <<decisionVars, complianceVars, slaVars>>
    \/ focus = "decision" /\ DecisionStep /\ UNCHANGED <<permissionVars, complianceVars, slaVars>>
    \/ focus = "screening" /\ ScreeningStep /\ UNCHANGED <<permissionVars, decisionVars, events, slaVars>>
    \/ focus = "audit" /\ AuditStep /\ UNCHANGED <<permissionVars, decisionVars, kyc, alerts, slaVars>>
    \/ focus = "sla" /\ SlaStep /\ UNCHANGED <<permissionVars, decisionVars, complianceVars>>

TrustStep ==
    \/ focus = "certificates" /\ CertificatesStep /\ UNCHANGED consortiumVars
    \/ NetworkModeStep /\ UNCHANGED certVars

WorkStep ==
    \/ focus = "difficulty" /\ DifficultyStep /\ UNCHANGED minerVars
    \/ focus = "mining" /\ MinerStep /\ UNCHANGED difficultyVars

BookStep ==
    \/ focus = "coins" /\ CoinStoreStep /\ UNCHANGED <<paymentVars, delegationVars, entries, identityVars, shardVars>>
    \/ focus = "payments" /\ PaymentsStep /\ UNCHANGED <<coinStoreVars, delegationVars, entries, identityVars, shardVars>>
    \/ focus = "delegation" /\ DelegationStep /\ UNCHANGED <<coinStoreVars, paymentVars, identityVars, shardVars>>
    \/ focus = "identity" /\ IdentityStep /\ UNCHANGED <<coinStoreVars, paymentVars, delegationVars, shardVars>>
    \/ focus = "shards" /\ ShardStep /\ UNCHANGED <<coinStoreVars, paymentVars, delegationVars, identityVars>>

Next ==
    /\ UNCHANGED focus
    /\ \/ (ServerStep \/ DeviceStep) /\ UNCHANGED <<formatVars, trustVars, workVars, bookVars, validationVars, anchorVars>>
       \/ FormatStep /\ UNCHANGED <<clientSideVars, trustVars, workVars, bookVars, validationVars, anchorVars>>
       \/ TrustStep /\ UNCHANGED <<clientSideVars, formatVars, workVars, bookVars, validationVars, anchorVars>>
       \/ WorkStep /\ UNCHANGED <<clientSideVars, formatVars, trustVars, bookVars, validationVars, anchorVars>>
       \/ BookStep /\ UNCHANGED <<clientSideVars, formatVars, trustVars, workVars, validationVars, anchorVars>>
       \/ focus = "validation" /\ ValidationStep
          /\ UNCHANGED <<clientSideVars, formatVars, trustVars, workVars, bookVars, anchorVars>>
       \/ focus = "anchoring" /\ AnchoringStep
          /\ UNCHANGED <<clientSideVars, formatVars, trustVars, workVars, bookVars, validationVars>>

Spec == Init /\ [][Next]_edgeVars

(* Every part keeps its type: the one in focus, for the others stand still, and what each of them  *)
(* begins with is among the initial states of its own focus                                      *)
TypeOK ==
    /\ focus \in {"limiter", "requests", "client"} => RpcTypeOK
    /\ focus \in {"client", "call", "vault"} => MobileTypeOK
    /\ focus = "daemon" => DaemonTypeOK
    /\ focus \in {"firmware", "signing"} => FirmwareTypeOK
    /\ focus = "codec" => CodecTypeOK
    /\ focus = "units" => UnitsTypeOK
    /\ focus \in {"escrow", "multisig", "memo"} => SettlementTypeOK
    /\ focus = "certificates" => CertificatesTypeOK
    /\ focus \in {"permission", "decision", "screening", "audit", "sla"} => ConsortiumTypeOK
    /\ focus = "difficulty" => DifficultyTypeOK
    /\ focus = "mining" => MinerTypeOK
    /\ focus = "texts" => TextsTypeOK
    /\ focus \in {"coins", "payments", "delegation", "identity", "shards"} => LedgersTypeOK
    /\ focus = "validation" => ValidationTypeOK
    /\ focus = "anchoring" => AnchoringTypeOK

(* The device of a user or an operator: what it serves, keeps and stores is what was configured, and *)
(* what it mines and lets pass is what the schedule, the targets and the coins allow.  A part that is  *)
(* not the focus stands still.                                                                        *)
HostIsSafe ==
    CASE focus = "daemon"     -> DaemonIsSafe
      [] focus = "vault"      -> StoredCanBeRead
      [] focus = "mining"     -> MiningIsSound
      [] focus = "coins"      -> CoinsAreCounted
      [] focus = "payments"   -> PaymentsConserve
      [] focus = "delegation" -> BooksAreExact
      [] focus = "identity"   -> IdentitiesAreKept
      [] focus = "shards"     -> ShardsAreSeparate
      [] focus = "validation" -> ValidationIsSound
      [] OTHER                -> TRUE

(* Bytes and texts are read as what was written, or not at all, and targets keep to their digits *)
FormatsAreExact ==
    CASE focus = "codec"      -> ReadingIsExact
      [] focus = "units"      -> AmountsAreKept
      [] focus = "difficulty" -> TargetFollowsTime
      [] focus = "texts"      -> TextsAreExact
      [] OTHER                -> TRUE

(* Who may speak for a node, a network or a layer is settled by its files, members, votes and stakes *)
TrustIsKept ==
    /\ []RotationSettles /\ NetworkIsPermissioned
    /\ []AnchorsAreAccountable /\ [](focus = "anchoring" /\ votes = {} => TurnsFollowStake)
=============================================================================
