-------------------------------- MODULE Codec --------------------------------
(***************************************************************************)
(* The encodings of p2p/message.cpp, primitives/transaction.cpp and block.cpp, *)
(* of a stored output (utxo_storage.cpp) and of the batches of the rollups: a    *)
(* value is written, what arrives may be cut, changed or lengthened, and is     *)
(* read.  A proved batch writes and reads its counts in 32 bits; an optimistic   *)
(* one is written without its number and its signature.                        *)
(*                                                                          *)
(* A cell stands for one field of fixed width (an integer, a hash, an IP        *)
(* address) or for one byte of a size or a string; a field that is cut is        *)
(* missing.  Sizes below Direct take one byte, larger ones a mark and 2, 4 or 8   *)
(* digits to the base Direct + 3, as compact sizes do with 253 and 256.          *)
(***************************************************************************)
EXTENDS Integers, Sequences, SequencesExt

CONSTANTS
    Direct,         \* the first size that needs a mark: 253
    Limit,          \* what is counted ("agent", "inv", ..) to the largest number read
    Magic,          \* the network's mark at the head of a message
    Samples,        \* <<kind, value>>: what may be written
    MaxFaults       \* bound on the faults on the way

ASSUME CodecAssumption == Direct \in Nat \ {0} /\ MaxFaults \in Nat

VARIABLES
    written,        \* the kind and value that were written
    cells,          \* what arrives
    faults          \* the faults so far, in order
codecVars == <<written, cells, faults>>

Base == Direct + 3
Cells == 0 .. Base - 1
Word == Base ^ 8        \* 2^64

-----------------------------------------------------------------------------
(* Writing *)
Digits(n, k) == [i \in 1 .. k |-> (n \div Base ^ (i - 1)) % Base]

WriteCompactSize(n) ==
    IF n < Direct THEN <<n>>
    ELSE IF n < Base ^ 2 THEN <<Direct>> \o Digits(n, 2)
    ELSE IF n < Base ^ 4 THEN <<Direct + 1>> \o Digits(n, 4)
    ELSE <<Direct + 2>> \o Digits(n, 8)

Sized(bytes) == WriteCompactSize(Len(bytes)) \o bytes
Each(Write(_), items) == FlattenSeq([i \in DOMAIN items |-> Write(items[i])])
Counted(Write(_), items) == WriteCompactSize(Len(items)) \o Each(Write, items)

WriteInput(in) == in.prevout \o Sized(in.script) \o in.sequence
WriteOutput(out) == out.value \o Sized(out.script)
WriteTx(tx) ==
    tx.version \o Counted(WriteInput, tx.inputs) \o Counted(WriteOutput, tx.outputs) \o tx.locktime
WriteBlockHeader(h) == h.previous \o h.rest
WriteBlock(b) == WriteBlockHeader(b.header) \o Counted(WriteTx, b.txs)

WriteHeader(h) == h.magic \o h.command \o h.last \o h.length \o h.checksum
WriteNonce(v) == v.nonce
WriteVersion(v) == v.head \o Sized(v.agent) \o v.height \o v.relay
WriteInvVect(item) == item.type \o item.hash
WriteInv(items) == Counted(WriteInvVect, items)
WriteNetAddr(a) == a.time \o a.services \o a.endpoint
WriteAddr(addresses) == Counted(WriteNetAddr, addresses)
WriteGetHeaders(v) == v.version \o Counted(LAMBDA hash : hash, v.locator) \o v.stop
WriteHeaders(headers) == Counted(LAMBDA header : WriteBlockHeader(header) \o WriteCompactSize(0), headers)
WriteReject(v) == Sized(v.message) \o v.code \o Sized(v.reason) \o v.data

(* Files and the batches of the rollups count in a field of fixed width *)
Fixed(bytes) == <<Len(bytes)>> \o bytes
WriteStored(v) == v.value \o Fixed(v.script)
WriteBatch(b) == b.roots \o <<Len(b.txs)>> \o FlattenSeq(b.txs)
WriteProvedBatch(b) ==
    b.id \o WriteBatch(b) \o Fixed(b.proof) \o Fixed(b.inputs) \o b.type \o Fixed(b.signature)

Serialize(kind, v) ==
    CASE kind = "header"     -> WriteHeader(v)
      [] kind = "ping"       -> WriteNonce(v)
      [] kind = "version"    -> WriteVersion(v)
      [] kind = "inv"        -> WriteInv(v)
      [] kind = "addr"       -> WriteAddr(v)
      [] kind = "getheaders" -> WriteGetHeaders(v)
      [] kind = "headers"    -> WriteHeaders(v)
      [] kind = "reject"     -> WriteReject(v)
      [] kind = "tx"         -> WriteTx(v)
      [] kind = "block"      -> WriteBlock(v)
      [] kind = "output"     -> WriteStored(v)
      [] kind = "batch"      -> WriteBatch(v)
      [] kind = "proved"     -> WriteProvedBatch(v)

-----------------------------------------------------------------------------
(* Reading: what is left, and the value read last *)
Unread == [status |-> "refused", rest |-> <<>>, value |-> <<>>]
Parsed(value, rest) == [status |-> "read", rest |-> rest, value |-> value]

(* What was refused stays refused; the reading r is taken once *)
IfRead(r, Continue(_)) ==
    CHOOSE next \in {IF s.status = "read" THEN Continue(s) ELSE s : s \in {r}} : TRUE

Take(r, n) ==
    IfRead(r, LAMBDA s : IF Len(s.rest) < n THEN Unread
                         ELSE Parsed(SubSeq(s.rest, 1, n), SubSeq(s.rest, n + 1, Len(s.rest))))

(* One cell for each name *)
Fields(r, names) ==
    IfRead(Take(r, Len(names)), LAMBDA s :
           Parsed([f \in ToSet(names) |-> <<s.value[CHOOSE i \in DOMAIN names : names[i] = f]>>], s.rest))

Number(digits) == FoldRight(LAMBDA d, n : d + Base * n, digits, 0)

(* ReadCompactSizeChecked of transaction.cpp takes a size in any of its forms *)
ReadSizeAnyForm(r) ==
    IfRead(Take(r, 1), LAMBDA first :
        LET form  == first.value[1]
            width == CASE form = Direct -> 2 [] form = Direct + 1 -> 4 [] OTHER -> 8
        IN  IF form < Direct THEN Parsed(form, first.rest)
            ELSE IfRead(Take(first, width), LAMBDA more : Parsed(Number(more.value), more.rest)))

(* Those of message.cpp and block.cpp only in the shortest one.                         *)
(* Mutant: in any form, too                                                            *)
ReadSize_AnyForm(r) == ReadSizeAnyForm(r)
ReadSize(r) ==
    IfRead(r, LAMBDA s : IfRead(ReadSizeAnyForm(s), LAMBDA size :
        IF Len(s.rest) - Len(size.rest) # Len(WriteCompactSize(size.value)) THEN Unread ELSE size))

(* n items, one after the other; the value is their sequence *)
Many(r, n, ReadItem(_)) ==
    FoldLeft(LAMBDA acc, i :
                LET next == ReadItem([acc EXCEPT !.value = <<>>]) IN
                IF next.status = "read" THEN Parsed(Append(acc.value, next.value), next.rest) ELSE next,
             [r EXCEPT !.value = <<>>], [i \in 1 .. n |-> i])

AtMost(r, limit) == IfRead(r, LAMBDA s : IF s.value > limit THEN Unread ELSE s)
List(size, ReadItem(_)) == IfRead(size, LAMBDA s : Many(s, s.value, ReadItem))
String(size) == IfRead(size, LAMBDA s : Take(s, s.value))
AtEnd(r) == IfRead(r, LAMBDA s : IF s.rest # <<>> THEN Unread ELSE s)

(* In a transaction a length is compared as a signed number, with what follows added to it in 64 *)
(* bits; a buffer of the length that passes then cannot be made                                 *)
Script(r, following) ==
    IfRead(ReadSizeAnyForm(r), LAMBDA size :
        LET need == (size.value + following) % Word IN
        IF need < Word \div 2 /\ Len(size.rest) < need THEN Unread
        ELSE IF Len(size.rest) < size.value THEN [Unread EXCEPT !.status = "throws"]
        ELSE Take(size, size.value))

(* One more part of a value, read where the parts before it ended *)
Part(r, name, ReadPart(_)) ==
    IfRead(r, LAMBDA s : IfRead(ReadPart([s EXCEPT !.value = <<>>]), LAMBDA part :
           Parsed((name :> part.value) @@ s.value, part.rest)))

ReadInput(r) ==
    LET prevout == Part(r, "prevout", LAMBDA s : Take(s, 2))
        script  == Part(prevout, "script", LAMBDA s : Script(s, 1))
    IN  Part(script, "sequence", LAMBDA s : Take(s, 1))
ReadOutput(r) ==
    LET value == Part(r, "value", LAMBDA s : Take(s, 2)) IN Part(value, "script", LAMBDA s : Script(s, 0))
ReadTx(r) ==
    LET version == Part(r, "version", LAMBDA s : Take(s, 1))
        inputs  == Part(version, "inputs", LAMBDA s : List(AtMost(ReadSizeAnyForm(s), Limit["tx"]), ReadInput))
        outputs == Part(inputs, "outputs", LAMBDA s : List(AtMost(ReadSizeAnyForm(s), Limit["tx"]), ReadOutput))
    IN  Part(outputs, "locktime", LAMBDA s : Take(s, 1))

(* A version message may lack its last field *)
ReadRelay(r) ==
    IF r.rest = <<>> THEN Parsed(<<1>>, <<>>)
    ELSE IfRead(Take(r, 1), LAMBDA s : IF s.value = <<0>> THEN s ELSE [s EXCEPT !.value = <<1>>])
ReadVersion(r) ==
    LET head   == Part(r, "head", LAMBDA s : Take(s, 4))
        agent  == Part(head, "agent", LAMBDA s : String(AtMost(ReadSize(s), Limit["agent"])))
        height == Part(agent, "height", LAMBDA s : Take(s, 1))
    IN  Part(height, "relay", ReadRelay)
ReadReject(r) ==
    LET message == Part(r, "message", LAMBDA s : String(AtMost(ReadSize(s), Limit["reject"])))
        code    == Part(message, "code", LAMBDA s : Take(s, 1))
        reason  == Part(code, "reason", LAMBDA s : String(AtMost(ReadSize(s), Limit["reject"])))
    IN  Part(reason, "data", LAMBDA s : Take(s, Len(s.rest)))
ReadGetHeaders(r) ==
    LET version == Part(r, "version", LAMBDA s : Take(s, 1))
        locator == Part(version, "locator",
                        LAMBDA s : List(AtMost(ReadSize(s), Limit["headers"]), LAMBDA hash : Take(hash, 1)))
    IN  Part(locator, "stop", LAMBDA s : Take(s, 1))
ReadBlockHeader(r) == Fields(r, <<"previous", "rest">>)
ReadBareHeader(r) ==
    IfRead(ReadBlockHeader(r), LAMBDA header : IfRead(AtMost(ReadSize(header), 0), LAMBDA none :
           Parsed(header.value, none.rest)))
ReadHeaders(r) == List(AtMost(ReadSize(r), Limit["headers"]), ReadBareHeader)
ReadTxs(r) ==
    IfRead(AtMost(ReadSize(r), Limit["block"]), LAMBDA count : IF count.value = 0 THEN Unread ELSE List(count, ReadTx))
ReadBlock(r) == Part(Part(r, "header", ReadBlockHeader), "txs", ReadTxs)

(* MessageHeader::Deserialize with IsValid: the last of the 12 bytes of the command becomes 0 *)
ReadHeader(r) ==
    IfRead(Fields(r, <<"magic", "command", "last", "length", "checksum">>), LAMBDA header :
        IF header.value.magic # Magic \/ header.value.length[1] > Limit["message"] THEN Unread
        ELSE [header EXCEPT !.value.last = <<0>>])
ReadNonce(r) == Fields(r, <<"nonce">>)
ReadInvVect(r) == Fields(r, <<"type", "hash">>)
ReadNetAddr(r) == Fields(r, <<"time", "services", "endpoint">>)
ReadAddr(r) == List(AtMost(ReadSize(r), Limit["addr"]), ReadNetAddr)

(* InvMessage compares the count with the length before it reads *)
ReadInv(r) == List(AtMost(AtMost(ReadSize(r), Limit["inv"]), Len(r.rest) \div 2), ReadInvVect)

(* What the file of a stored output lacks of its script reads as zeros; what follows is not read *)
ReadStored(r) ==
    Part(Part(r, "value", LAMBDA s : Take(s, 2)), "script", LAMBDA s : IfRead(Take(s, 1), LAMBDA size :
        Parsed([i \in 1 .. size.value[1] |-> IF i \in DOMAIN size.rest THEN size.rest[i] ELSE 0], <<>>)))

(* The batches of the rollups: what follows an optimistic one is not read *)
Field(r) == Take(r, 1)
FixedString(r) == IfRead(Field(r), LAMBDA size : Take(size, size.value[1]))
ReadBatch(r) ==
    Part(Part(r, "roots", LAMBDA s : Take(s, 2)), "txs",
         LAMBDA s : IfRead(Field(s), LAMBDA count : Many(count, count.value[1], Field)))
ReadProvedBatch(r) ==
    LET batch  == ReadBatch(Part(r, "id", LAMBDA s : Take(s, 2)))
        inputs == Part(Part(batch, "proof", FixedString), "inputs", FixedString)
    IN  Part(Part(inputs, "type", Field), "signature", FixedString)

Deserialize(kind, data) ==
    LET r == Parsed(<<>>, data) IN
    CASE kind = "header"     -> AtEnd(ReadHeader(r))
      [] kind = "ping"       -> AtEnd(ReadNonce(r))
      [] kind = "version"    -> AtEnd(ReadVersion(r))
      [] kind = "inv"        -> AtEnd(ReadInv(r))
      [] kind = "addr"       -> AtEnd(ReadAddr(r))
      [] kind = "getheaders" -> AtEnd(ReadGetHeaders(r))
      [] kind = "headers"    -> AtEnd(ReadHeaders(r))
      [] kind = "reject"     -> ReadReject(r)
      [] kind = "tx"         -> AtEnd(ReadTx(r))
      [] kind = "block"      -> AtEnd(ReadBlock(r))
      [] kind = "output"     -> ReadStored(r)
      [] kind = "batch"      -> ReadBatch(r)
      [] kind = "proved"     -> AtEnd(ReadProvedBatch(r))

-----------------------------------------------------------------------------
(* MerkleTree::CalculateRoot, hashes of pairs as pairs *)
Level(hashes) ==
    [i \in 1 .. (Len(hashes) + 1) \div 2 |->
        <<hashes[2 * i - 1], IF 2 * i \in DOMAIN hashes THEN hashes[2 * i] ELSE hashes[2 * i - 1]>>]
CalculateRoot(hashes) ==
    FoldLeft(LAMBDA level, i : IF Len(level) > 1 THEN Level(level) ELSE level, hashes, hashes)
Leaves(txs) == [i \in DOMAIN txs |-> <<WriteTx(txs[i])>>]

-----------------------------------------------------------------------------
InitCodec ==
    /\ written \in Samples /\ cells = Serialize(written[1], written[2]) /\ faults = <<>>

Fault(kind, arriving) ==
    /\ Len(faults) < MaxFaults
    /\ cells' = arriving /\ faults' = Append(faults, kind) /\ UNCHANGED written

Cut == \E n \in 0 .. Len(cells) - 1 : Fault("cut", SubSeq(cells, 1, n))
Change == \E i \in DOMAIN cells, c \in Cells : c # cells[i] /\ Fault("changed", [cells EXCEPT ![i] = c])
Lengthen == \E i \in 0 .. Len(cells), c \in Cells : Fault("lengthened", InsertAt(cells, i + 1, c))

CodecStep == Cut \/ Change \/ Lengthen

-----------------------------------------------------------------------------
CodecTypeOK == cells \in Seq(Cells) /\ Len(faults) <= MaxFaults

Arrived == Deserialize(written[1], cells)

Fits(kind, v) ==
    CASE kind = "version"    -> Len(v.agent) <= Limit["agent"]
      [] kind \in {"inv", "addr", "headers"} -> Len(v) <= Limit[kind]
      [] kind = "header"     -> v.magic = Magic /\ v.length[1] <= Limit["message"]
      [] kind = "getheaders" -> Len(v.locator) <= Limit["headers"]
      [] kind = "reject"     -> Len(v.message) <= Limit["reject"] /\ Len(v.reason) <= Limit["reject"]
      [] kind = "tx"         -> Len(v.inputs) <= Limit["tx"] /\ Len(v.outputs) <= Limit["tx"]
      [] kind = "block"      -> Len(v.txs) \in 1 .. Limit["block"]
      [] OTHER               -> TRUE

(* What reading keeps of a value: a command of 12 characters loses its last *)
Kept(kind, v) == IF kind = "header" THEN [v EXCEPT !.last = <<0>>] ELSE v

(* A value within its limits is read back as it was written, but for the last character of a      *)
(* command of 12, which is lost, and one beyond them is refused; what                              *)
(* was cut short is refused, but for the flag of a version message, the data of a reject message   *)
(* and the script of a stored output; whatever is accepted is written and read as the same value    *)
(* again, and, where only the shortest sizes are accepted, as the same bytes (that lost character    *)
(* apart).  A block that                                                                            *)
(* arrives with other transactions, none of them twice, has another Merkle root.                   *)
ReadingIsExact ==
    \A arrived \in {Arrived} :
       LET accepted == arrived.status = "read" IN
       /\ faults = <<>> =>
             /\ accepted = Fits(written[1], written[2])
             /\ accepted => arrived.value = Kept(written[1], written[2])
       /\ faults = <<"cut">> /\ accepted =>
             \/ written[1] \in {"reject", "output"}
             \/ written[1] = "version" /\ arrived.value = [written[2] EXCEPT !.relay = <<1>>]
       /\ accepted => \A again \in {Serialize(written[1], arrived.value)} :
             /\ Deserialize(written[1], again).value = arrived.value
             /\ \/ again = cells \/ written[1] \in {"version", "tx", "block", "output", "batch"}
                \/ written[1] = "header" /\ again = [cells EXCEPT ![3] = 0]
       /\ written[1] = "block" /\ accepted =>
             \A one \in {Leaves(written[2].txs)}, other \in {Leaves(arrived.value.txs)} :
                one = other \/ ~IsInjective(one) \/ ~IsInjective(other) \/ CalculateRoot(one) # CalculateRoot(other)
=============================================================================
