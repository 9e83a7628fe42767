-------------------------------- MODULE Texts --------------------------------
(***************************************************************************)
(* What is written as text and read back: the words of a mobile wallet's key    *)
(* and its payment addresses (mobile_sdk.cpp), the credentials and the hex        *)
(* strings of an RPC request (rpc_server.cpp), the keys and the count of the      *)
(* UTXO store (utxo_storage.cpp), and the text a mobile wallet signs.           *)
(*                                                                          *)
(* A character is its code, a number of four bits here; the digits come first,   *)
(* are hexadecimal and decimal digits alike, and two of them write a character.  *)
(* Upper and lower case are one.  Names ("amount", "pantheon:") are characters.  *)
(*                                                                          *)
(* common/monetary (units.cpp, denominations.cpp): amounts of the three assets   *)
(* converted into one another, shown in a denomination, typed and read back.     *)
(* A text is a whole number and the digits behind the point; names, case and     *)
(* blanks are left out.                                                       *)
(***************************************************************************)
EXTENDS Integers, Sequences, SequencesExt

CONSTANTS
    MaxWord,        \* 2^64 - 1
    Decimals,       \* 8, of every token
    DrPerTal,       \* RATIO_DR_PER_TAL
    ObPerDr,        \* RATIO_OB_PER_DR
    Denominations,  \* TalDenoms, DrDenoms, ObDenoms: sequences by asset
    Amounts,        \* the raw amounts to begin with
    TypedTexts,     \* what a user may type
    MaxUnitSteps    \* bound on the steps

Pow10 == [n \in 0 .. 2 * Decimals |-> 10 ^ n]
BaseUnit == Pow10[Decimals]

ASSUME UnitsAssumption ==
    /\ MaxWord \in Nat /\ Decimals \in Nat /\ DrPerTal \in Nat \ {0} /\ ObPerDr \in Nat \ {0}
    /\ Amounts \subseteq 0 .. MaxWord

VARIABLES
    asset,          \* "TAL", "DR" or "OB"
    raw,            \* the amount, in base units
    text,           \* the text in the field, <<>> if none
    denomination,   \* the denomination it is in
    shown,          \* what was shown: amount and whether exact, <<>> once edited
    unitSteps       \* history: the steps so far
unitVars == <<asset, raw, text, denomination, shown, unitSteps>>

-----------------------------------------------------------------------------
(* An optional is a sequence of one or none *)
Checked(n) == IF n > MaxWord THEN <<>> ELSE <<n>>

(* MulOverflow, one factor after the other *)
Product(factors) ==
    FoldLeft(LAMBDA p, f : IF p = <<>> THEN p ELSE Checked(p[1] * f), <<1>>, factors)

DivRoundBankers(value, divisor) ==
    LET q == value \div divisor  doubled == 2 * (value % divisor) IN
    IF doubled < divisor \/ (doubled = divisor /\ q % 2 = 0) THEN q ELSE q + 1

Ratio == [from \in {"TAL", "DR", "OB"} |->
            [to \in {"TAL", "DR", "OB"} |->
                CASE from = to -> 1
                  [] {from, to} = {"TAL", "DR"} -> DrPerTal
                  [] {from, to} = {"DR", "OB"} -> ObPerDr
                  [] OTHER -> DrPerTal * ObPerDr]]
Finer == {<<"TAL", "DR">>, <<"DR", "OB">>, <<"TAL", "OB">>}

(* ConvertTalToDr and the others: into the finer unit exactly, back rounded *)
Converted(from, to, amount, rounding) ==
    IF <<from, to>> \in Finer THEN Product(<<amount, Ratio[from][to]>>)
    ELSE IF rounding = "Bankers" THEN <<DivRoundBankers(amount, Ratio[from][to])>>
    ELSE <<amount \div Ratio[from][to]>>

DigitsOf(n, k) == [i \in 1 .. k |-> (n \div Pow10[k - i]) % 10]
Fraction(digits) == FoldLeft(LAMBDA n, d : 10 * n + d, 0, digits)

FormatScaledDecimal(n, decimals) ==
    [whole |-> n \div Pow10[decimals], fraction |-> DigitsOf(n % Pow10[decimals], decimals)]

(* Missing digits are zeros, more than there are decimals are refused *)
ParseScaledDecimal(t, decimals) ==
    IF Len(t.fraction) > decimals \/ t.whole > MaxWord THEN <<>>
    ELSE LET whole == Product(<<t.whole, Pow10[decimals]>>) IN
         IF whole = <<>> THEN <<>>
         ELSE Checked(whole[1] + Fraction(t.fraction) * Pow10[decimals - Len(t.fraction)])

(* The text, and whether it is exact *)
FormatAmountWithDenomination(amount, d) ==
    LET numer == Product(<<amount, d.denominator, Pow10[d.decimals]>>)
        divisor == Product(<<BaseUnit, d.numerator>>) IN
    IF numer = <<>> \/ divisor = <<>> THEN <<>>
    ELSE <<[text |-> FormatScaledDecimal(numer[1] \div divisor[1], d.decimals),
            exact |-> numer[1] % divisor[1] = 0]>>

ParseDisplayAmountWithDenomination(t, d) ==
    LET scaled == ParseScaledDecimal(t, d.decimals)
        numer == IF scaled = <<>> THEN <<>> ELSE Product(<<scaled[1], d.numerator, BaseUnit>>)
        divisor == Product(<<d.denominator, Pow10[d.decimals]>>) IN
    IF ~d.input \/ numer = <<>> \/ divisor = <<>> THEN <<>>
    ELSE IF numer[1] % divisor[1] # 0 THEN <<>> ELSE <<numer[1] \div divisor[1]>>

-----------------------------------------------------------------------------
InitUnits ==
    /\ asset \in DOMAIN Denominations /\ raw \in Amounts
    /\ text = <<>> /\ denomination = Denominations[asset][1] /\ shown = <<>> /\ unitSteps = 0

UnitStep(step) == step /\ unitSteps < MaxUnitSteps /\ unitSteps' = unitSteps + 1

Show ==
    /\ \E i \in DOMAIN Denominations[asset] :
          LET d == Denominations[asset][i]  f == FormatAmountWithDenomination(raw, d) IN
          /\ f # <<>> /\ denomination' = d
          /\ text' = <<f[1].text>> /\ shown' = <<[raw |-> raw, exact |-> f[1].exact]>>
    /\ UNCHANGED <<asset, raw>>

Type ==
    /\ \E t \in TypedTexts : text' = <<t>>
    /\ shown' = <<>> /\ UNCHANGED <<asset, raw, denomination>>

Enter ==
    /\ text # <<>>
    /\ LET entered == ParseDisplayAmountWithDenomination(text[1], denomination) IN
       entered # <<>> /\ raw' = entered[1]
    /\ UNCHANGED <<asset, text, denomination, shown>>

Convert ==
    /\ \E to \in DOMAIN Denominations \ {asset}, rounding \in {"Floor", "Bankers"} :
          LET c == Converted(asset, to, raw, rounding) IN
          c # <<>> /\ raw' = c[1] /\ asset' = to /\ denomination' = Denominations[to][1]
    /\ text' = <<>> /\ shown' = <<>>

UnitsStep == UnitStep(Show) \/ UnitStep(Type) \/ UnitStep(Enter) \/ UnitStep(Convert)

-----------------------------------------------------------------------------
UnitsTypeOK == asset \in DOMAIN Denominations /\ raw \in 0 .. MaxWord

(* An amount shown exactly and entered again is the same amount, one that is entered is worth what   *)
(* the text says; a conversion into a finer unit is undone by the way back, and one into a coarser    *)
(* unit is off by less than one unit, when rounded by half a unit at most, a half to the even one.    *)
AmountsAreKept ==
    /\ \A d \in {denomination} : shown # <<>> /\ shown[1].exact /\ d.input =>
          ParseDisplayAmountWithDenomination(text[1], d) \in {<<>>, <<shown[1].raw>>}
    /\ text # <<>> /\ shown = <<>> =>
          \A a \in {ParseDisplayAmountWithDenomination(text[1], denomination)} \ {<<>>} :
             \A f \in {FormatAmountWithDenomination(a[1], denomination)} \ {<<>>} :
                /\ f[1].exact /\ f[1].text.whole = text[1].whole
                /\ \A i \in DOMAIN f[1].text.fraction : f[1].text.fraction[i] =
                      IF i \in DOMAIN text[1].fraction THEN text[1].fraction[i] ELSE 0
    /\ \A to \in DOMAIN Denominations \ {asset} :
          LET ratio == Ratio[asset][to] IN
          IF <<asset, to>> \in Finer
          THEN \A c \in {Converted(asset, to, raw, "Floor")} \ {<<>>} :
                  \A r \in {"Floor", "Bankers"} : Converted(to, asset, c[1], r) = <<raw>>
          ELSE LET floor == Converted(asset, to, raw, "Floor")[1] * ratio
                   near  == Converted(asset, to, raw, "Bankers")[1] * ratio IN
               /\ floor <= raw /\ raw < floor + ratio
               /\ 2 * (raw - near) \in -ratio .. ratio
               /\ 2 * (raw - near) \in {-ratio, ratio} => (near \div ratio) % 2 = 0

-----------------------------------------------------------------------------
CONSTANTS
    WordSize,       \* kMnemonicWordSize: 4 digits
    KeySize,        \* PRIVATE_KEY_SIZE: 32 bytes
    KeyOrder,       \* the keys below it, but for zero, are valid
    MaxDecimal,     \* the largest number that is read
    TextSamples,    \* <<kind, value>>: what may be written
    MaxSlips        \* bound on the changes to a text

ASSUME TextsAssumption == {WordSize, KeySize, KeyOrder, MaxDecimal, MaxSlips} \subseteq Nat \ {0}

VARIABLES
    noted,          \* the kind and value that were written
    line,           \* the text
    slips           \* history: how it was changed
textVars == <<noted, line, slips>>

HexDigit == 0..3
BLANK == 4
AMPERSAND == 5
EQUALS == 6
PERCENT == 7
PLUS == 8
QUESTION == 9
BAR == 10
COLON == 11
SCHEME == 12
AMOUNT == 13
ASSET == 14
MEMO == 15

(* An optional is a sequence of one or none *)
None == <<>>

-----------------------------------------------------------------------------
(* Bytes as hexadecimal digits *)
BytesToHex(bytes) == FlattenSeq([i \in DOMAIN bytes |-> <<bytes[i] \div 4, bytes[i] % 4>>])
Byte(high, low) == high * 4 + low

TryParseHexString(hex) ==
    IF Len(hex) % 2 # 0 \/ ~(ToSet(hex) \subseteq HexDigit) THEN None
    ELSE <<[i \in 1..Len(hex) \div 2 |-> Byte(hex[2 * i - 1], hex[2 * i])]>>

(* Decimal numbers: nothing but digits, zeros in front included; what is too large is refused *)
Decimal[n \in Nat] == IF n < 4 THEN <<n>> ELSE Append(Decimal[n \div 4], n % 4)
Value(digits) == FoldLeft(LAMBDA n, d : 4 * n + d, 0, digits)
TryParseUint(value) ==
    IF value = <<>> \/ ~(ToSet(value) \subseteq HexDigit) \/ Value(value) > MaxDecimal THEN None
    ELSE <<Value(value)>>

-----------------------------------------------------------------------------
(* A backup is the key itself, its digits in words *)
ValidatePrivateKey(key) == LET n == FoldLeft(LAMBDA k, b : 16 * k + b, 0, key) IN n > 0 /\ n < KeyOrder

FormatMnemonic(entropy) ==
    LET hex == BytesToHex(entropy)
    IN  FlattenSeq([i \in DOMAIN hex |-> IF i > 1 /\ (i - 1) % WordSize = 0 THEN <<BLANK, hex[i]>> ELSE <<hex[i]>>])

Unblanked(txt) == SelectSeq(txt, LAMBDA c : c # BLANK)
ParseMnemonicEntropy(mnemonic) ==
    IF Unblanked(mnemonic) = <<>> THEN None ELSE TryParseHexString(Unblanked(mnemonic))

(* FromPrivateKey: keys of another size, and those that are no key of the curve, are refused *)
FromPrivateKey(key) == IF Len(key) = KeySize /\ ValidatePrivateKey(key) THEN <<key>> ELSE None
FromMnemonic(mnemonic) ==
    LET entropy == ParseMnemonicEntropy(mnemonic)
    IN  IF entropy = None THEN None ELSE FromPrivateKey(entropy[1])

(* SignTransaction: the text whose hash is signed *)
SignedPayload(tx) ==
    tx.from \o <<BAR>> \o tx.to \o <<BAR>> \o Decimal[tx.amount] \o <<BAR>> \o tx.asset
        \o <<BAR>> \o tx.memo \o <<BAR>> \o Decimal[tx.fee]

-----------------------------------------------------------------------------
(* A payment address is written as it is, and read with its escapes undone *)
GeneratePaymentURI(pay) ==
    <<SCHEME>> \o pay.address \o <<QUESTION, AMOUNT, EQUALS>> \o Decimal[pay.amount]
        \o <<AMPERSAND, ASSET, EQUALS>> \o pay.asset
        \o IF pay.memo = <<>> THEN <<>> ELSE <<AMPERSAND, MEMO, EQUALS>> \o pay.memo

PercentDecode(encoded) ==
    LET Escaped(i) == encoded[i] = PERCENT /\ i + 2 <= Len(encoded) /\ {encoded[i + 1], encoded[i + 2]} \subseteq HexDigit
        Step(acc, i) == IF i < acc.next THEN acc
                         ELSE IF Escaped(i) THEN [next |-> i + 3, out |-> Append(acc.out, Byte(encoded[i + 1], encoded[i + 2]))]
                         ELSE [next |-> i + 1, out |-> Append(acc.out, IF encoded[i] = PLUS THEN BLANK ELSE encoded[i])]
    IN  FoldLeft(Step, [next |-> 1, out |-> <<>>], [i \in DOMAIN encoded |-> i]).out

(* std::stoull reads the digits in front, after blanks and a sign *)
LeadingNumber(value) ==
    LET FirstNot(chars, from) == CHOOSE i \in from..Len(value) + 1 :
            /\ i > Len(value) \/ value[i] \notin chars
            /\ \A j \in from..i - 1 : value[j] \in chars
        blanks == FirstNot({BLANK}, 1)
        start == IF blanks <= Len(value) /\ value[blanks] = PLUS THEN blanks + 1 ELSE blanks
    IN  TryParseUint(SubSeq(value, start, FirstNot(HexDigit, start) - 1))

SplitAt(txt, c) ==
    LET at == {i \in DOMAIN txt : txt[i] = c}
    IN  IF at = {} THEN None
        ELSE LET i == CHOOSE j \in at : \A k \in at : j <= k
             IN  <<SubSeq(txt, 1, i - 1), SubSeq(txt, i + 1, Len(txt))>>

PairsOf(query) ==
    LET Step(acc, c) == IF c = AMPERSAND THEN Append(acc, <<>>)
                         ELSE [acc EXCEPT ![Len(acc)] = Append(@, c)]
    IN  FoldLeft(Step, <<<<>>>>, query)

(* A later pair overrides an earlier one; pairs without a value and unknown names are passed over *)
TakePair(pay, pair) ==
    LET parts == SplitAt(pair, EQUALS)
    IN  IF pay = None \/ parts = None THEN pay
        ELSE IF parts[1] = <<AMOUNT>>
        THEN LET n == LeadingNumber(parts[2]) IN IF n = None THEN None ELSE <<[pay[1] EXCEPT !.amount = n[1]]>>
        ELSE IF parts[1] = <<ASSET>> THEN <<[pay[1] EXCEPT !.asset = PercentDecode(parts[2])]>>
        ELSE IF parts[1] = <<MEMO>> THEN <<[pay[1] EXCEPT !.memo = PercentDecode(parts[2])]>>
        ELSE pay

ParsePaymentURI(uri) ==
    LET body == SubSeq(uri, 2, Len(uri))
        parts == IF SplitAt(body, QUESTION) = None THEN <<body, <<>>>> ELSE SplitAt(body, QUESTION)
        empty == [address |-> parts[1], amount |-> 0, asset |-> <<>>, memo |-> <<>>]
    IN  IF uri = <<>> \/ Head(uri) # SCHEME \/ parts[1] = <<>> THEN None
        ELSE FoldLeft(TakePair, <<empty>>, PairsOf(parts[2]))

-----------------------------------------------------------------------------
(* Three bytes are four symbols of three bits here; what is missing of them is padded.  Symbols are *)
(* characters from 16 on, the mark "Basic " is one character                                      *)
BASIC == 30
PAD == 31
Base64Encode(bytes) ==
    LET Chunk(i) == LET Cell(j) == IF j <= Len(bytes) THEN bytes[j] ELSE 0
                    IN  256 * Cell(i) + 16 * Cell(i + 1) + Cell(i + 2)
        Symbols(i) == LET n == Chunk(i)
                          all == <<16 + n \div 512, 16 + ((n \div 64) % 8), 16 + ((n \div 8) % 8), 16 + (n % 8)>>
                      IN  CASE Len(bytes) = i     -> SubSeq(all, 1, 2) \o <<PAD, PAD>>
                            [] Len(bytes) = i + 1 -> SubSeq(all, 1, 3) \o <<PAD>>
                            [] OTHER               -> all
    IN  FlattenSeq([k \in 1..(Len(bytes) + 2) \div 3 |-> Symbols(3 * k - 2)])

Credentials(login) == login.user \o <<COLON>> \o login.password

TrimAsciiWhitespace(value) ==
    LET solid == {i \in DOMAIN value : value[i] # BLANK}
    IN  IF solid = {} THEN <<>>
        ELSE SubSeq(value, CHOOSE i \in solid : \A j \in solid : i <= j, CHOOSE i \in solid : \A j \in solid : i >= j)

(* Without a user and a password everybody is authorised *)
IsAuthorized(login, header_of) ==
    \/ login.user = <<>> \/ login.password = <<>>
    \/ /\ header_of # <<>> /\ Head(header_of) = BASIC
       /\ TrimAsciiWhitespace(Tail(header_of)) = Base64Encode(Credentials(login))

-----------------------------------------------------------------------------
(* UTXOKey, and what LoadUTXOSet makes of a key: u, the digits of the txid, a bar, the output; what *)
(* stands between the digits and the bar is passed over                                           *)
OUTPUT == 12
UTXOKey(coin) == <<OUTPUT>> \o BytesToHex(coin.txid) \o <<BAR>> \o Decimal[coin.vout]

LoadKeyOf(key, size) ==
    LET txid == IF Len(key) < 2 * size + 2 THEN None ELSE TryParseHexString(SubSeq(key, 2, 2 * size + 1))
        rest == SplitAt(SubSeq(key, 2 * size + 2, Len(key)), BAR)
        vout == IF rest = None THEN None ELSE TryParseUint(rest[2])
    IN  IF key = <<>> \/ Head(key) # OUTPUT \/ txid = None \/ vout = None THEN None
        ELSE <<[txid |-> txid[1], vout |-> vout[1]]>>

-----------------------------------------------------------------------------
WrittenText(kind, value) ==
    CASE kind = "mnemonic" -> FormatMnemonic(value)
      [] kind = "hex"      -> BytesToHex(value)
      [] kind = "number"   -> Decimal[value]
      [] kind = "payment"  -> GeneratePaymentURI(value)
      [] kind = "signed"   -> SignedPayload(value)
      [] kind = "login"    -> <<BASIC>> \o Base64Encode(Credentials(value))
      [] kind = "coin"     -> UTXOKey(value)

InitTexts ==
    /\ noted \in TextSamples
    /\ line = WrittenText(noted[1], noted[2]) /\ slips = <<>>

Slip(kind, result) ==
    /\ Len(slips) < MaxSlips
    /\ line' = result /\ slips' = Append(slips, kind)
    /\ UNCHANGED noted

TextStep ==
    \/ \E i \in 1..Len(line) + 1 : Slip("blank", InsertAt(line, i, BLANK))
    \/ \E i \in DOMAIN line : Slip("lost", RemoveAt(line, i))
    \/ \E i \in DOMAIN line, c \in {0, 1, PLUS} : line[i] # c /\ Slip("changed", ReplaceAt(line, i, c))

-----------------------------------------------------------------------------
TextsTypeOK == noted \in TextSamples /\ Len(slips) <= MaxSlips

SamplesOf(kind) == {s[2] : s \in {x \in TextSamples : x[1] = kind}}
Unzeroed(digits) ==
    LET first == CHOOSE i \in 1..Len(digits) : (i = Len(digits) \/ digits[i] # 0) /\ \A j \in 1..i - 1 : digits[j] = 0
    IN  SubSeq(digits, first, Len(digits))
Unmarked(txt) == ToSet(txt) \cap {AMPERSAND, PERCENT, PLUS} = {}
Escaping(txt) == FlattenSeq([i \in DOMAIN txt |-> <<PERCENT>> \o BytesToHex(<<txt[i]>>)])

(* A backup restores its own key, however it is spaced, and one that lost a digit none *)
BackupRestores(key) ==
    LET restored == FromMnemonic(line)
    IN  /\ "lost" \notin ToSet(slips) /\ "changed" \notin ToSet(slips) => restored = <<key>>
        /\ restored # None => BytesToHex(restored[1]) = Unblanked(line)

(* What is accepted is what the text says, to the last character *)
NumbersAreRead(kind) ==
    /\ slips = <<>> => IF kind = "hex" THEN TryParseHexString(line) = <<noted[2]>>
                       ELSE TryParseUint(line) = IF noted[2] > MaxDecimal THEN None ELSE <<noted[2]>>
    /\ kind = "hex" /\ TryParseHexString(line) # None => BytesToHex(TryParseHexString(line)[1]) = line
    /\ kind = "number" /\ TryParseUint(line) # None => Decimal[TryParseUint(line)[1]] = Unzeroed(line)

(* A key in the store is the coin that its digits and its last number say *)
CoinIsFound(coin) ==
    LET read == LoadKeyOf(line, Len(coin.txid))
    IN  /\ slips = <<>> => read = <<coin>>
        /\ read # None =>
              /\ BytesToHex(read[1].txid) = SubSeq(line, 2, 2 * Len(coin.txid) + 1)
              /\ Decimal[read[1].vout] = Unzeroed(SplitAt(line, BAR)[2])

(* A payment reads back unless it holds the marks themselves, and escaped in any case *)
PaymentReadsBack(pay) ==
    /\ slips = <<>> /\ Unmarked(pay.asset) /\ Unmarked(pay.memo) => ParsePaymentURI(line) = <<pay>>
    /\ slips = <<>> =>
          ParsePaymentURI(GeneratePaymentURI([pay EXCEPT !.asset = Escaping(@), !.memo = Escaping(@)])) = <<pay>>
    /\ ParsePaymentURI(line) # None => ParsePaymentURI(line)[1].address # <<>>

(* A login is let in with its own header, and with another's only if their texts agree *)
LoginsAreTold(login) ==
    /\ slips = <<>> => IsAuthorized(login, line)
    /\ slips = <<>> => \A other \in SamplesOf("login") :
          other.user # <<>> /\ other.password # <<>> /\ IsAuthorized(other, line) => Credentials(other) = Credentials(login)

(* Two transactions whose fields hold no bar are not signed with one text *)
SignedTextsDiffer(tx) ==
    \A other \in SamplesOf("signed") :
        SignedPayload(other) = SignedPayload(tx) =>
            \/ other = tx
            \/ \E t \in {other, tx} : BAR \in UNION {ToSet(f) : f \in {t.from, t.to, t.asset, t.memo}}

(* A text that was kept as it was written is read as what it was written for, and a changed one is *)
(* never read as anything that it does not spell out                                            *)
TextsAreExact ==
    CASE noted[1] = "mnemonic" -> BackupRestores(noted[2])
      [] noted[1] \in {"hex", "number"} -> NumbersAreRead(noted[1])
      [] noted[1] = "coin" -> CoinIsFound(noted[2])
      [] noted[1] = "payment" -> PaymentReadsBack(noted[2])
      [] noted[1] = "login" -> LoginsAreTold(noted[2])
      [] noted[1] = "signed" -> SignedTextsDiffer(noted[2])
=============================================================================
