--------------------------------- MODULE Vm ---------------------------------
(***************************************************************************)
(* VM::Execute: one run of a contract's code on the world state.  There is no *)
(* jump, so the code is read from its first byte to its last: any opcode may   *)
(* come next, and the code may end after any of them.                         *)
(*                                                                          *)
(* Costs keep their order, not their size.  The values a context opcode can    *)
(* push are one constant, and opcodes without a case are one.                  *)
(*                                                                          *)
(* Before it the arithmetic on 256-bit words: WordBytes bytes of ByteBits bits,  *)
(* the most significant first, and the algorithms of vm.cpp on them, byte by     *)
(* byte or bit by bit.  Shifts, offsets and lengths are cut to OffsetBytes bytes *)
(* (8 of 32), and the offsets and gas computed from them wrap there.             *)
(***************************************************************************)
EXTENDS World, Bitwise

CONSTANTS
    WordBytes, ByteBits, OffsetBytes,
    Contract,       \* the address whose storage the code reads and writes
    ContextWord,    \* what ADDRESS, CALLER, CALLVALUE, NUMBER, ... push
    Pushed,         \* words PUSH pushes
    GasLimit,
    MaxStack        \* MAX_STACK_SIZE

ASSUME VmAssumption == Contract \in Address /\ {GasLimit, MaxStack} \subseteq Nat
ASSUME WordAssumption ==
    {WordBytes, ByteBits, OffsetBytes} \subseteq Nat \ {0} /\ OffsetBytes <= WordBytes

VARIABLES
    vm,         \* the VM object, the result of Execute once it ended, the stores it made;
                \* wrapped: history, whether a size or an end of memory wrapped
    numbers     \* the integers a stack machine without words would hold; "lost" beyond its reach
vmVars == <<vm, numbers>>

-----------------------------------------------------------------------------
ByteValues == 2 ^ ByteBits
WordBits == WordBytes * ByteBits
ByteIndex == 1 .. WordBytes
EvmWord == [ByteIndex -> 0 .. ByteValues - 1]

Number(w) == FoldLeft(LAMBDA n, byte : n * ByteValues + byte, 0, w)
ToUint256(n) == [i \in ByteIndex |-> (n \div ByteValues ^ (WordBytes - i)) % ByteValues]
Zero == ToUint256(0)

(* uint64_t holds the least significant bytes of a word *)
OffsetSpace == ByteValues ^ OffsetBytes
ToUint64(w) == Number(w) % OffsetSpace

Lt(a, b) == \E i \in ByteIndex : a[i] < b[i] /\ \A j \in 1 .. i - 1 : a[j] = b[j]

Add(a, b) ==
    LET carry[i \in 1 .. WordBytes + 1] ==
          IF i > WordBytes THEN 0 ELSE (a[i] + b[i] + carry[i + 1]) \div ByteValues
    IN  [i \in ByteIndex |-> (a[i] + b[i] + carry[i + 1]) % ByteValues]

Sub(a, b) ==
    LET borrow[i \in 1 .. WordBytes + 1] ==
          IF i > WordBytes THEN 0 ELSE IF a[i] - b[i] - borrow[i + 1] < 0 THEN 1 ELSE 0
    IN  [i \in ByteIndex |-> (a[i] - b[i] - borrow[i + 1]) % ByteValues]

(* result with the product of a and one byte of b added, as the code places it: a byte of b  *)
(* that is one more significant moves the product one byte down, not up                       *)
AddProduct(result, a, byte, offset) ==
    LET sum(j, carry) == a[j] * byte + result[j + offset] + carry
        carry[j \in 1 .. WordBytes + 1] ==
          IF j + offset > WordBytes THEN 0 ELSE sum(j, carry[j + 1]) \div ByteValues
    IN  [k \in ByteIndex |-> IF k <= offset THEN result[k]
                         ELSE sum(k - offset, carry[k - offset + 1]) % ByteValues]

Mul(a, b) ==
    FoldLeft(LAMBDA result, n : AddProduct(result, a, b[WordBytes - n], n), Zero,
             [i \in ByteIndex |-> i - 1])

(* Bit n of a word, counted from the most significant or, in Exp, from the least *)
Bit(w, n) == (w[(n \div ByteBits) + 1] \div 2 ^ (ByteBits - 1 - (n % ByteBits))) % 2

(* The long division of Div and Mod: one bit of a at a time enters the remainder *)
LongDivision(a, b) ==
    FoldLeft(LAMBDA s, n :
               LET r == Add(Add(s.remainder, s.remainder), ToUint256(Bit(a, n)))
                   q == Add(s.quotient, s.quotient)
               IN  IF Lt(r, b) THEN [quotient |-> q, remainder |-> r]
                   ELSE [quotient |-> Add(q, ToUint256(1)), remainder |-> Sub(r, b)],
             [quotient |-> Zero, remainder |-> Zero],
             [i \in 1 .. WordBits |-> i - 1])

Div(a, b) == IF b = Zero THEN Zero ELSE LongDivision(a, b).quotient
Mod(a, b) == IF b = Zero THEN Zero ELSE LongDivision(a, b).remainder

(* Squaring stops at a square of 0, and at a square of 1 when the result is not 1: bits of the *)
(* exponent that are left are not looked at                                                     *)
Exp(base, exponent) ==
    IF exponent = Zero THEN ToUint256(1) ELSE IF base = Zero THEN Zero
    ELSE FoldLeft(LAMBDA s, n :
                    IF s.stop THEN s
                    ELSE LET result == IF Bit(exponent, n) = 1 THEN Mul(s.result, s.base) ELSE s.result
                             square == Mul(s.base, s.base)
                         IN  [result |-> result, base |-> square,
                              stop |-> \/ square = Zero
                                       \/ square = ToUint256(1) /\ result # ToUint256(1)],
                  [result |-> ToUint256(1), base |-> base, stop |-> FALSE],
                  [i \in 1 .. WordBits |-> WordBits - i]).result

BitAnd(a, b) == [i \in ByteIndex |-> a[i] & b[i]]
BitOr(a, b) == [i \in ByteIndex |-> a[i] | b[i]]
BitXor(a, b) == [i \in ByteIndex |-> a[i] ^^ b[i]]
BitNot(a) == [i \in ByteIndex |-> ByteValues - 1 - a[i]]

(* Whole bytes first, then the bits within them; what a shift is beyond 64 bits is not seen *)
Shl(shift, value) ==
    LET n == ToUint64(shift)
        low == n % ByteBits
        byte(i) == IF i + (n \div ByteBits) \in ByteIndex THEN value[i + (n \div ByteBits)] ELSE 0
    IN  IF n >= WordBits THEN Zero
        ELSE [i \in ByteIndex |-> ((byte(i) * 2 ^ low) % ByteValues)
                              + (IF i < WordBytes THEN byte(i + 1) \div 2 ^ (ByteBits - low) ELSE 0)]

Shr(shift, value) ==
    LET n == ToUint64(shift)
        low == n % ByteBits
        byte(i) == IF i - (n \div ByteBits) \in ByteIndex THEN value[i - (n \div ByteBits)] ELSE 0
    IN  IF n >= WordBits THEN Zero
        ELSE [i \in ByteIndex |-> (byte(i) \div 2 ^ low)
                              + (IF i > 1 THEN (byte(i - 1) * 2 ^ (ByteBits - low)) % ByteValues ELSE 0)]

-----------------------------------------------------------------------------
InitVm ==
    /\ vm \in [result : {"running"}, stack : {<<>>}, memory : {<<>>}, gas : {0}, stores : {0},
             static : BOOLEAN, wrapped : {FALSE}]
    /\ numbers = <<>>

Top(n) == vm.stack[Len(vm.stack) + 1 - n]
Below(s, n) == SubSeq(s, 1, Len(s) - n)

-----------------------------------------------------------------------------
UseGas(amount) == (vm.gas + amount) % OffsetSpace <= GasLimit

(* UseGas before the opcode; an exception of the opcode ends the run as INVALID_OPCODE *)
Charged(cost, pops, pushes) ==
    /\ vm.result = "running" /\ UseGas(cost)
    /\ Len(vm.stack) >= pops /\ Len(vm.stack) - pops + pushes <= MaxStack

Ends(result, cost) ==
    /\ vm' = [vm EXCEPT !.result = result, !.gas = @ + cost]
    /\ UNCHANGED <<numbers, worldVars>>

Fails(cost, pops, pushes) ==
    /\ vm.result = "running"
    /\ \/ ~UseGas(cost) /\ Ends("OUT_OF_GAS", 0)
       \/ UseGas(cost) /\ ~Charged(cost, pops, pushes) /\ Ends("INVALID_OPCODE", cost)

(* The opcode pops some words and pushes one; number is what an integer machine computes *)
Computes(cost, pops, word, number) ==
    /\ Charged(cost, pops, 1)
    /\ vm' = [vm EXCEPT !.stack = Append(Below(@, pops), word), !.gas = @ + cost]
    /\ numbers' = Append(Below(numbers, pops), number)
    /\ UNCHANGED worldVars

Modulus == 2 ^ WordBits
Lost == -1
Truth(b) == IF b THEN 1 ELSE 0

(* The integer operations.  The product is only claimed when b is a single byte, a power *)
(* only when nothing is squared and a is a single byte, a shift only below 2^64           *)
Reference(op, a, b) ==
    IF Lost \in {a, b} THEN Lost
    ELSE CASE op = "ADD" -> (a + b) % Modulus
           [] op = "SUB" -> (a - b) % Modulus
           [] op = "MUL" -> IF b < ByteValues THEN (a * b) % Modulus ELSE Lost
           [] op = "DIV" -> IF b = 0 THEN 0 ELSE a \div b
           [] op = "MOD" -> IF b = 0 THEN 0 ELSE a % b
           [] op = "EXP" -> IF b = 0 THEN 1 ELSE IF b = 1 /\ a < ByteValues THEN a ELSE Lost
           [] op = "LT"  -> Truth(a < b)
           [] op = "GT"  -> Truth(b < a)
           [] op = "EQ"  -> Truth(a = b)
           [] op = "AND" -> a & b
           [] op = "OR"  -> a | b
           [] op = "XOR" -> a ^^ b
           [] op = "SHL" -> IF a >= OffsetSpace THEN Lost ELSE IF a >= WordBits THEN 0 ELSE (b * 2 ^ a) % Modulus
           [] op = "SHR" -> IF a >= OffsetSpace THEN Lost ELSE IF a >= WordBits THEN 0 ELSE b \div 2 ^ a

BinaryCost(op) == IF op \in {"MUL", "DIV", "MOD", "EXP"} THEN 2 ELSE 1

(* b is the top of the stack, a the word below it; shifts take the value from the top *)
Binary(op, a, b) ==
    CASE op = "ADD" -> Add(a, b)
      [] op = "SUB" -> Sub(a, b)
      [] op = "MUL" -> Mul(a, b)
      [] op = "DIV" -> Div(a, b)
      [] op = "MOD" -> Mod(a, b)
      [] op = "EXP" -> Exp(a, b)
      [] op = "LT"  -> ToUint256(Truth(Lt(a, b)))
      [] op = "GT"  -> ToUint256(Truth(Lt(b, a)))
      [] op = "EQ"  -> ToUint256(Truth(a = b))
      [] op = "AND" -> BitAnd(a, b)
      [] op = "OR"  -> BitOr(a, b)
      [] op = "XOR" -> BitXor(a, b)
      [] op = "SHL" -> Shl(a, b)
      [] op = "SHR" -> Shr(a, b)

Binaries == {"ADD", "SUB", "MUL", "DIV", "MOD", "EXP", "LT", "GT", "EQ", "AND", "OR", "XOR", "SHL", "SHR"}

ExecuteBinary(op) ==
    \/ Fails(BinaryCost(op), 2, 1)
    \/ /\ Len(vm.stack) >= 2
       /\ Computes(BinaryCost(op), 2, Binary(op, Top(2), Top(1)),
                   Reference(op, numbers[Len(numbers) - 1], numbers[Len(numbers)]))

ExecuteUnary ==
    \/ Fails(1, 1, 1)
    \/ /\ vm.stack # <<>>
       /\ LET n == numbers[Len(numbers)] IN
          \/ Computes(1, 1, ToUint256(Truth(Top(1) = Zero)), IF n = Lost THEN Lost ELSE Truth(n = 0))
          \/ Computes(1, 1, BitNot(Top(1)), IF n = Lost THEN Lost ELSE Modulus - 1 - n)

Push(word) == Fails(1, 0, 1) \/ Computes(1, 0, word, Number(word))

(* GAS pushes what is left after its own cost *)
Gas == Fails(1, 0, 1) \/ Computes(1, 0, ToUint256(GasLimit - vm.gas - 1), GasLimit - vm.gas - 1)

Dup(n) ==
    \/ Fails(1, n, n + 1)
    \/ Charged(1, n, n + 1) /\ Computes(1, 0, Top(n), numbers[Len(numbers) + 1 - n])

Swap(n) ==
    LET swapped(s) == [s EXCEPT ![Len(s)] = s[Len(s) - n], ![Len(s) - n] = s[Len(s)]] IN
    \/ Fails(1, n + 1, n + 1)
    \/ /\ Charged(1, n + 1, n + 1)
       /\ vm' = [vm EXCEPT !.stack = swapped(@), !.gas = @ + 1]
       /\ numbers' = swapped(numbers)
       /\ UNCHANGED worldVars

(* POP, and JUMPDEST and STOP, which do nothing: STOP does not end the run *)
Pop ==
    \/ Fails(1, 1, 0)
    \/ /\ Charged(1, 1, 0)
       /\ vm' = [vm EXCEPT !.stack = Below(@, 1), !.gas = @ + 1]
       /\ numbers' = Below(numbers, 1)
       /\ UNCHANGED worldVars

NoEffect(cost) ==
    \/ Fails(cost, 0, 0)
    \/ Charged(cost, 0, 0) /\ Ends("running", cost)

-----------------------------------------------------------------------------
(* Rounding up wraps for the largest sizes *)
MemoryWords(size) == ((size + WordBytes - 1) % OffsetSpace) \div WordBytes

(* The gas an expansion costs, one per word *)
ExpansionCost(size) ==
    IF size > Len(vm.memory)
    THEN (MemoryWords(size) - MemoryWords(Len(vm.memory))) % OffsetSpace ELSE 0

Expanded(size) ==
    vm.memory \o [i \in 1 .. (IF size > Len(vm.memory) THEN size - Len(vm.memory) ELSE 0) |-> 0]

(* The size of the memory that ends with the length bytes from the offset on *)
End(offset, length) == (offset + length) % OffsetSpace

(* No memory has a size that wraps when it is rounded up: resize() throws *)
TooLarge(size) == size + WordBytes - 1 >= OffsetSpace

(* Gas for the expansion after the gas for the opcode: what is missing is INVALID_OPCODE, as *)
(* is what cannot be allocated, after a cost that wrapped.  Past an end that wrapped the     *)
(* memory is accessed where there is none: UNDEFINED is whatever comes of it.                *)
FailsToReach(cost, offset, length) ==
    LET size == End(offset, length)
        gas  == cost + ExpansionCost(size)
        beyond(result) == /\ vm' = [vm EXCEPT !.result = result, !.wrapped = TRUE,
                                              !.gas = (@ + gas) % OffsetSpace]
                          /\ UNCHANGED <<numbers, worldVars>>
    IN  \/ ~UseGas(gas) /\ Ends("INVALID_OPCODE", cost)
        \/ UseGas(gas) /\ TooLarge(size) /\ beyond("INVALID_OPCODE")
        \/ UseGas(gas) /\ offset + length >= OffsetSpace /\ beyond("UNDEFINED")

Reaches(cost, offset, length) ==
    /\ offset + length < OffsetSpace /\ ~TooLarge(offset + length)
    /\ UseGas(cost + ExpansionCost(offset + length))

Stored(bytes, offset) ==
    LET memory == Expanded(offset + Len(bytes)) IN
    [i \in DOMAIN memory |-> IF i - offset \in DOMAIN bytes THEN bytes[i - offset] ELSE memory[i]]

Store(bytes, offset) ==
    /\ Charged(1, 2, 0)
    /\ \/ FailsToReach(1, offset, Len(bytes))
       \/ /\ Reaches(1, offset, Len(bytes))
          /\ vm' = [vm EXCEPT !.stack = Below(@, 2), !.memory = Stored(bytes, offset),
                              !.gas = @ + 1 + ExpansionCost(offset + Len(bytes))]
          /\ numbers' = Below(numbers, 2)
          /\ UNCHANGED worldVars

(* MSTORE and MSTORE8 pop the offset, then the value *)
MStore ==
    \/ Fails(1, 2, 0)
    \/ /\ Len(vm.stack) >= 2
       /\ \/ Store(Top(2), ToUint64(Top(1)))
          \/ Store(<<Top(2)[WordBytes]>>, ToUint64(Top(1)))

Load(offset) ==
    LET size   == offset + WordBytes
        loaded == SubSeq(Expanded(size), offset + 1, size)
    IN  /\ Charged(1, 1, 1)
        /\ \/ FailsToReach(1, offset, WordBytes)
           \/ /\ Reaches(1, offset, WordBytes)
              /\ vm' = [vm EXCEPT !.stack = Append(Below(@, 1), loaded),
                                  !.gas = @ + 1 + ExpansionCost(size), !.memory = Expanded(size)]
              /\ numbers' = Append(Below(numbers, 1), Number(loaded))
              /\ UNCHANGED worldVars

MLoad == Fails(1, 1, 1) \/ (vm.stack # <<>> /\ Load(ToUint64(Top(1))))

(* RETURN and REVERT cost nothing but the expansion; neither takes a write back *)
Return(result) ==
    \/ Fails(0, 2, 0)
    \/ /\ Charged(0, 2, 0)
       /\ LET offset == ToUint64(Top(1))
              length == ToUint64(Top(2))
          IN  \/ FailsToReach(0, offset, length)
              \/ /\ Reaches(0, offset, length)
                 /\ vm' = [vm EXCEPT !.result = result, !.memory = Expanded(offset + length),
                                     !.gas = @ + ExpansionCost(offset + length)]
                 /\ UNCHANGED <<numbers, worldVars>>

-----------------------------------------------------------------------------
SLoad ==
    LET word == GetStorage(Contract, Top(1)) IN
    \/ Fails(2, 1, 1)
    \/ vm.stack # <<>> /\ Computes(2, 1, word, Number(word))

(* Storage is written at once: a run that fails later keeps the write *)
SStore ==
    \/ Fails(2, IF vm.static THEN 0 ELSE 2, 0)
    \/ vm.static /\ Charged(2, 0, 0) /\ Ends("STATIC_CALL_VIOLATION", 2)
    \/ /\ ~vm.static /\ Charged(2, 2, 0)
       /\ SetStorage(Contract, Top(1), Top(2)) /\ UNCHANGED trie
       /\ vm' = [vm EXCEPT !.stack = Below(@, 2), !.gas = @ + 2, !.stores = @ + 1]
       /\ numbers' = Below(numbers, 2)

Unsupported == Charged(1, 0, 0) /\ Ends("INVALID_OPCODE", 1)

EndOfCode == vm.result = "running" /\ Ends("SUCCESS", 0)

VmStep ==
    \/ \E op \in Binaries : ExecuteBinary(op)
    \/ ExecuteUnary \/ Gas \/ Pop \/ NoEffect(0) \/ NoEffect(1)
    \/ \E w \in Pushed \cup {ContextWord} : Push(w)
    \/ \E n \in 1 .. MaxStack : Dup(n) \/ Swap(n)
    \/ MStore \/ MLoad
    \/ \E result \in {"RETURNED", "REVERT"} : Return(result)
    \/ SLoad \/ SStore \/ Unsupported \/ EndOfCode

-----------------------------------------------------------------------------
VmTypeOK ==
    /\ vm.result \in {"running", "SUCCESS", "RETURNED", "REVERT", "OUT_OF_GAS", "INVALID_OPCODE",
                      "STATIC_CALL_VIOLATION", "UNDEFINED"}
    /\ Len(vm.stack) <= MaxStack /\ \A i \in DOMAIN vm.stack : vm.stack[i] \in EvmWord
    /\ Len(numbers) = Len(vm.stack)

(* The byte-wise algorithms compute what integers modulo 2^256 give, through any run of the  *)
(* code and whatever it moved through the stack, the memory and the storage; and a run never  *)
(* holds more than it paid for: its gas stays within the limit and covers its memory and its   *)
(* writes, unless it ended on an offset so large that its end or its size in words wrapped.    *)
RunIsExact ==
    /\ \A i \in DOMAIN vm.stack : numbers[i] \in {Number(vm.stack[i]), Lost}
    /\ vm.gas <= GasLimit
    /\ vm.wrapped \/ vm.gas >= MemoryWords(Len(vm.memory)) + 2 * vm.stores
    /\ vm.static => vm.stores = 0
=============================================================================
