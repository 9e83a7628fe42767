-------------------------------- MODULE Sums --------------------------------
(***************************************************************************)
(* The total of amounts, as the number of units there are when every amount *)
(* is laid out unit by unit.  For finitely many units it is the usual sum;   *)
(* unlike a recursive sum it can be reasoned about with the facts on         *)
(* cardinalities alone.                                                     *)
(***************************************************************************)
EXTENDS Integers, FiniteSets, FiniteSetTheorems, WellFoundedInduction, TLAPS

Units(amounts) == UNION {{x} \X (1 .. amounts[x]) : x \in DOMAIN amounts}
Sum(amounts) == Cardinality(Units(amounts))

-----------------------------------------------------------------------------
(* A unit is what it belongs to and its number *)
LEMMA UnitOf ==
    ASSUME NEW f, NEW x, NEW k
    PROVE  <<x, k>> \in Units(f) <=> x \in DOMAIN f /\ k \in 1 .. f[x]
BY DEF Units

(* The units of one amount are as many as the amount *)
LEMMA OwnUnits ==
    ASSUME NEW x, NEW n \in Nat
    PROVE  IsFiniteSet({x} \X (1 .. n)) /\ Cardinality({x} \X (1 .. n)) = n
<1>1. IsFiniteSet(1 .. n) /\ Cardinality(1 .. n) = n
    BY FS_Interval
<1>2. IsFiniteSet({x}) /\ Cardinality({x}) = 1
    BY FS_Singleton
<1> QED
    BY <1>1, <1>2, FS_Product

(* Disjoint units add up *)
LEMMA UnitsAddUp ==
    ASSUME NEW S, NEW T, IsFiniteSet(S), IsFiniteSet(T), S \cap T = {}
    PROVE  /\ IsFiniteSet(S \cup T) /\ Cardinality(S) \in Nat /\ Cardinality(T) \in Nat
           /\ Cardinality(S \cup T) = Cardinality(S) + Cardinality(T)
<1>1. Cardinality(S) \in Nat /\ Cardinality(T) \in Nat
    BY FS_CardinalityType
<1>2. Cardinality(S \cap T) = 0
    BY FS_EmptySet
<1>3. /\ IsFiniteSet(S \cup T)
      /\ Cardinality(S \cup T) = Cardinality(S) + Cardinality(T) - Cardinality(S \cap T)
    BY FS_Union
<1> QED
    BY <1>1, <1>2, <1>3

(* Where nothing is, there are no units *)
LEMMA SumOfNothing ==
    ASSUME NEW f, \A x \in DOMAIN f : f[x] = 0
    PROVE  IsFiniteSet(Units(f)) /\ Sum(f) = 0
<1>1. Units(f) = {}
    BY DEF Units
<1> QED
    BY <1>1, FS_EmptySet DEF Sum

(* What is left of the units without those of one amount *)
LEMMA SumWithout ==
    ASSUME NEW f, NEW x \in DOMAIN f, f[x] \in Nat, IsFiniteSet(Units(f))
    PROVE  LET rest == Units(f) \ ({x} \X (1 .. f[x])) IN
           IsFiniteSet(rest) /\ Cardinality(rest) \in Nat /\ Sum(f) = Cardinality(rest) + f[x]
<1> DEFINE own == {x} \X (1 .. f[x])
           rest == Units(f) \ own
<1>1. own \subseteq Units(f)
    BY DEF Units
<1>2. IsFiniteSet(own) /\ Cardinality(own) = f[x]
    BY OwnUnits
<1>3. IsFiniteSet(rest)
    BY FS_Difference
<1>4. Cardinality(rest) \in Nat
    BY <1>3, FS_CardinalityType
<1>5. rest \cap own = {} /\ rest \cup own = Units(f)
    BY <1>1
<1>6. Cardinality(rest \cup own) = Cardinality(rest) + Cardinality(own)
    BY <1>2, <1>3, <1>5, UnitsAddUp
<1> QED
    BY <1>2, <1>3, <1>4, <1>5, <1>6 DEF Sum

(* No amount exceeds the total *)
LEMMA AmountWithinSum ==
    ASSUME NEW f, NEW x \in DOMAIN f, f[x] \in Nat, IsFiniteSet(Units(f))
    PROVE  Sum(f) \in Nat /\ f[x] <= Sum(f)
<1> DEFINE rest == Units(f) \ ({x} \X (1 .. f[x]))
<1>1. Cardinality(rest) \in Nat /\ Sum(f) = Cardinality(rest) + f[x]
    BY SumWithout
<1> QED
    BY <1>1

(* When one amount changes, the total changes by as much *)
LEMMA SumChange ==
    ASSUME NEW f, NEW g, NEW x \in DOMAIN f, DOMAIN g = DOMAIN f,
           f[x] \in Nat, g[x] \in Nat, IsFiniteSet(Units(f)),
           \A y \in DOMAIN f : y # x => g[y] = f[y]
    PROVE  IsFiniteSet(Units(g)) /\ Sum(g) + f[x] = Sum(f) + g[x]
<1> DEFINE rest == Units(f) \ ({x} \X (1 .. f[x]))
           own == {x} \X (1 .. g[x])
<1>1. IsFiniteSet(rest) /\ Cardinality(rest) \in Nat /\ Sum(f) = Cardinality(rest) + f[x]
    BY SumWithout
<1>2. IsFiniteSet(own) /\ Cardinality(own) = g[x]
    BY OwnUnits
<1>3. rest = UNION {{y} \X (1 .. f[y]) : y \in DOMAIN f \ {x}}
    BY DEF Units
<1>4. rest \cap own = {}
    BY <1>3
<1>5. Units(g) = rest \cup own
    BY <1>3 DEF Units
<1>6. Cardinality(rest \cup own) = Cardinality(rest) + Cardinality(own) /\ IsFiniteSet(rest \cup own)
    BY <1>1, <1>2, <1>4, UnitsAddUp
<1> QED
    BY <1>1, <1>2, <1>5, <1>6 DEF Sum

-----------------------------------------------------------------------------
(* Finitely many natural amounts have finitely many units *)
LEMMA FiniteUnits ==
    ASSUME NEW f, IsFiniteSet(DOMAIN f), \A x \in DOMAIN f : f[x] \in Nat
    PROVE  IsFiniteSet(Units(f)) /\ Sum(f) \in Nat
<1> DEFINE own == [x \in DOMAIN f |-> {x} \X (1 .. f[x])]
           T == {{x} \X (1 .. f[x]) : x \in DOMAIN f}
<1>1. own \in Surjection(DOMAIN f, T)
    BY DEF Surjection
<1>2. IsFiniteSet(T)
    BY <1>1, FS_Surjection
<1>3. \A U \in T : IsFiniteSet(U)
    BY OwnUnits
<1>4. IsFiniteSet(UNION T)
    BY <1>2, <1>3, FS_UNION
<1>5. IsFiniteSet(Units(f))
    BY <1>4 DEF Units
<1> QED
    BY <1>5, FS_CardinalityType DEF Sum

(* An amount that joins others adds to their total *)
LEMMA SumOneMore ==
    ASSUME NEW f, NEW g, NEW x, IsFiniteSet(Units(f)), x \notin DOMAIN f,
           DOMAIN g = DOMAIN f \cup {x}, g[x] \in Nat,
           \A y \in DOMAIN f : g[y] = f[y]
    PROVE  IsFiniteSet(Units(g)) /\ Sum(g) = Sum(f) + g[x]
<1> DEFINE own == {x} \X (1 .. g[x])
<1>1. IsFiniteSet(own) /\ Cardinality(own) = g[x]
    BY OwnUnits
<1>2. Units(g) = Units(f) \cup own
    BY DEF Units
<1>3. Units(f) \cap own = {}
    BY DEF Units
<1>4. IsFiniteSet(Units(f) \cup own) /\ Cardinality(Units(f) \cup own) = Cardinality(Units(f)) + Cardinality(own)
    BY <1>1, <1>3, UnitsAddUp
<1> QED
    BY <1>1, <1>2, <1>4 DEF Sum

(* Fewer or smaller amounts have the smaller total *)
LEMMA SumMonotone ==
    ASSUME NEW f, NEW g, IsFiniteSet(DOMAIN g), \A x \in DOMAIN g : g[x] \in Nat,
           DOMAIN f \subseteq DOMAIN g, \A x \in DOMAIN f : f[x] \in Nat /\ f[x] <= g[x]
    PROVE  Sum(f) \in Nat /\ Sum(g) \in Nat /\ Sum(f) <= Sum(g)
<1>1. IsFiniteSet(Units(g)) /\ Sum(g) \in Nat
    BY FiniteUnits
<1>2. \A x \in DOMAIN f : \A k \in 1 .. f[x] : k \in 1 .. g[x]
    OBVIOUS
<1>3. Units(f) \subseteq Units(g)
    BY <1>2 DEF Units
<1>4. Cardinality(Units(f)) <= Cardinality(Units(g)) /\ IsFiniteSet(Units(f))
    BY <1>1, <1>3, FS_Subset
<1>5. Sum(f) \in Nat
    BY <1>4, FS_CardinalityType DEF Sum
<1> QED
    BY <1>1, <1>4, <1>5 DEF Sum

(* Two parts of the amounts have in common at least what their totals exceed the whole by *)
LEMMA SumsOverlap ==
    ASSUME NEW f, IsFiniteSet(DOMAIN f), \A x \in DOMAIN f : f[x] \in Nat,
           NEW S \in SUBSET DOMAIN f, NEW T \in SUBSET DOMAIN f
    PROVE  Sum([x \in S |-> f[x]]) + Sum([x \in T |-> f[x]]) <= Sum([x \in S \cap T |-> f[x]]) + Sum(f)
<1> DEFINE s == [x \in S |-> f[x]]
           t == [x \in T |-> f[x]]
           common == [x \in S \cap T |-> f[x]]
<1>1. IsFiniteSet(Units(f)) /\ Sum(f) \in Nat
    BY FiniteUnits
<1>2. Units(s) \subseteq Units(f) /\ Units(t) \subseteq Units(f)
    BY DEF Units
<1>3. Units(s) \cap Units(t) = Units(common)
    <2>1. \A x, k : <<x, k>> \in Units(s) <=> x \in S /\ k \in 1 .. f[x]
        BY DEF Units
    <2>2. \A x, k : <<x, k>> \in Units(t) <=> x \in T /\ k \in 1 .. f[x]
        BY DEF Units
    <2>3. \A x, k : <<x, k>> \in Units(common) <=> x \in S \cap T /\ k \in 1 .. f[x]
        BY DEF Units
    <2>4. \A u \in Units(s) : \E x, k : u = <<x, k>>
        BY DEF Units
    <2>5. \A u \in Units(common) : \E x, k : u = <<x, k>>
        BY DEF Units
    <2> QED
        BY <2>1, <2>2, <2>3, <2>4, <2>5
<1> HIDE DEF s, t, common
<1>4. IsFiniteSet(Units(s)) /\ IsFiniteSet(Units(t))
    BY <1>1, <1>2, FS_Subset
<1>5. /\ Cardinality(Units(s) \cup Units(t))
            = Cardinality(Units(s)) + Cardinality(Units(t)) - Cardinality(Units(s) \cap Units(t))
      /\ IsFiniteSet(Units(s) \cap Units(t))
    <2>1. IsFiniteSet(Units(s) \cap Units(t))
        BY <1>4, FS_Subset
    <2> QED
        BY <1>4, <2>1, FS_Union
<1>6. Units(s) \cup Units(t) \subseteq Units(f)
    BY <1>2
<1>7. Cardinality(Units(s) \cup Units(t)) <= Cardinality(Units(f)) /\ IsFiniteSet(Units(s) \cup Units(t))
    BY <1>1, <1>6, FS_Subset
<1>8. /\ Cardinality(Units(s)) \in Nat /\ Cardinality(Units(t)) \in Nat
      /\ Cardinality(Units(s) \cap Units(t)) \in Nat /\ Cardinality(Units(s) \cup Units(t)) \in Nat
    BY <1>4, <1>5, <1>7, FS_CardinalityType
<1>9. Sum(s) + Sum(t) <= Sum(common) + Sum(f)
    <2> DEFINE union == Cardinality(Units(s) \cup Units(t))
               meet == Cardinality(Units(s) \cap Units(t))
    <2>1. Sum(s) = Cardinality(Units(s)) /\ Sum(t) = Cardinality(Units(t)) /\ Sum(common) = meet
        BY <1>3 DEF Sum
    <2>2. union <= Sum(f)
        BY <1>7 DEF Sum
    <2>3. union = Sum(s) + Sum(t) - meet
        BY <1>5, <2>1
    <2>4. Sum(s) \in Nat /\ Sum(t) \in Nat /\ meet \in Nat /\ union \in Nat
        BY <1>8, <2>1
    <2> HIDE DEF union, meet
    <2> QED
        BY <1>1, <2>1, <2>2, <2>3, <2>4
<1> QED
    BY <1>9 DEF s, t, common

(* The total is that of any part and that of the rest *)
LEMMA SumSplit ==
    ASSUME NEW f, IsFiniteSet(DOMAIN f), \A x \in DOMAIN f : f[x] \in Nat,
           NEW S \in SUBSET DOMAIN f
    PROVE  /\ Sum([x \in S |-> f[x]]) \in Nat /\ Sum([x \in DOMAIN f \ S |-> f[x]]) \in Nat
           /\ Sum(f) = Sum([x \in S |-> f[x]]) + Sum([x \in DOMAIN f \ S |-> f[x]])
<1> DEFINE s == [x \in S |-> f[x]]
           t == [x \in DOMAIN f \ S |-> f[x]]
<1>1. IsFiniteSet(Units(f))
    BY FiniteUnits
<1>2. \A x, k : <<x, k>> \in Units(s) <=> x \in S /\ k \in 1 .. f[x]
    BY DEF Units
<1>3. \A x, k : <<x, k>> \in Units(t) <=> x \in DOMAIN f \ S /\ k \in 1 .. f[x]
    BY DEF Units
<1>4. \A u \in Units(s) \cup Units(t) \cup Units(f) : \E x, k : u = <<x, k>>
    BY DEF Units
<1>5. Units(s) \cap Units(t) = {} /\ Units(s) \cup Units(t) = Units(f)
    <2>1. \A x, k : <<x, k>> \in Units(f) <=> x \in DOMAIN f /\ k \in 1 .. f[x]
        BY DEF Units
    <2> HIDE DEF s, t
    <2> QED
        BY <1>2, <1>3, <1>4, <2>1
<1> HIDE DEF s, t
<1>6. IsFiniteSet(Units(s)) /\ IsFiniteSet(Units(t))
    BY <1>1, <1>5, FS_Subset
<1>7. /\ Cardinality(Units(s)) \in Nat /\ Cardinality(Units(t)) \in Nat
      /\ Cardinality(Units(s) \cup Units(t)) = Cardinality(Units(s)) + Cardinality(Units(t))
    BY <1>5, <1>6, UnitsAddUp
<1>8. Sum(s) \in Nat /\ Sum(t) \in Nat /\ Sum(f) = Sum(s) + Sum(t)
    BY <1>5, <1>7 DEF Sum
<1> QED
    BY <1>8 DEF s, t

(* Every amount may be zero: the total of equal amounts is equal *)
LEMMA SumSame ==
    ASSUME NEW f, NEW g, DOMAIN g = DOMAIN f, \A x \in DOMAIN f : g[x] = f[x]
    PROVE  Units(g) = Units(f) /\ Sum(g) = Sum(f)
<1>1. Units(g) = Units(f)
    BY DEF Units
<1> QED
    BY <1>1 DEF Sum

(* A set of natural numbers that is not empty has a least element *)
LEMMA LeastNumber ==
    ASSUME NEW T, T \subseteq Nat, T # {}
    PROVE  \E x \in T : \A y \in T : x <= y
<1>1. \E x \in T : \A y \in T : <<y, x>> \notin OpToRel(<, Nat)
    BY NatLessThanWellFounded, WFMin
<1>2. \A x, y \in Nat : <<y, x>> \in OpToRel(<, Nat) <=> y < x
    BY DEF OpToRel
<1>3. PICK x \in T : \A y \in T : <<y, x>> \notin OpToRel(<, Nat)
    BY <1>1
<1>4. \A y \in T : y \in Nat /\ x \in Nat /\ ~(y < x)
    BY <1>2, <1>3
<1>5. \A y \in T : x <= y
    BY <1>4
<1> QED
    BY <1>5

(* What holds of 0 and of the next number holds up to any number *)
LEMMA CountUp ==
    ASSUME NEW N \in Nat, NEW T, 0 \in T, \A n \in 1 .. N : n - 1 \in T => n \in T
    PROVE  0 .. N \subseteq T
<1> DEFINE Missing == {n \in 0 .. N : n \notin T}
<1>1. SUFFICES ASSUME Missing # {} PROVE FALSE
    OBVIOUS
<1>2. Missing \subseteq Nat
    OBVIOUS
<1>3. PICK n \in Missing : \A y \in Missing : n <= y
    <2> HIDE DEF Missing
    <2> QED
        BY <1>1, <1>2, LeastNumber
<1>4. n \in 0 .. N /\ n # 0
    OBVIOUS
<1>5. n - 1 \notin Missing
    <2> HIDE DEF Missing
    <2> QED
        BY <1>3, <1>4
<1>6. n - 1 \in T /\ n \in 1 .. N
    BY <1>4, <1>5
<1> QED
    BY <1>6

-----------------------------------------------------------------------------
(* Multiplication and division keep the order *)
LEMMA ProductKeepsOrder ==
    ASSUME NEW a \in Nat, NEW b \in Nat, NEW c \in Nat, a <= b
    PROVE  a * c \in Nat /\ b * c \in Nat /\ a * c <= b * c
OBVIOUS

(* A quotient with its remainder *)
LEMMA Division ==
    ASSUME NEW a \in Nat, NEW b \in Nat \ {0}
    PROVE  a \div b \in Nat /\ a % b \in 0 .. b - 1 /\ a = b * (a \div b) + (a % b)
OBVIOUS

(* A quotient is at most what its divisor must be taken to reach the dividend *)
LEMMA QuotientAtMost ==
    ASSUME NEW a \in Nat, NEW b \in Nat \ {0}, NEW n \in Nat, a <= n * b
    PROVE  a \div b <= n
<1> DEFINE q == a \div b
<1>1. q \in Nat /\ a % b \in 0 .. b - 1 /\ a = b * q + (a % b)
    BY Division
<1> HIDE DEF q
<1>2. SUFFICES ASSUME n < q PROVE FALSE
    BY <1>1 DEF q
<1>3. (n + 1) * b <= q * b
    BY <1>1, <1>2, ProductKeepsOrder
<1>4. (n + 1) * b = n * b + b /\ n * b \in Nat /\ q * b = b * q /\ q * b \in Nat
    BY <1>1
<1> QED
    BY <1>1, <1>3, <1>4

(* Of two dividends the greater has the greater quotient *)
LEMMA QuotientKeepsOrder ==
    ASSUME NEW a \in Nat, NEW c \in Nat, NEW b \in Nat \ {0}, a <= c
    PROVE  a \div b <= c \div b
<1> DEFINE q == c \div b
           p == a \div b
<1>1. q \in Nat /\ c % b \in 0 .. b - 1 /\ c = b * q + (c % b)
    BY Division
<1>2. p \in Nat /\ a % b \in 0 .. b - 1 /\ a = b * p + (a % b)
    BY Division
<1> HIDE DEF q, p
<1>3. SUFFICES ASSUME q < p PROVE FALSE
    BY <1>1, <1>2 DEF q, p
<1>4. (q + 1) * b <= p * b
    BY <1>1, <1>2, <1>3, ProductKeepsOrder
<1>5. (q + 1) * b = q * b + b /\ q * b \in Nat /\ q * b = b * q /\ p * b \in Nat /\ p * b = b * p
    BY <1>1, <1>2
<1> QED
    BY <1>1, <1>2, <1>4, <1>5
=============================================================================
