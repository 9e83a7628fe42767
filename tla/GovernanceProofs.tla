-------------------------- MODULE GovernanceProofs --------------------------
(***************************************************************************)
(* Public governance, for any addresses, contents, amounts and bounds.      *)
(***************************************************************************)
EXTENDS Voting, Emergency, SequenceTheorems

-----------------------------------------------------------------------------
(* The treasury *)

Spending == [amount : Nat, signers : SUBSET Guardian, executed : BOOLEAN]
Period   == [from : Nat, to : Nat, limits : [Tracks -> Nat], spent : [Tracks -> Nat]]
Grant    == [plan : Seq(Nat), released : SUBSET Nat, revoked : BOOLEAN]
Schedule == [total : Nat, start : Nat, cliff : Nat, duration : Nat \ {0}, claimed : Nat,
             revoked : BOOLEAN, grant : Nat]
TreasuryRecord == [bal : [Tracks -> Nat], log : [Tracks -> Int], guardians : SUBSET Guardian,
                   spends : Seq(Spending), periods : Seq(Period), grants : Seq(Grant)]

FundsTyped ==
    /\ fundHeight \in Nat
    /\ treasury \in TreasuryRecord
    /\ schedules \in Seq(Schedule)
    /\ fees \in [routed : Nat, producer : Nat, treasury : Nat, burned : Nat]
    /\ outside \in [deposited : Nat, paid : Nat, refunded : Nat]

(* A record u of the treasury that differs from t in the balance of one track by d, in *)
(* its log by e, and in nothing else of the two                                         *)
Moves(t, u, track, d, e) ==
    /\ u.bal[track] = t.bal[track] + d /\ u.log[track] = t.log[track] + e
    /\ \A k \in Tracks \ {track} : u.bal[k] = t.bal[k] /\ u.log[k] = t.log[k]

(* The tracks are five *)
LEMMA FiniteTracks == IsFiniteSet(Tracks)
<1>1. Tracks = (((({} \cup {"CORE_DEVELOPMENT"}) \cup {"GRANTS"}) \cup {"OPERATIONS"})
                \cup {"EMERGENCY"}) \cup {"UNCATEGORIZED"}
    BY DEF Tracks
<1> QED
    BY <1>1, FS_EmptySet, FS_AddElement

Entry(t, track, d, e) ==
    [t EXCEPT !.bal = [t.bal EXCEPT ![track] = t.bal[track] + d],
              !.log = [t.log EXCEPT ![track] = t.log[track] + e]]

(* An entry in the balances and one in the log *)
LEMMA EntryMoves ==
    ASSUME NEW t \in TreasuryRecord, NEW track \in Tracks, NEW d \in Int, NEW e \in Int,
           t.bal[track] + d \in Nat
    PROVE  LET u == Entry(t, track, d, e) IN
           /\ u \in TreasuryRecord /\ Moves(t, u, track, d, e)
           /\ u.guardians = t.guardians /\ u.spends = t.spends
           /\ u.periods = t.periods /\ u.grants = t.grants
<1> DEFINE u == Entry(t, track, d, e)
           bal == [t.bal EXCEPT ![track] = t.bal[track] + d]
           log == [t.log EXCEPT ![track] = t.log[track] + e]
<1>1. t.bal \in [Tracks -> Nat] /\ t.log \in [Tracks -> Int]
    BY DEF TreasuryRecord
<1>2. /\ bal \in [Tracks -> Nat] /\ bal[track] = t.bal[track] + d
      /\ \A k \in Tracks \ {track} : bal[k] = t.bal[k]
    BY <1>1
<1>3. /\ log \in [Tracks -> Int] /\ log[track] = t.log[track] + e
      /\ \A k \in Tracks \ {track} : log[k] = t.log[k]
    BY <1>1
<1>4. u = [t EXCEPT !.bal = bal, !.log = log]
    BY DEF Entry
<1> HIDE DEF bal, log, u
<1>5. /\ u \in TreasuryRecord /\ u.bal = bal /\ u.log = log
      /\ u.guardians = t.guardians /\ u.spends = t.spends
      /\ u.periods = t.periods /\ u.grants = t.grants
    BY <1>2, <1>3, <1>4 DEF TreasuryRecord
<1>6. Moves(t, u, track, d, e)
    BY <1>2, <1>3, <1>5 DEF Moves
<1> QED
    BY <1>5, <1>6 DEF u

(* DepositTo moves both the balance and the log of its track *)
LEMMA DepositMoves ==
    ASSUME NEW t \in TreasuryRecord, NEW track \in Tracks, NEW a \in Nat
    PROVE  LET u == DepositTo(t, track, a) IN
           /\ u \in TreasuryRecord /\ Moves(t, u, track, a, a)
           /\ u.guardians = t.guardians /\ u.spends = t.spends
           /\ u.periods = t.periods /\ u.grants = t.grants
<1> DEFINE u == DepositTo(t, track, a)
<1>1. u = Entry(t, track, a, a)
    BY DEF Entry, DepositTo, Logged, TreasuryRecord
<1>2. t.bal[track] + a \in Nat
    BY DEF TreasuryRecord
<1> HIDE DEF u
<1>3. a \in Int
    OBVIOUS
<1>4. /\ u \in TreasuryRecord /\ Moves(t, u, track, a, a)
      /\ u.guardians = t.guardians /\ u.spends = t.spends
      /\ u.periods = t.periods /\ u.grants = t.grants
    BY <1>1, <1>2, <1>3, EntryMoves
<1> QED
    BY <1>4 DEF u

(* So does a payment, by as much less *)
LEMMA PaymentMoves ==
    ASSUME NEW t \in TreasuryRecord, NEW track \in Tracks, NEW a \in Nat, a <= t.bal[track]
    PROVE  LET u == Logged([t EXCEPT !.bal[track] = @ - a], track, -a) IN
           /\ u \in TreasuryRecord /\ Moves(t, u, track, -a, -a)
           /\ u.guardians = t.guardians /\ u.spends = t.spends
           /\ u.periods = t.periods /\ u.grants = t.grants
<1> DEFINE u == Logged([t EXCEPT !.bal[track] = @ - a], track, -a)
           d == -a
<1>1. t.bal[track] - a = t.bal[track] + d /\ t.bal[track] + d \in Nat
    BY DEF TreasuryRecord
<1>2. u = Entry(t, track, d, d)
    BY <1>1 DEF Entry, Logged, TreasuryRecord
<1>3. d \in Int
    OBVIOUS
<1> HIDE DEF u, d
<1>4. /\ u \in TreasuryRecord /\ Moves(t, u, track, d, d)
      /\ u.guardians = t.guardians /\ u.spends = t.spends
      /\ u.periods = t.periods /\ u.grants = t.grants
    BY <1>1, <1>2, <1>3, EntryMoves
<1> QED
    BY <1>4 DEF u, d

(* The total of the balances follows the one that moves *)
LEMMA TotalMoves ==
    ASSUME NEW t \in TreasuryRecord, NEW u \in TreasuryRecord, NEW track \in Tracks,
           NEW d \in Int, NEW e, Moves(t, u, track, d, e)
    PROVE  Sum(t.bal) \in Nat /\ Sum(u.bal) \in Nat /\ Sum(u.bal) = Sum(t.bal) + d
<1>1. /\ DOMAIN t.bal = Tracks /\ DOMAIN u.bal = Tracks
      /\ \A k \in Tracks : t.bal[k] \in Nat /\ u.bal[k] \in Nat
    BY DEF TreasuryRecord
<1>2. IsFiniteSet(Units(t.bal)) /\ Sum(t.bal) \in Nat
    BY <1>1, FiniteTracks, FiniteUnits
<1>3. IsFiniteSet(Units(u.bal)) /\ Sum(u.bal) \in Nat
    BY <1>1, FiniteTracks, FiniteUnits
<1>4. \A k \in Tracks : k # track => u.bal[k] = t.bal[k]
    BY DEF Moves
<1>5. Sum(u.bal) + t.bal[track] = Sum(t.bal) + u.bal[track]
    BY <1>1, <1>2, <1>4, SumChange
<1> QED
    BY <1>1, <1>2, <1>3, <1>5 DEF Moves

(* What is left of a grant is a number, and a milestone that is released takes its *)
(* amount from it                                                                  *)
LEMMA MilestonesAddUp ==
    ASSUME NEW g \in Grant
    PROVE  /\ Unreleased(g) \in Nat /\ Reservation(g) \in Nat /\ Sum(g.plan) \in Nat
           /\ g.released = {} => Unreleased(g) = Sum(g.plan)
           /\ \A m \in DOMAIN g.plan \ g.released :
                 g.plan[m] \in Nat /\
                 Unreleased([g EXCEPT !.released = @ \cup {m}]) + g.plan[m] = Unreleased(g)
<1> DEFINE left(S) == [m \in DOMAIN g.plan \ S |-> g.plan[m]]
<1>1. /\ g.plan \in Seq(Nat) /\ DOMAIN g.plan = 1 .. Len(g.plan) /\ Len(g.plan) \in Nat
      /\ \A m \in DOMAIN g.plan : g.plan[m] \in Nat
    BY DEF Grant
<1>2. IsFiniteSet(DOMAIN g.plan)
    <2>1. 1 \in Int /\ Len(g.plan) \in Int
        BY ONLY <1>1
    <2>2. IsFiniteSet(1 .. Len(g.plan))
        BY ONLY <2>1, FS_Interval
    <2> QED
        BY ONLY <1>1, <2>2
<1>3. ASSUME NEW S PROVE IsFiniteSet(Units(left(S))) /\ Sum(left(S)) \in Nat
    <2>1. IsFiniteSet(DOMAIN g.plan \ S)
        BY <1>2, FS_Difference
    <2> QED
        BY <1>1, <2>1, FiniteUnits
<1>4. Unreleased(g) = Sum(left(g.released)) /\ Unreleased(g) \in Nat /\ Reservation(g) \in Nat
    BY <1>3 DEF Unreleased, Reservation
<1>5. Sum(g.plan) \in Nat
    BY <1>1, <1>2, FiniteUnits
<1>6. g.released = {} => Unreleased(g) = Sum(g.plan)
    <2> SUFFICES ASSUME g.released = {} PROVE Sum(left(g.released)) = Sum(g.plan)
        BY <1>4
    <2> QED
        BY SumSame
<1>7. ASSUME NEW m \in DOMAIN g.plan \ g.released
      PROVE  g.plan[m] \in Nat /\
             Unreleased([g EXCEPT !.released = @ \cup {m}]) + g.plan[m] = Unreleased(g)
    <2> DEFINE h == [g EXCEPT !.released = @ \cup {m}]
               f == left(g.released \cup {m})
               e == left(g.released)
    <2>1. h.plan = g.plan /\ h.released = g.released \cup {m}
        BY DEF Grant
    <2>2. Unreleased(h) = Sum(f)
        BY <2>1 DEF Unreleased
    <2>3. /\ m \notin DOMAIN f /\ DOMAIN e = DOMAIN f \cup {m} /\ e[m] = g.plan[m]
          /\ \A y \in DOMAIN f : e[y] = f[y]
        OBVIOUS
    <2>4. IsFiniteSet(Units(f)) /\ Sum(f) \in Nat /\ e[m] \in Nat
        BY <1>1, <1>3, <2>3
    <2>5. Sum(e) = Sum(f) + e[m]
        BY <2>3, <2>4, SumOneMore
    <2> QED
        BY <1>1, <1>4, <2>2, <2>3, <2>4, <2>5
<1> QED
    BY <1>4, <1>5, <1>6, <1>7

(* The reservations follow the grant that changes, and grow by one that is made *)
LEMMA ReservationsMove ==
    ASSUME treasury \in TreasuryRecord, treasury' \in TreasuryRecord
    PROVE  /\ Reserved \in Nat /\ Reserved' \in Nat
           /\ \A i \in DOMAIN treasury.grants :
                 /\ DOMAIN treasury'.grants = DOMAIN treasury.grants
                 /\ \A k \in DOMAIN treasury.grants \ {i} : treasury'.grants[k] = treasury.grants[k]
                 => Reserved' + Reservation(treasury.grants[i])
                    = Reserved + Reservation(treasury'.grants[i])
           /\ \A g \in Grant : treasury'.grants = Append(treasury.grants, g)
                 => Reserved' = Reserved + Reservation(g)
           /\ treasury'.grants = treasury.grants => Reserved' = Reserved
<1> DEFINE f == [i \in DOMAIN treasury.grants |-> Reservation(treasury.grants[i])]
           h == [i \in DOMAIN treasury'.grants |-> Reservation(treasury'.grants[i])]
           G == treasury.grants
           H == treasury'.grants
<1>1. /\ G \in Seq(Grant) /\ DOMAIN G = 1 .. Len(G) /\ Len(G) \in Nat
      /\ H \in Seq(Grant) /\ DOMAIN H = 1 .. Len(H) /\ Len(H) \in Nat
    BY DEF TreasuryRecord
<1>2. (\A i \in DOMAIN f : f[i] \in Nat) /\ (\A i \in DOMAIN h : h[i] \in Nat)
    <2>1. (\A i \in DOMAIN G : G[i] \in Grant) /\ (\A i \in DOMAIN H : H[i] \in Grant)
        BY <1>1
    <2>2. \A g \in Grant : Reservation(g) \in Nat
        BY MilestonesAddUp
    <2> QED
        BY <2>1, <2>2
<1>3. IsFiniteSet(DOMAIN f) /\ IsFiniteSet(DOMAIN h)
    BY <1>1, FS_Interval
<1>4. /\ IsFiniteSet(Units(f)) /\ Sum(f) \in Nat
      /\ IsFiniteSet(Units(h)) /\ Sum(h) \in Nat
    BY <1>2, <1>3, FiniteUnits
<1>5. Reserved = Sum(f) /\ Reserved' = Sum(h)
    BY DEF Reserved, Sum, Units, Reservation, Unreleased
<1>6. ASSUME NEW i \in DOMAIN G, DOMAIN H = DOMAIN G, \A k \in DOMAIN G \ {i} : H[k] = G[k]
      PROVE  Sum(h) + Reservation(G[i]) = Sum(f) + Reservation(H[i])
    <2>1. /\ i \in DOMAIN f /\ DOMAIN h = DOMAIN f /\ f[i] = Reservation(G[i])
          /\ h[i] = Reservation(H[i]) /\ \A k \in DOMAIN f : k # i => h[k] = f[k]
        BY <1>6
    <2>2. f[i] \in Nat /\ h[i] \in Nat
        BY <1>2, <2>1
    <2>3. Sum(h) + f[i] = Sum(f) + h[i]
        BY <1>4, <2>1, <2>2, SumChange
    <2> QED
        BY <2>1, <2>3
<1>7. ASSUME NEW g \in Grant, H = Append(G, g) PROVE Sum(h) = Sum(f) + Reservation(g)
    <2> DEFINE n == Len(G) + 1
    <2>1. /\ DOMAIN h = DOMAIN f \cup {n} /\ n \notin DOMAIN f /\ H[n] = g
          /\ \A k \in DOMAIN f : H[k] = G[k]
        BY <1>1, <1>7
    <2>2. h[n] = Reservation(g) /\ h[n] \in Nat /\ \A k \in DOMAIN f : h[k] = f[k]
        BY <1>2, <2>1
    <2>3. Sum(h) = Sum(f) + h[n]
        BY <1>4, <2>1, <2>2, SumOneMore
    <2> QED
        BY <2>2, <2>3
<1>8. ASSUME H = G PROVE Sum(h) = Sum(f)
    BY <1>8
<1> QED
    BY <1>4, <1>5, <1>6, <1>7, <1>8

(* The books balance as long as every grant reserves what it promises *)
BooksKept == WholeGrants => MoneyKept /\ LogExplains

(* The plans of the grants never change, and a new grant only adds one *)
LEMMA PlansStay ==
    ASSUME treasury \in TreasuryRecord, treasury' \in TreasuryRecord, WholeGrants',
           Len(treasury.grants) <= Len(treasury'.grants),
           \A i \in DOMAIN treasury.grants : treasury'.grants[i].plan = treasury.grants[i].plan
    PROVE  WholeGrants
<1> SUFFICES ASSUME NEW i \in DOMAIN treasury.grants
             PROVE  Sum(treasury.grants[i].plan) < FundWord
    BY DEF WholeGrants
<1>1. i \in DOMAIN treasury'.grants
    BY DEF TreasuryRecord
<1>2. Sum(treasury'.grants[i].plan) < FundWord
    BY <1>1 DEF WholeGrants, Sum, Units
<1> QED
    BY <1>2

(* One account moves by d, its log by e, and what is reserved by r *)
LEMMA BooksBalance ==
    ASSUME FundsTyped, MoneyKept, LogExplains, treasury' \in TreasuryRecord,
           NEW track \in Tracks, NEW d \in Int, NEW e \in Int, NEW r \in Int,
           Moves(treasury, treasury', track, d, e), Reserved' = Reserved + r,
           outside' \in [deposited : Nat, paid : Nat, refunded : Nat],
           outside'.deposited + outside.paid = outside.deposited + outside'.paid + d + r,
           IF track = "GRANTS" THEN e + outside.refunded = d + r + outside'.refunded
           ELSE e = d /\ r = 0 /\ outside'.refunded = outside.refunded
    PROVE  MoneyKept' /\ LogExplains'
<1>1. /\ treasury \in TreasuryRecord
      /\ outside.deposited \in Nat /\ outside.paid \in Nat /\ outside.refunded \in Nat
      /\ outside'.deposited \in Nat /\ outside'.paid \in Nat /\ outside'.refunded \in Nat
    BY DEF FundsTyped
<1>2. /\ Sum(treasury.bal) \in Nat /\ Sum(treasury'.bal) \in Nat
      /\ Sum(treasury'.bal) = Sum(treasury.bal) + d
    BY <1>1, TotalMoves
<1>3. Reserved \in Nat /\ Reserved' \in Nat
    BY <1>1, ReservationsMove
<1>4. Sum(treasury.bal)' = Sum(treasury'.bal)
    BY DEF Sum, Units
<1>5. outside'.deposited = Sum(treasury.bal)' + Reserved' + outside'.paid
    BY <1>1, <1>2, <1>3, <1>4 DEF MoneyKept
<1>6. ASSUME NEW k \in Tracks
      PROVE  treasury'.log[k] = treasury'.bal[k] +
                (IF k = "GRANTS" THEN Reserved' + outside'.refunded ELSE 0)
    <2>1. /\ treasury.log[k] \in Int /\ treasury.bal[k] \in Nat
          /\ treasury'.log[k] \in Int /\ treasury'.bal[k] \in Nat
        BY <1>1 DEF TreasuryRecord
    <2>2. treasury.log[k] = treasury.bal[k] +
             (IF k = "GRANTS" THEN Reserved + outside.refunded ELSE 0)
        BY DEF LogExplains
    <2>3. IF k = track THEN treasury'.bal[k] = treasury.bal[k] + d /\ treasury'.log[k] = treasury.log[k] + e
          ELSE treasury'.bal[k] = treasury.bal[k] /\ treasury'.log[k] = treasury.log[k]
        BY DEF Moves
    <2> QED
        BY <1>1, <1>3, <2>1, <2>2, <2>3
<1> QED
    BY <1>5, <1>6 DEF MoneyKept, LogExplains

(* A payment from a track: what Spend, an executed proposal and the guardians do *)
LEMMA PaymentKeepsBooks ==
    ASSUME FundsTyped, BooksKept, NEW track \in Tracks, NEW a \in Nat,
           treasury' \in TreasuryRecord, Moves(treasury, treasury', track, -a, -a),
           treasury'.grants = treasury.grants,
           outside' = [outside EXCEPT !.paid = @ + a]
    PROVE  /\ BooksKept' /\ outside' \in [deposited : Nat, paid : Nat, refunded : Nat]
           /\ outside'.deposited = outside.deposited
<1> DEFINE d == -a
           r == 0
<1>1. treasury \in TreasuryRecord /\ outside \in [deposited : Nat, paid : Nat, refunded : Nat]
    BY DEF FundsTyped
<1>2. Reserved \in Nat /\ Reserved' = Reserved + r
    BY <1>1, ReservationsMove
<1>3. /\ outside' \in [deposited : Nat, paid : Nat, refunded : Nat]
      /\ outside'.deposited = outside.deposited /\ outside'.refunded = outside.refunded
      /\ outside'.paid = outside.paid + a
    BY <1>1
<1>4. /\ d \in Int /\ r \in Int
      /\ outside'.deposited + outside.paid = outside.deposited + outside'.paid + d + r
      /\ IF track = "GRANTS" THEN d + outside.refunded = d + r + outside'.refunded
         ELSE d = d /\ r = 0 /\ outside'.refunded = outside.refunded
    BY <1>1, <1>3
<1>5. Moves(treasury, treasury', track, d, d)
    OBVIOUS
<1> HIDE DEF d, r
<1>6. ASSUME WholeGrants' PROVE MoneyKept' /\ LogExplains'
    <2>1. WholeGrants
        BY <1>1, <1>6, PlansStay DEF TreasuryRecord
    <2>2. MoneyKept /\ LogExplains
        BY <2>1 DEF BooksKept
    <2> QED
        BY <1>2, <1>3, <1>4, <1>5, <2>2, BooksBalance
<1> QED
    BY <1>3, <1>6 DEF BooksKept

(* A deposit in a track: what Deposit and the fee router do *)
LEMMA DepositKeepsBooks ==
    ASSUME FundsTyped, BooksKept, NEW track \in Tracks, NEW a \in Nat,
           treasury' = DepositTo(treasury, track, a),
           outside' = [outside EXCEPT !.deposited = @ + a]
    PROVE  /\ BooksKept' /\ treasury' \in TreasuryRecord
           /\ outside' \in [deposited : Nat, paid : Nat, refunded : Nat]
           /\ outside'.deposited = outside.deposited + a
<1> DEFINE r == 0
<1>1. treasury \in TreasuryRecord /\ outside \in [deposited : Nat, paid : Nat, refunded : Nat]
    BY DEF FundsTyped
<1>2. /\ treasury' \in TreasuryRecord /\ Moves(treasury, treasury', track, a, a)
      /\ treasury'.grants = treasury.grants
    BY <1>1, DepositMoves
<1>3. Reserved \in Nat /\ Reserved' = Reserved + r
    BY <1>1, <1>2, ReservationsMove
<1>4. /\ outside' \in [deposited : Nat, paid : Nat, refunded : Nat]
      /\ outside'.deposited = outside.deposited + a /\ outside'.refunded = outside.refunded
      /\ outside'.paid = outside.paid
    BY <1>1
<1>5. /\ a \in Int /\ r \in Int
      /\ outside'.deposited + outside.paid = outside.deposited + outside'.paid + a + r
      /\ IF track = "GRANTS" THEN a + outside.refunded = a + r + outside'.refunded
         ELSE a = a /\ r = 0 /\ outside'.refunded = outside.refunded
    BY <1>1, <1>4
<1> HIDE DEF r
<1>6. ASSUME WholeGrants' PROVE MoneyKept' /\ LogExplains'
    <2>1. WholeGrants
        BY <1>1, <1>2, <1>6, PlansStay DEF TreasuryRecord
    <2>2. MoneyKept /\ LogExplains
        BY <2>1 DEF BooksKept
    <2> QED
        BY <1>2, <1>3, <1>4, <1>5, <2>2, BooksBalance
<1> QED
    BY <1>2, <1>4, <1>6 DEF BooksKept

(* SpendFrom charges the period in force beside the payment *)
LEMMA SpendFromMoves ==
    ASSUME NEW t \in TreasuryRecord, NEW track \in Tracks, NEW a \in Nat, NEW h \in Nat,
           a <= t.bal[track]
    PROVE  LET u == SpendFrom(t, track, a, h) IN
           /\ u \in TreasuryRecord /\ Moves(t, u, track, -a, -a)
           /\ u.grants = t.grants /\ u.spends = t.spends /\ u.guardians = t.guardians
           /\ DOMAIN u.periods = DOMAIN t.periods
           /\ \A i \in DOMAIN t.periods :
                 /\ u.periods[i].limits = t.periods[i].limits
                 /\ \A k \in Tracks :
                       u.periods[i].spent[k] =
                          t.periods[i].spent[k] +
                          (IF Covering(t, h) # {} /\ i = Min(Covering(t, h)) /\ k = track
                           THEN a ELSE 0)
<1> DEFINE paid == Logged([t EXCEPT !.bal[track] = @ - a], track, -a)
           u == SpendFrom(t, track, a, h)
<1>1. /\ paid \in TreasuryRecord /\ Moves(t, paid, track, -a, -a)
      /\ paid.grants = t.grants /\ paid.spends = t.spends /\ paid.guardians = t.guardians
      /\ paid.periods = t.periods
    BY PaymentMoves
<1>2. /\ t.periods \in Seq(Period) /\ DOMAIN t.periods = 1 .. Len(t.periods)
      /\ \A i \in DOMAIN t.periods : t.periods[i] \in Period
    BY DEF TreasuryRecord
<1>3. CASE Covering(t, h) = {}
    <2>1. Covering([t EXCEPT !.bal[track] = @ - a], h) = {}
        BY <1>3 DEF Covering, TreasuryRecord
    <2>2. u = paid
        BY <2>1 DEF SpendFrom, Charged
    <2>3. \A i \in DOMAIN t.periods : \A k \in Tracks : t.periods[i].spent[k] \in Nat
        BY <1>2 DEF Period
    <2> QED
        BY <1>1, <1>3, <2>2, <2>3
<1>4. CASE Covering(t, h) # {}
    <2> DEFINE n == Min(Covering(t, h))
               p == t.periods[n]
               q == [p EXCEPT !.spent = [p.spent EXCEPT ![track] = p.spent[track] + a]]
               ps == [t.periods EXCEPT ![n] = q]
    <2>1. Covering([t EXCEPT !.bal[track] = @ - a], h) = Covering(t, h)
        BY DEF Covering, TreasuryRecord
    <2>2. n \in DOMAIN t.periods
        <3>1. Covering(t, h) \subseteq Nat /\ Covering(t, h) \subseteq DOMAIN t.periods
            BY <1>2 DEF Covering
        <3>2. \E x \in Covering(t, h) : \A y \in Covering(t, h) : x <= y
            BY <1>4, <3>1, LeastNumber
        <3>3. n \in Covering(t, h)
            BY <3>2 DEF Min
        <3> QED
            BY <3>1, <3>3
    <2>3. u = [paid EXCEPT !.periods = ps]
        BY <1>4, <2>1 DEF SpendFrom, Charged, Logged, TreasuryRecord
    <2> HIDE DEF n
    <2>4. p \in Period /\ p.spent \in [Tracks -> Nat]
        BY <1>2, <2>2 DEF Period
    <2>5. /\ q \in Period /\ q.limits = p.limits /\ q.spent[track] = p.spent[track] + a
          /\ \A k \in Tracks \ {track} : q.spent[k] = p.spent[k]
        BY <2>4 DEF Period
    <2>6. /\ ps \in Seq(Period) /\ DOMAIN ps = DOMAIN t.periods /\ ps[n] = q
          /\ \A i \in DOMAIN t.periods \ {n} : ps[i] = t.periods[i]
        BY <1>2, <2>2, <2>5
    <2> HIDE DEF ps, q, u, paid
    <2>7. /\ u \in TreasuryRecord /\ u.periods = ps /\ u.bal = paid.bal /\ u.log = paid.log
          /\ u.grants = paid.grants /\ u.spends = paid.spends /\ u.guardians = paid.guardians
        BY <1>1, <2>3, <2>6 DEF TreasuryRecord
    <2>8. Moves(t, u, track, -a, -a)
        BY <1>1, <2>7 DEF Moves
    <2>9. ASSUME NEW i \in DOMAIN t.periods
          PROVE  /\ u.periods[i].limits = t.periods[i].limits
                 /\ \A k \in Tracks :
                       u.periods[i].spent[k] =
                          t.periods[i].spent[k] + (IF i = n /\ k = track THEN a ELSE 0)
        <3>1. t.periods[i].spent \in [Tracks -> Nat]
            BY <1>2 DEF Period
        <3> QED
            BY <2>5, <2>6, <2>7, <3>1
    <2> QED
        BY <1>1, <1>4, <2>6, <2>7, <2>8, <2>9 DEF n, u
<1> QED
    BY <1>3, <1>4

(* What touches neither balances nor log nor grants keeps the books *)
LEMMA SameBooks ==
    ASSUME FundsTyped, BooksKept, treasury' \in TreasuryRecord,
           treasury'.bal = treasury.bal, treasury'.log = treasury.log,
           treasury'.grants = treasury.grants, outside' = outside
    PROVE  BooksKept'
<1>1. Reserved' = Reserved
    BY ReservationsMove DEF FundsTyped
<1>2. Sum(treasury.bal)' = Sum(treasury.bal)
    BY DEF Sum, Units
<1>3. WholeGrants' => WholeGrants
    BY PlansStay DEF FundsTyped, TreasuryRecord
<1> QED
    BY <1>1, <1>2, <1>3 DEF BooksKept, MoneyKept, LogExplains

-----------------------------------------------------------------------------
(* Every operation of the treasury keeps the types and the books *)

(* What came in fits a word *)
FundsBounded == outside.deposited <= MaxFunds

FundsKept == FundsTyped /\ FundsBounded /\ FundsConserved

(* Deposit *)
LEMMA DepositKeeps ==
    ASSUME FundsKept, NEW track \in Tracks, NEW a \in Nat, Deposit(track, a)
    PROVE  FundsKept'
<1>1. /\ BooksKept' /\ treasury' \in TreasuryRecord
      /\ outside' \in [deposited : Nat, paid : Nat, refunded : Nat]
      /\ outside'.deposited = outside.deposited + a
    BY DepositKeepsBooks DEF Deposit, FundsKept, FundsConserved, BooksKept
<1>2. UNCHANGED <<fundHeight, schedules, fees>> /\ outside'.deposited <= MaxFunds
    BY <1>1 DEF Deposit
<1> QED
    BY <1>1, <1>2 DEF FundsKept, FundsTyped, FundsBounded, FundsConserved, BooksKept, FeesShared

(* Spend, and a proposal that is executed: SpendFrom with the payment *)
LEMMA SpendFromKeeps ==
    ASSUME FundsKept, NEW track \in Tracks, NEW a \in Nat, NEW h \in Nat,
           a <= treasury.bal[track],
           treasury' = SpendFrom(treasury, track, a, h),
           outside' = [outside EXCEPT !.paid = @ + a],
           UNCHANGED <<fundHeight, schedules, fees>>
    PROVE  FundsKept'
<1>1. /\ treasury' \in TreasuryRecord /\ Moves(treasury, treasury', track, -a, -a)
      /\ treasury'.grants = treasury.grants
    BY SpendFromMoves DEF FundsKept, FundsTyped
<1>2. /\ BooksKept' /\ outside' \in [deposited : Nat, paid : Nat, refunded : Nat]
      /\ outside'.deposited = outside.deposited
    BY <1>1, PaymentKeepsBooks DEF FundsKept, FundsConserved, BooksKept
<1> QED
    BY <1>1, <1>2 DEF FundsKept, FundsTyped, FundsBounded, FundsConserved, BooksKept, FeesShared

(* The guardians, their proposals and the budget periods *)
LEMMA RecordsKeep ==
    ASSUME FundsKept, treasury' \in TreasuryRecord,
           treasury'.bal = treasury.bal, treasury'.log = treasury.log,
           treasury'.grants = treasury.grants, UNCHANGED <<fundHeight, schedules, fees, outside>>
    PROVE  FundsKept'
<1>1. BooksKept'
    BY SameBooks DEF FundsKept, FundsConserved, BooksKept
<1> QED
    BY <1>1 DEF FundsKept, FundsTyped, FundsBounded, FundsConserved, BooksKept, FeesShared

(* AddGuardian and RemoveGuardian *)
LEMMA GuardiansKeep ==
    ASSUME FundsKept, NEW g \in Guardian, AddGuardian(g) \/ RemoveGuardian(g)
    PROVE  FundsKept' /\ treasury'.periods = treasury.periods
<1>1. treasury \in TreasuryRecord
    BY DEF FundsKept, FundsTyped
<1>2. PICK S \in SUBSET Guardian : treasury' = [treasury EXCEPT !.guardians = S]
    <2>1. treasury.guardians \in SUBSET Guardian
        BY <1>1 DEF TreasuryRecord
    <2>2. CASE AddGuardian(g)
        <3>1. treasury' = [treasury EXCEPT !.guardians = treasury.guardians \cup {g}]
            BY <2>2 DEF AddGuardian
        <3> QED
            BY <2>1, <3>1
    <2>3. CASE RemoveGuardian(g)
        <3>1. treasury' = [treasury EXCEPT !.guardians = treasury.guardians \ {g}]
            BY <2>3 DEF RemoveGuardian
        <3> QED
            BY <2>1, <3>1
    <2> QED
        BY <2>2, <2>3
<1>3. /\ treasury' \in TreasuryRecord /\ treasury'.bal = treasury.bal
      /\ treasury'.log = treasury.log /\ treasury'.grants = treasury.grants
      /\ treasury'.periods = treasury.periods
    BY <1>1, <1>2 DEF TreasuryRecord
<1>4. UNCHANGED <<fundHeight, schedules, fees, outside>>
    BY DEF AddGuardian, RemoveGuardian
<1> QED
    BY <1>3, <1>4, RecordsKeep

(* ProposeMultiSigSpend and SignMultiSigSpend *)
LEMMA SignaturesKeep ==
    ASSUME FundsKept, NEW g \in Guardian, NEW a \in Nat, NEW i,
           ProposeMultiSigSpend(a, g) \/ SignMultiSigSpend(i, g)
    PROVE  FundsKept' /\ treasury'.periods = treasury.periods
<1>1. treasury \in TreasuryRecord /\ treasury.spends \in Seq(Spending)
    BY DEF FundsKept, FundsTyped, TreasuryRecord
<1>2. PICK ss \in Seq(Spending) : treasury' = [treasury EXCEPT !.spends = ss]
    <2>1. CASE ProposeMultiSigSpend(a, g)
        <3> DEFINE s == [amount |-> a, signers |-> {g}, executed |-> FALSE]
        <3>1. s \in Spending
            BY DEF Spending
        <3>2. Append(treasury.spends, s) \in Seq(Spending)
            BY <1>1, <3>1
        <3>3. treasury' = [treasury EXCEPT !.spends = Append(treasury.spends, s)]
            BY <2>1 DEF ProposeMultiSigSpend
        <3> QED
            BY <3>2, <3>3
    <2>2. CASE SignMultiSigSpend(i, g)
        <3> DEFINE p == treasury.spends[i]
                   s == [p EXCEPT !.signers = p.signers \cup {g}]
        <3>1. i \in DOMAIN treasury.spends /\ p \in Spending
            BY <1>1, <2>2 DEF SignMultiSigSpend
        <3>2. s \in Spending
            BY <3>1 DEF Spending
        <3>3. [treasury.spends EXCEPT ![i] = s] \in Seq(Spending)
            BY <1>1, <3>1, <3>2
        <3>4. treasury' = [treasury EXCEPT !.spends = [treasury.spends EXCEPT ![i] = s]]
            BY <2>2 DEF SignMultiSigSpend
        <3> QED
            BY <3>3, <3>4
    <2> QED
        BY <2>1, <2>2
<1>3. /\ treasury' \in TreasuryRecord /\ treasury'.bal = treasury.bal
      /\ treasury'.log = treasury.log /\ treasury'.grants = treasury.grants
      /\ treasury'.periods = treasury.periods
    BY <1>1, <1>2 DEF TreasuryRecord
<1>4. UNCHANGED <<fundHeight, schedules, fees, outside>>
    BY DEF ProposeMultiSigSpend, SignMultiSigSpend
<1> QED
    BY <1>3, <1>4, RecordsKeep

(* CreateBudgetPeriod *)
LEMMA CreateBudgetPeriodKeeps ==
    ASSUME FundsKept, NEW from \in Nat, NEW to \in Nat, NEW limits \in [Tracks -> Nat],
           CreateBudgetPeriod(from, to, limits)
    PROVE  FundsKept'
<1> DEFINE p == [from |-> from, to |-> to, limits |-> limits, spent |-> [t \in Tracks |-> 0]]
<1>1. treasury \in TreasuryRecord /\ treasury.periods \in Seq(Period)
    BY DEF FundsKept, FundsTyped, TreasuryRecord
<1>2. p \in Period
    BY DEF Period
<1>3. Append(treasury.periods, p) \in Seq(Period)
    BY <1>1, <1>2
<1>4. treasury' = [treasury EXCEPT !.periods = Append(treasury.periods, p)]
    BY DEF CreateBudgetPeriod
<1> HIDE DEF p
<1>5. /\ treasury' \in TreasuryRecord /\ treasury'.bal = treasury.bal
      /\ treasury'.log = treasury.log /\ treasury'.grants = treasury.grants
    BY <1>1, <1>3, <1>4 DEF TreasuryRecord
<1>6. UNCHANGED <<fundHeight, schedules, fees, outside>>
    BY DEF CreateBudgetPeriod
<1> QED
    BY <1>5, <1>6, RecordsKeep

(* ExecuteMultiSigSpend *)
LEMMA ExecuteMultiSigSpendKeeps ==
    ASSUME FundsKept, NEW i, ExecuteMultiSigSpend(i)
    PROVE  FundsKept' /\ treasury'.periods = treasury.periods
<1> DEFINE p == treasury.spends[i]
           a == p.amount
           s == [p EXCEPT !.executed = TRUE]
           mid == [treasury EXCEPT !.spends = [treasury.spends EXCEPT ![i] = s]]
<1>1. treasury \in TreasuryRecord /\ treasury.spends \in Seq(Spending)
    BY DEF FundsKept, FundsTyped, TreasuryRecord
<1>2. p \in Spending /\ i \in DOMAIN treasury.spends
    BY <1>1 DEF ExecuteMultiSigSpend
<1>3. a \in Nat /\ s \in Spending
    BY <1>2 DEF Spending
<1>4. [treasury.spends EXCEPT ![i] = s] \in Seq(Spending)
    BY <1>1, <1>2, <1>3
<1>5. /\ mid \in TreasuryRecord /\ mid.bal = treasury.bal /\ mid.log = treasury.log
      /\ mid.grants = treasury.grants /\ mid.periods = treasury.periods
    BY <1>1, <1>4 DEF TreasuryRecord
<1>6. treasury' = Logged([mid EXCEPT !.bal["EMERGENCY"] = @ - a], "EMERGENCY", -a)
    BY <1>1 DEF ExecuteMultiSigSpend, Logged, TreasuryRecord
<1>7. a <= mid.bal["EMERGENCY"] /\ "EMERGENCY" \in Tracks
    BY <1>5 DEF ExecuteMultiSigSpend, Tracks
<1> HIDE DEF mid, a, s, p
<1>8. /\ treasury' \in TreasuryRecord /\ Moves(mid, treasury', "EMERGENCY", -a, -a)
      /\ treasury'.periods = mid.periods /\ treasury'.grants = mid.grants
    BY <1>3, <1>5, <1>6, <1>7, PaymentMoves
<1>9. Moves(treasury, treasury', "EMERGENCY", -a, -a)
    BY <1>5, <1>8 DEF Moves
<1>10. outside' = [outside EXCEPT !.paid = @ + a] /\ UNCHANGED <<fundHeight, schedules, fees>>
    BY DEF ExecuteMultiSigSpend, a, p
<1>11. /\ BooksKept' /\ outside' \in [deposited : Nat, paid : Nat, refunded : Nat]
       /\ outside'.deposited = outside.deposited
    BY <1>3, <1>5, <1>7, <1>8, <1>9, <1>10, PaymentKeepsBooks DEF FundsKept, FundsConserved, BooksKept
<1> QED
    BY <1>5, <1>8, <1>10, <1>11
       DEF FundsKept, FundsTyped, FundsBounded, FundsConserved, BooksKept, FeesShared

(* CreateGrant: the total goes from the balance to the reservations, unlogged *)
LEMMA CreateGrantKeeps ==
    ASSUME FundsKept, NEW plan \in Seq(Nat), NEW vesting \in Nat \X Nat, CreateGrant(plan, vesting)
    PROVE  FundsKept' /\ treasury'.periods = treasury.periods
<1> DEFINE w == Sum(plan)
           a == w % FundWord
           d == -a
           g == [plan |-> plan, released |-> {}, revoked |-> FALSE]
           mid == Entry(treasury, "GRANTS", d, 0)
           s == [total |-> a, start |-> fundHeight, cliff |-> vesting[1],
                 duration |-> vesting[2], claimed |-> 0, revoked |-> FALSE,
                 grant |-> Len(treasury.grants) + 1]
<1>1. /\ treasury \in TreasuryRecord /\ treasury.grants \in Seq(Grant)
      /\ outside \in [deposited : Nat, paid : Nat, refunded : Nat]
      /\ treasury.bal \in [Tracks -> Nat]
    BY DEF FundsKept, FundsTyped, TreasuryRecord
<1>2. g \in Grant /\ g.plan = plan /\ g.released = {} /\ ~g.revoked
    BY DEF Grant
<1>3. a \in Nat /\ w \in Nat /\ Reservation(g) = w /\ (w < FundWord => a = w)
    <2>1. w \in Nat /\ Reservation(g) = w
        BY <1>2, MilestonesAddUp DEF Reservation
    <2>2. FundWord \in Nat \ {0}
        <3>1. FundWord \in Nat /\ MaxFunds \in Nat /\ MaxFunds < FundWord
            BY ONLY TreasuryAssumption
        <3> QED
            BY ONLY <3>1
    <2>3. ASSUME NEW x \in Nat, NEW y \in Nat \ {0}
          PROVE  x % y \in Nat /\ (x < y => x % y = x)
        OBVIOUS
    <2> HIDE DEF w
    <2> QED
        BY <2>1, <2>2, <2>3
<1>4. Append(treasury.grants, g) \in Seq(Grant)
    <2> HIDE DEF g
    <2> QED
        BY ONLY <1>1, <1>2
<1>5. "GRANTS" \in Tracks /\ treasury.bal["GRANTS"] + d \in Nat
    BY <1>1, <1>3 DEF CreateGrant, Tracks
<1>6. treasury' = [mid EXCEPT !.grants = Append(treasury.grants, g)]
    <2>1. treasury.bal["GRANTS"] - a = treasury.bal["GRANTS"] + d
        BY <1>3, <1>5, <1>1
    <2>2. treasury.log["GRANTS"] + 0 = treasury.log["GRANTS"]
        BY <1>1, <1>5 DEF TreasuryRecord
    <2>3. [treasury.log EXCEPT !["GRANTS"] = treasury.log["GRANTS"] + 0] = treasury.log
        BY <1>1, <2>2 DEF TreasuryRecord
    <2> QED
        BY <1>1, <2>1, <2>3 DEF CreateGrant, Entry, TreasuryRecord
<1>7. schedules' \in Seq(Schedule)
    <2>1. schedules \in Seq(Schedule) /\ fundHeight \in Nat /\ Len(treasury.grants) \in Nat
        BY <1>1 DEF FundsKept, FundsTyped
    <2>2. CASE vesting[2] = 0
        BY <2>1, <2>2 DEF CreateGrant
    <2>3. CASE vesting[2] # 0
        <3>1. s \in Schedule
            BY <1>3, <2>1, <2>3 DEF Schedule
        <3> QED
            BY <2>1, <2>3, <3>1 DEF CreateGrant
    <2> QED
        BY <2>2, <2>3
<1>8. UNCHANGED <<fundHeight, fees, outside>>
    BY DEF CreateGrant
<1>9. d \in Int /\ a \in Int /\ 0 \in Int
    BY <1>3
<1>10. outside'.deposited + outside.paid = outside.deposited + outside'.paid + d + a
    <2> HIDE DEF w
    <2> QED
        BY <1>1, <1>3, <1>8
<1>11. 0 + outside.refunded = d + a + outside'.refunded
    <2> HIDE DEF w
    <2> QED
        BY <1>1, <1>3, <1>8
<1> HIDE DEF a, d, g, mid, s, w
<1>12. /\ mid \in TreasuryRecord /\ Moves(treasury, mid, "GRANTS", d, 0)
       /\ mid.periods = treasury.periods
    BY <1>1, <1>5, <1>9, EntryMoves DEF mid
<1>13. /\ treasury' \in TreasuryRecord /\ treasury'.bal = mid.bal /\ treasury'.log = mid.log
       /\ treasury'.periods = mid.periods /\ treasury'.grants = Append(treasury.grants, g)
    BY <1>4, <1>6, <1>12 DEF TreasuryRecord
<1>14. Moves(treasury, treasury', "GRANTS", d, 0)
    BY <1>12, <1>13 DEF Moves
<1>15. Reserved' = Reserved + w
    BY <1>1, <1>2, <1>3, <1>13, ReservationsMove
<1>16. ASSUME WholeGrants' PROVE MoneyKept' /\ LogExplains'
    <2>1. WholeGrants
        BY <1>1, <1>13, <1>16, PlansStay
    <2>2. a = w
        <3> DEFINE n == Len(treasury.grants) + 1
        <3>1. n \in DOMAIN treasury'.grants /\ treasury'.grants[n] = g
            BY <1>1, <1>13
        <3>2. Sum(treasury'.grants[n].plan) < FundWord
            BY <1>16, <3>1 DEF WholeGrants, Sum, Units
        <3>3. w < FundWord
            BY <1>2, <3>1, <3>2 DEF w
        <3> QED
            BY <1>3, <3>3
    <2>3. MoneyKept /\ LogExplains /\ FundsTyped
        BY <2>1 DEF FundsKept, FundsConserved
    <2> QED
        BY <1>1, <1>5, <1>8, <1>9, <1>10, <1>11, <1>13, <1>14, <1>15, <2>2, <2>3, BooksBalance
<1> QED
    BY <1>1, <1>7, <1>8, <1>12, <1>13, <1>16
       DEF FundsKept, FundsTyped, FundsBounded, FundsConserved, FeesShared

(* A grant that changes, whose reservation falls by r, while its track moves *)
LEMMA GrantChangeKeeps ==
    ASSUME FundsKept, NEW i \in DOMAIN treasury.grants, NEW g \in Grant, NEW r \in Nat,
           NEW d \in Int, NEW e \in Int,
           Reservation(treasury.grants[i]) = Reservation(g) + r,
           treasury.bal["GRANTS"] + d \in Nat,
           g.plan = treasury.grants[i].plan,
           treasury' = [Entry(treasury, "GRANTS", d, e)
                          EXCEPT !.grants = [treasury.grants EXCEPT ![i] = g]],
           outside' \in [deposited : Nat, paid : Nat, refunded : Nat],
           outside'.deposited = outside.deposited,
           WholeGrants => /\ outside.paid + r = outside'.paid + d
                          /\ e + outside.refunded + r = d + outside'.refunded,
           UNCHANGED <<fundHeight, schedules, fees>>
    PROVE  FundsKept' /\ treasury'.periods = treasury.periods
<1> DEFINE mid == Entry(treasury, "GRANTS", d, e)
           gs == [treasury.grants EXCEPT ![i] = g]
           s == -r
<1>1. /\ treasury \in TreasuryRecord /\ treasury.grants \in Seq(Grant)
      /\ outside \in [deposited : Nat, paid : Nat, refunded : Nat]
    BY DEF FundsKept, FundsTyped, TreasuryRecord
<1>2. "GRANTS" \in Tracks
    BY DEF Tracks
<1>3. /\ gs \in Seq(Grant) /\ DOMAIN gs = DOMAIN treasury.grants /\ gs[i] = g
      /\ \A k \in DOMAIN treasury.grants \ {i} : gs[k] = treasury.grants[k]
    BY ONLY <1>1, i \in DOMAIN treasury.grants, g \in Grant
<1>4. treasury' = [mid EXCEPT !.grants = gs]
    OBVIOUS
<1>5. s \in Int
    OBVIOUS
<1>60. /\ outside.deposited \in Nat /\ outside.paid \in Nat /\ outside.refunded \in Nat
       /\ outside'.deposited \in Nat /\ outside'.paid \in Nat /\ outside'.refunded \in Nat
    BY <1>1
<1>6. WholeGrants => /\ outside'.deposited + outside.paid = outside.deposited + outside'.paid + d + s
                     /\ e + outside.refunded = d + s + outside'.refunded
    <2> SUFFICES ASSUME WholeGrants
                 PROVE  /\ outside'.deposited + outside.paid = outside.deposited + outside'.paid + d + s
                        /\ e + outside.refunded = d + s + outside'.refunded
        OBVIOUS
    <2>1. outside.paid + r = outside'.paid + d /\ e + outside.refunded + r = d + outside'.refunded
        OBVIOUS
    <2>2. outside'.deposited = outside.deposited /\ r \in Nat /\ d \in Int /\ e \in Int
        OBVIOUS
    <2> QED
        BY ONLY <1>60, <2>1, <2>2
<1> HIDE DEF mid, gs
<1>8. /\ mid \in TreasuryRecord /\ Moves(treasury, mid, "GRANTS", d, e)
      /\ mid.periods = treasury.periods
    BY <1>1, <1>2, EntryMoves DEF mid
<1>9. /\ treasury' \in TreasuryRecord /\ treasury'.bal = mid.bal /\ treasury'.log = mid.log
      /\ treasury'.periods = mid.periods /\ treasury'.grants = gs
    BY <1>3, <1>4, <1>8 DEF TreasuryRecord
<1>10. Moves(treasury, treasury', "GRANTS", d, e)
    BY <1>8, <1>9 DEF Moves
<1>11. Reserved \in Nat /\ Reserved' + Reservation(treasury.grants[i]) = Reserved + Reservation(g)
    BY <1>1, <1>3, <1>9, ReservationsMove
<1>12. Reserved' = Reserved + s
    <2>1. Reservation(g) \in Nat /\ Reserved' \in Nat
        BY <1>1, <1>9, MilestonesAddUp, ReservationsMove
    <2> QED
        BY <1>11, <2>1
<1> HIDE DEF s
<1>13. ASSUME WholeGrants' PROVE MoneyKept' /\ LogExplains'
    <2>1. \A k \in DOMAIN treasury.grants : treasury'.grants[k].plan = treasury.grants[k].plan
        BY <1>3, <1>9
    <2>2. Len(treasury.grants) <= Len(treasury'.grants)
        BY <1>1, <1>3, <1>9
    <2>3. WholeGrants
        BY <1>1, <1>9, <1>13, <2>1, <2>2, PlansStay
    <2>4. MoneyKept /\ LogExplains /\ FundsTyped
        BY <2>3 DEF FundsKept, FundsConserved
    <2> QED
        BY <1>2, <1>5, <1>6, <1>9, <1>10, <1>12, <2>3, <2>4, BooksBalance
<1> QED
    BY <1>8, <1>9, <1>13 DEF FundsKept, FundsTyped, FundsBounded, FundsConserved, FeesShared

(* ReleaseMilestone *)
LEMMA ReleaseMilestoneKeeps ==
    ASSUME FundsKept, NEW i, NEW m \in Nat, ReleaseMilestone(i, m)
    PROVE  FundsKept' /\ treasury'.periods = treasury.periods
<1> DEFINE p == treasury.grants[i]
           g == [p EXCEPT !.released = @ \cup {m}]
           r == p.plan[m]
           e == -r
<1>1. /\ treasury \in TreasuryRecord /\ treasury.grants \in Seq(Grant)
      /\ outside \in [deposited : Nat, paid : Nat, refunded : Nat]
      /\ treasury.bal \in [Tracks -> Nat]
    BY DEF FundsKept, FundsTyped, TreasuryRecord
<1>2. i \in DOMAIN treasury.grants /\ p \in Grant /\ m \in DOMAIN p.plan \ p.released /\ ~p.revoked
    BY <1>1 DEF ReleaseMilestone
<1>3. g \in Grant /\ ~g.revoked /\ g.plan = p.plan
    BY <1>2 DEF Grant
<1>4. r \in Nat /\ Unreleased(g) + r = Unreleased(p)
    BY <1>2, MilestonesAddUp
<1>5. Reservation(p) = Reservation(g) + r
    BY <1>2, <1>3, <1>4 DEF Reservation
<1>6. "GRANTS" \in Tracks /\ treasury.bal["GRANTS"] + 0 = treasury.bal["GRANTS"]
    BY <1>1 DEF Tracks
<1>7. treasury' = [Entry(treasury, "GRANTS", 0, e)
                     EXCEPT !.grants = [treasury.grants EXCEPT ![i] = g]]
    <2>1. [treasury.bal EXCEPT !["GRANTS"] = treasury.bal["GRANTS"] + 0] = treasury.bal
        BY <1>1, <1>6
    <2> QED
        BY <1>1, <2>1 DEF ReleaseMilestone, Logged, Entry, TreasuryRecord
<1>8. outside' = [outside EXCEPT !.paid = @ + r] /\ UNCHANGED <<fundHeight, schedules, fees>>
    BY DEF ReleaseMilestone
<1>80. /\ outside' \in [deposited : Nat, paid : Nat, refunded : Nat]
       /\ outside'.deposited = outside.deposited /\ outside'.paid = outside.paid + r
       /\ outside'.refunded = outside.refunded
       /\ outside.paid \in Nat /\ outside.refunded \in Nat
    <2>1. outside.paid \in Nat /\ outside.refunded \in Nat /\ outside.paid + r \in Nat
        BY ONLY <1>1, <1>4
    <2> HIDE DEF r
    <2> QED
        BY ONLY <1>1, <1>8, <2>1
<1>9. outside.paid + r = outside'.paid + 0 /\ e + outside.refunded + r = 0 + outside'.refunded
    BY <1>4, <1>80
<1>10. e \in Int /\ 0 \in Int /\ treasury.bal["GRANTS"] + 0 \in Nat
    BY <1>1, <1>4, <1>6
<1> HIDE DEF p, g, r, e
<1> QED
    BY <1>2, <1>3, <1>4, <1>5, <1>7, <1>8, <1>80, <1>9, <1>10, GrantChangeKeeps DEF p

(* What is taken back from a grant is reserved, and fits the balance, as long as   *)
(* the books balance                                                                *)
LEMMA RefundFits ==
    ASSUME FundsKept, WholeGrants, NEW i \in DOMAIN treasury.grants, ~treasury.grants[i].revoked
    PROVE  LET r == Unreleased(treasury.grants[i]) IN
           /\ r % FundWord = r
           /\ (treasury.bal["GRANTS"] + r) % FundWord = treasury.bal["GRANTS"] + r
<1> DEFINE r == Unreleased(treasury.grants[i])
           f == [k \in DOMAIN treasury.grants |-> Reservation(treasury.grants[k])]
           b == treasury.bal["GRANTS"]
<1>1. /\ treasury \in TreasuryRecord /\ treasury.grants \in Seq(Grant)
      /\ outside \in [deposited : Nat, paid : Nat, refunded : Nat]
      /\ treasury.bal \in [Tracks -> Nat]
    BY DEF FundsKept, FundsTyped, TreasuryRecord
<1>2. outside.deposited = Sum(treasury.bal) + Reserved + outside.paid /\ outside.deposited <= MaxFunds
    BY DEF FundsKept, FundsBounded, FundsConserved, MoneyKept
<1>3. r \in Nat /\ r <= Reserved /\ Reserved \in Nat
    <2>1. \A k \in DOMAIN treasury.grants : treasury.grants[k] \in Grant
        BY <1>1
    <2>2. \A k \in DOMAIN f : f[k] \in Nat
        BY <2>1, MilestonesAddUp
    <2>3. IsFiniteSet(DOMAIN f)
        <3>1. DOMAIN f = 1 .. Len(treasury.grants) /\ Len(treasury.grants) \in Int
            BY <1>1
        <3>2. IsFiniteSet(1 .. Len(treasury.grants))
            BY ONLY <3>1, FS_Interval, 1 \in Int
        <3> QED
            BY ONLY <3>1, <3>2
    <2>4. IsFiniteSet(Units(f))
        BY <2>2, <2>3, FiniteUnits
    <2>5. f[i] = r
        BY DEF Reservation
    <2>6. Sum(f) \in Nat /\ f[i] <= Sum(f)
        BY <2>2, <2>4, AmountWithinSum
    <2> QED
        BY <2>2, <2>5, <2>6 DEF Reserved
<1>4. b \in Nat /\ b <= Sum(treasury.bal) /\ Sum(treasury.bal) \in Nat
    <2>1. "GRANTS" \in Tracks /\ DOMAIN treasury.bal = Tracks /\ b \in Nat
        BY <1>1 DEF Tracks
    <2>2. IsFiniteSet(Units(treasury.bal))
        BY <1>1, FiniteTracks, FiniteUnits
    <2> QED
        BY <2>1, <2>2, AmountWithinSum
<1>5. FundWord \in Nat /\ MaxFunds \in Nat /\ MaxFunds < FundWord
    BY ONLY TreasuryAssumption
<1>6. outside.deposited \in Nat /\ outside.paid \in Nat
    BY <1>1
<1> HIDE DEF r, b
<1>7. r \in Nat /\ b \in Nat /\ r + b < FundWord
    BY <1>2, <1>3, <1>4, <1>5, <1>6
<1>8. r % FundWord = r /\ (b + r) % FundWord = b + r
    BY ONLY <1>5, <1>7
<1> QED
    BY <1>8 DEF r, b

(* RevokeGrant *)
LEMMA RevokeGrantKeeps ==
    ASSUME FundsKept, NEW i, RevokeGrant(i)
    PROVE  FundsKept' /\ treasury'.periods = treasury.periods
<1> DEFINE p == treasury.grants[i]
           g == [p EXCEPT !.revoked = TRUE]
           r == Unreleased(p)
           e == r % FundWord
           b == treasury.bal["GRANTS"]
           n == (b + e) % FundWord
           d == n - b
<1>1. /\ treasury \in TreasuryRecord /\ treasury.grants \in Seq(Grant)
      /\ outside \in [deposited : Nat, paid : Nat, refunded : Nat]
      /\ treasury.bal \in [Tracks -> Nat] /\ b \in Nat
    BY DEF FundsKept, FundsTyped, TreasuryRecord, Tracks
<1>2. i \in DOMAIN treasury.grants /\ p \in Grant /\ ~p.revoked
    BY <1>1 DEF RevokeGrant
<1>3. g \in Grant /\ g.revoked /\ g.plan = p.plan
    BY <1>2 DEF Grant
<1>4. r \in Nat /\ e \in Nat /\ n \in Nat /\ d \in Int /\ b + d = n
    <2>1. r \in Nat
        BY <1>2, MilestonesAddUp
    <2>2. FundWord \in Nat \ {0}
        <3>1. FundWord \in Nat /\ MaxFunds \in Nat /\ MaxFunds < FundWord
            BY ONLY TreasuryAssumption
        <3> QED
            BY ONLY <3>1
    <2> HIDE DEF r, b
    <2>3. e \in Nat
        BY ONLY <2>1, <2>2
    <2> HIDE DEF e
    <2>4. n \in Nat
        BY <1>1, <2>2, <2>3
    <2> HIDE DEF n
    <2> QED
        BY <1>1, <2>1, <2>3, <2>4
<1>5. Reservation(p) = Reservation(g) + r
    BY <1>2, <1>3, <1>4 DEF Reservation
<1>6. treasury' = [Entry(treasury, "GRANTS", d, e)
                     EXCEPT !.grants = [treasury.grants EXCEPT ![i] = g]]
    <2>1. treasury' = [treasury EXCEPT !.bal = [treasury.bal EXCEPT !["GRANTS"] = n],
                                       !.log = [treasury.log EXCEPT !["GRANTS"] = @ + e],
                                       !.grants = [treasury.grants EXCEPT ![i] = g]]
        BY <1>1 DEF RevokeGrant, Logged, TreasuryRecord
    <2> HIDE DEF g, e, n, d, b
    <2> QED
        BY <1>1, <1>4, <2>1 DEF Entry, TreasuryRecord, b
<1>7. outside' = [outside EXCEPT !.refunded = @ + e] /\ UNCHANGED <<fundHeight, schedules, fees>>
    BY DEF RevokeGrant
<1>8. WholeGrants => e = r /\ d = r
    <2> SUFFICES ASSUME WholeGrants PROVE e = r /\ d = r
        OBVIOUS
    <2>1. e = r /\ (b + r) % FundWord = b + r
        BY <1>2, RefundFits
    <2>2. n = b + r
        BY <2>1
    <2> HIDE DEF e, n, r, b
    <2> QED
        BY <1>1, <1>4, <2>1, <2>2
<1> HIDE DEF p, g, r, e, n, d, b
<1>9. /\ outside' \in [deposited : Nat, paid : Nat, refunded : Nat]
      /\ outside'.deposited = outside.deposited /\ outside'.paid = outside.paid
      /\ outside'.refunded = outside.refunded + e
      /\ outside.paid \in Nat /\ outside.refunded \in Nat
    BY <1>1, <1>4, <1>7
<1>10. WholeGrants => /\ outside.paid + r = outside'.paid + d
                      /\ e + outside.refunded + r = d + outside'.refunded
    BY <1>4, <1>8, <1>9
<1>11. treasury.bal["GRANTS"] + d \in Nat /\ e \in Int
    BY <1>4 DEF b
<1> QED
    BY <1>2, <1>3, <1>4, <1>5, <1>6, <1>7, <1>9, <1>10, <1>11, GrantChangeKeeps DEF p

-----------------------------------------------------------------------------
(* Vesting: a schedule vests more with the height, and its total at the end *)

(* Between cliff and end, by quotient and remainder *)
LEMMA LinearPart ==
    ASSUME NEW total \in Nat, NEW d \in Nat \ {0}, NEW j \in Nat, NEW k \in Nat, j <= k, k <= d
    PROVE  LET vested(n) == (total \div d) * n + ((total % d) * n) \div d IN
           /\ vested(j) \in Nat /\ vested(k) \in Nat
           /\ vested(j) <= vested(k) /\ vested(k) <= total
<1> DEFINE q == total \div d
           r == total % d
<1>1. q \in Nat /\ r \in Nat /\ total = d * q + r
    BY Division
<1> HIDE DEF q, r
<1>2. /\ q * j \in Nat /\ q * k \in Nat /\ q * d \in Nat /\ q * d = d * q
      /\ r * j \in Nat /\ r * k \in Nat /\ r * d \in Nat
    BY <1>1
<1>3. q * j <= q * k /\ q * k <= q * d /\ r * j <= r * k /\ r * k <= r * d
    <2>1. j * q <= k * q /\ k * q <= d * q /\ j * r <= k * r /\ k * r <= d * r
        BY <1>1, ProductKeepsOrder
    <2>2. /\ j * q = q * j /\ k * q = q * k /\ d * q = q * d
          /\ j * r = r * j /\ k * r = r * k /\ d * r = r * d
        BY <1>1
    <2> QED
        BY <2>1, <2>2
<1>4. (r * j) \div d \in Nat /\ (r * k) \div d \in Nat
    BY <1>2, Division
<1>5. (r * j) \div d <= (r * k) \div d
    BY <1>2, <1>3, QuotientKeepsOrder
<1>6. (r * k) \div d <= r
    BY <1>1, <1>2, <1>3, QuotientAtMost
<1>7. /\ q * j + (r * j) \div d \in Nat /\ q * k + (r * k) \div d \in Nat
      /\ q * j + (r * j) \div d <= q * k + (r * k) \div d
      /\ q * k + (r * k) \div d <= total
    BY <1>1, <1>2, <1>3, <1>4, <1>5, <1>6
<1> QED
    BY <1>7 DEF q, r

(* What has vested at a height is a part of the total, and never falls *)
LEMMA VestedGrows ==
    ASSUME NEW s \in Schedule, NEW h \in Nat, NEW i \in Nat, h <= i
    PROVE  /\ ComputeVested(s, h) \in Nat /\ ComputeVested(s, i) \in Nat
           /\ ComputeVested(s, h) <= ComputeVested(s, i) /\ ComputeVested(s, i) <= s.total
<1> DEFINE b == s.start + s.cliff
           d == s.duration
           vested(n) == (s.total \div d) * n + ((s.total % d) * n) \div d
<1>1. b \in Nat /\ d \in Nat \ {0} /\ s.total \in Nat
    BY DEF Schedule
<1>2. ComputeVested(s, h) = IF h < b THEN 0 ELSE IF h >= b + d THEN s.total ELSE vested(h - b)
    BY DEF ComputeVested
<1>3. ComputeVested(s, i) = IF i < b THEN 0 ELSE IF i >= b + d THEN s.total ELSE vested(i - b)
    BY DEF ComputeVested
<1>4. ASSUME h >= b, i < b + d
      PROVE  /\ vested(h - b) \in Nat /\ vested(i - b) \in Nat
             /\ vested(h - b) <= vested(i - b) /\ vested(i - b) <= s.total
    <2>1. h - b \in Nat /\ i - b \in Nat /\ h - b <= i - b /\ i - b <= d
        BY <1>1, <1>4
    <2> QED
        BY <1>1, <2>1, LinearPart
<1>5. ASSUME NEW n \in Nat, n >= b, n < b + d PROVE vested(n - b) \in Nat /\ vested(n - b) <= s.total
    <2>1. n - b \in Nat /\ n - b <= n - b /\ n - b <= d
        BY <1>1, <1>5
    <2> QED
        BY <1>1, <2>1, LinearPart
<1> HIDE DEF b, d, vested
<1> QED
    BY <1>1, <1>2, <1>3, <1>4, <1>5

-----------------------------------------------------------------------------
(* Claim and RevokeSchedule *)
LEMMA SchedulesKeep ==
    ASSUME FundsKept, NEW i, Claim(i) \/ RevokeSchedule(i)
    PROVE  /\ FundsKept' /\ i \in DOMAIN schedules /\ DOMAIN schedules' = DOMAIN schedules
           /\ \A k \in DOMAIN schedules \ {i} : schedules'[k] = schedules[k]
           /\ LET s == schedules[i] IN
              \/ /\ schedules'[i] = [s EXCEPT !.claimed = ComputeVested(s, fundHeight)]
                 /\ s.claimed < ComputeVested(s, fundHeight)
              \/ schedules'[i] = [s EXCEPT !.revoked = TRUE]
<1> DEFINE s == schedules[i]
           v == ComputeVested(s, fundHeight)
<1>1. schedules \in Seq(Schedule) /\ treasury \in TreasuryRecord /\ fundHeight \in Nat
    BY DEF FundsKept, FundsTyped
<1>2. i \in DOMAIN schedules /\ s \in Schedule
    BY <1>1 DEF Claim, RevokeSchedule
<1>3. s.claimed \in Nat /\ v \in Nat
    <2>1. s.claimed \in Nat
        BY <1>2 DEF Schedule
    <2>2. fundHeight <= fundHeight
        BY <1>1
    <2>3. v \in Nat
        BY <1>1, <1>2, <2>2, VestedGrows
    <2> QED
        BY <2>1, <2>3
<1>4. UNCHANGED <<fundHeight, treasury, fees, outside>>
    BY DEF Claim, RevokeSchedule
<1>5. CASE Claim(i)
    <2>1. ~s.revoked /\ s.claimed < v /\ GetClaimable(s, fundHeight) = v - s.claimed
        BY <1>3, <1>5 DEF Claim, GetClaimable
    <2>2. s.claimed + (v - s.claimed) = v
        BY <1>3
    <2>3. schedules' = [schedules EXCEPT ![i] = [s EXCEPT !.claimed = v]]
        BY <1>1, <1>2, <1>5, <2>1, <2>2 DEF Claim, Schedule
    <2>4. [s EXCEPT !.claimed = v] \in Schedule
        BY <1>2, <1>3 DEF Schedule
    <2> HIDE DEF s, v
    <2>5. schedules' \in Seq(Schedule) /\ DOMAIN schedules' = DOMAIN schedules
        BY <1>1, <1>2, <2>3, <2>4
    <2>6. \A k \in DOMAIN schedules \ {i} : schedules'[k] = schedules[k]
        BY <1>1, <2>3
    <2>7. schedules'[i] = [s EXCEPT !.claimed = v]
        BY <1>1, <1>2, <2>3
    <2>8. BooksKept'
        BY <1>1, <1>4, SameBooks DEF FundsKept, FundsConserved, BooksKept
    <2> QED
        BY <1>2, <1>4, <2>1, <2>5, <2>6, <2>7, <2>8
           DEF FundsKept, FundsTyped, FundsBounded, FundsConserved, BooksKept, FeesShared, s, v
<1>6. CASE RevokeSchedule(i)
    <2>1. schedules' = [schedules EXCEPT ![i] = [s EXCEPT !.revoked = TRUE]]
        BY <1>6 DEF RevokeSchedule
    <2>2. [s EXCEPT !.revoked = TRUE] \in Schedule
        BY <1>2 DEF Schedule
    <2> HIDE DEF s
    <2>3. schedules' \in Seq(Schedule) /\ DOMAIN schedules' = DOMAIN schedules
        BY <1>1, <1>2, <2>1, <2>2
    <2>4. \A k \in DOMAIN schedules \ {i} : schedules'[k] = schedules[k]
        BY <1>1, <2>1
    <2>5. schedules'[i] = [s EXCEPT !.revoked = TRUE]
        BY <1>1, <1>2, <2>1
    <2>6. BooksKept'
        BY <1>1, <1>4, SameBooks DEF FundsKept, FundsConserved, BooksKept
    <2> QED
        BY <1>2, <1>4, <2>3, <2>4, <2>5, <2>6
           DEF FundsKept, FundsTyped, FundsBounded, FundsConserved, BooksKept, FeesShared, s
<1> QED
    BY <1>5, <1>6

(* Route: the shares are parts of the fee, and the burned part is what is left *)
LEMMA RouteKeeps ==
    ASSUME FundsKept, NEW fee \in Nat,
           NEW cfg \in [producer : Nat, treasury : Nat, track : Tracks],
           cfg.producer + cfg.treasury <= 10000, Route(fee, cfg)
    PROVE  FundsKept' /\ treasury'.periods = treasury.periods
<1> DEFINE p == cfg.producer
           q == cfg.treasury
           a == Part(fee, p)
           b == Part(fee, q)
           track == cfg.track
<1>0. p \in Nat /\ q \in Nat /\ track \in Tracks
    OBVIOUS
<1>1. p \in Nat /\ q \in Nat /\ p + q <= 10000
    BY <1>0
<1>2. /\ treasury \in TreasuryRecord /\ outside \in [deposited : Nat, paid : Nat, refunded : Nat]
      /\ fees \in [routed : Nat, producer : Nat, treasury : Nat, burned : Nat]
    BY DEF FundsKept, FundsTyped
<1>3. a \in Nat /\ b \in Nat /\ fee - a - b \in Nat
    <2> DEFINE x == fee * p
               y == fee * q
    <2>1. x \in Nat /\ y \in Nat /\ x + y <= fee * 10000
        <3> HIDE DEF p, q
        <3>1. (p + q) * fee <= 10000 * fee
            BY <1>1, ProductKeepsOrder
        <3> QED
            BY <1>1, <3>1
    <2>2. a = x \div 10000 /\ b = y \div 10000
        BY DEF Part
    <2> HIDE DEF p, q, a, b, x, y
    <2>3. x \div 10000 \in Nat /\ y \div 10000 \in Nat /\ x \div 10000 + y \div 10000 <= fee
        BY <2>1
    <2> QED
        BY <2>2, <2>3
<1>4. /\ treasury' = IF b > 0 THEN DepositTo(treasury, track, b) ELSE treasury
      /\ outside' = [outside EXCEPT !.deposited = @ + b]
      /\ fees' = [routed |-> fees.routed + fee, producer |-> fees.producer + a,
                  treasury |-> fees.treasury + b, burned |-> fees.burned + (fee - a - b)]
      /\ UNCHANGED <<fundHeight, schedules>> /\ outside.deposited + b <= MaxFunds
    BY DEF Route, BurnPart
<1> HIDE DEF p, q, a, b, track
<1>5. fees' \in [routed : Nat, producer : Nat, treasury : Nat, burned : Nat] /\ FeesShared'
    BY <1>2, <1>3, <1>4 DEF FundsKept, FundsConserved, FeesShared
<1>6. /\ BooksKept' /\ treasury' \in TreasuryRecord
      /\ outside' \in [deposited : Nat, paid : Nat, refunded : Nat]
      /\ treasury'.periods = treasury.periods
    <2>1. CASE b > 0
        <3>1. treasury' = DepositTo(treasury, track, b)
            BY <1>4, <2>1
        <3>2. track \in Tracks /\ b \in Nat /\ treasury \in TreasuryRecord
            BY <1>0, <1>2, <1>3
        <3>3. treasury'.periods = treasury.periods
            <4>1. DepositTo(treasury, track, b).periods = treasury.periods
                BY <3>2, DepositMoves
            <4> QED
                BY <3>1, <4>1
        <3>4. FundsTyped /\ BooksKept
            BY DEF FundsKept, FundsConserved, BooksKept
        <3>5. outside' = [outside EXCEPT !.deposited = @ + b]
            BY <1>4
        <3>6. /\ BooksKept' /\ treasury' \in TreasuryRecord
              /\ outside' \in [deposited : Nat, paid : Nat, refunded : Nat]
            BY <3>1, <3>2, <3>4, <3>5, DepositKeepsBooks
        <3> QED
            BY <3>3, <3>6
    <2>2. CASE b = 0
        <3>1. treasury' = treasury
            BY <1>4, <2>2
        <3>2. outside' = outside
            BY <1>2, <1>4, <2>2
        <3> QED
            BY <1>2, <3>1, <3>2, SameBooks DEF FundsKept, FundsConserved, BooksKept
    <2> QED
        BY <1>3, <2>1, <2>2
<1>7. outside'.deposited <= MaxFunds
    BY <1>2, <1>3, <1>4
<1> QED
    BY <1>4, <1>5, <1>6, <1>7 DEF FundsKept, FundsTyped, FundsBounded, FundsConserved, BooksKept

(* A new block changes nothing else *)
LEMMA NextBlockKeeps ==
    ASSUME FundsKept, NextBlock
    PROVE  FundsKept' /\ fundHeight' = fundHeight + 1
<1>1. /\ fundHeight' = fundHeight + 1 /\ UNCHANGED <<treasury, schedules, fees, outside>>
      /\ fundHeight \in Nat
    BY DEF NextBlock, FundsKept, FundsTyped
<1>2. BooksKept'
    BY <1>1, SameBooks DEF FundsKept, FundsTyped, FundsConserved, BooksKept
<1> QED
    BY <1>1, <1>2 DEF FundsKept, FundsTyped, FundsBounded, FundsConserved, BooksKept, FeesShared

-----------------------------------------------------------------------------
(* What is claimed never runs ahead of the curve.  With the books and the budgets this *)
(* is an inductive invariant of the treasury.                                           *)
ClaimsBehind ==
    \A i \in DOMAIN schedules : schedules[i].claimed <= ComputeVested(schedules[i], fundHeight)

FundsInv == FundsKept /\ BudgetsKept /\ ClaimsBehind

(* Steps that leave periods, schedules and height alone keep what is due *)
LEMMA SameDues ==
    ASSUME FundsInv, FundsKept', treasury'.periods = treasury.periods,
           UNCHANGED <<fundHeight, schedules>>
    PROVE  FundsInv'
<1>1. BudgetsKept'
    BY DEF FundsInv, BudgetsKept
<1>2. ClaimsBehind'
    BY DEF FundsInv, ClaimsBehind, ComputeVested
<1> QED
    BY <1>1, <1>2 DEF FundsInv

(* A payment that fits the budget leaves every period within its limits *)
LEMMA PaidWithinBudget ==
    ASSUME FundsInv, NEW track \in Tracks, NEW a \in Nat, NEW h \in Nat,
           a <= treasury.bal[track], IsWithinBudget(treasury, track, a, h),
           treasury' = SpendFrom(treasury, track, a, h),
           outside' = [outside EXCEPT !.paid = @ + a],
           UNCHANGED <<fundHeight, schedules, fees>>
    PROVE  FundsInv'
<1>1. FundsKept'
    BY SpendFromKeeps DEF FundsInv
<1>2. treasury \in TreasuryRecord /\ treasury.periods \in Seq(Period)
    BY DEF FundsInv, FundsKept, FundsTyped, TreasuryRecord
<1> DEFINE now_(i, k) == Covering(treasury, h) # {} /\ i = Min(Covering(treasury, h)) /\ k = track
<1>3. /\ DOMAIN treasury'.periods = DOMAIN treasury.periods
      /\ \A i \in DOMAIN treasury.periods :
            /\ treasury'.periods[i].limits = treasury.periods[i].limits
            /\ \A k \in Tracks :
                  treasury'.periods[i].spent[k] =
                     treasury.periods[i].spent[k] + (IF now_(i, k) THEN a ELSE 0)
    BY <1>2, SpendFromMoves
<1>4. ASSUME NEW i \in DOMAIN treasury.periods, NEW k \in Tracks
      PROVE  \/ treasury'.periods[i].limits[k] = 0
             \/ treasury'.periods[i].spent[k] <= treasury'.periods[i].limits[k]
    <2> DEFINE p == treasury.periods[i]
    <2>1. p.limits[k] = 0 \/ p.spent[k] <= p.limits[k]
        BY DEF FundsInv, BudgetsKept
    <2>2. p.limits[k] \in Nat /\ p.spent[k] \in Nat
        <3>1. p \in Period
            BY <1>2
        <3>2. p.limits \in [Tracks -> Nat] /\ p.spent \in [Tracks -> Nat]
            BY <3>1 DEF Period
        <3> QED
            BY <3>2
    <2>3. now_(i, k) => p.limits[k] = 0 \/ p.spent[k] + a <= p.limits[k]
        BY DEF IsWithinBudget
    <2>4. /\ treasury'.periods[i].limits = p.limits
          /\ treasury'.periods[i].spent[k] = p.spent[k] + (IF now_(i, k) THEN a ELSE 0)
        BY <1>3
    <2> HIDE DEF p, now_
    <2>5. CASE now_(i, k)
        BY <2>3, <2>4, <2>5
    <2>6. CASE ~now_(i, k)
        <3>1. treasury'.periods[i].spent[k] = p.spent[k]
            BY <2>2, <2>4, <2>6
        <3> QED
            BY <2>1, <2>4, <3>1
    <2> QED
        BY <2>5, <2>6
<1>5. BudgetsKept'
    BY <1>3, <1>4 DEF BudgetsKept
<1>6. ClaimsBehind'
    BY DEF FundsInv, ClaimsBehind, ComputeVested
<1> QED
    BY <1>1, <1>5, <1>6 DEF FundsInv

(* A new period has spent nothing *)
LEMMA NewPeriodKeeps ==
    ASSUME FundsInv, NEW from \in Nat, NEW to \in Nat, NEW limits \in [Tracks -> Nat],
           CreateBudgetPeriod(from, to, limits)
    PROVE  FundsInv'
<1> DEFINE p == [from |-> from, to |-> to, limits |-> limits, spent |-> [t \in Tracks |-> 0]]
           ps == treasury.periods
<1>1. FundsKept'
    BY CreateBudgetPeriodKeeps DEF FundsInv
<1>2. treasury \in TreasuryRecord /\ ps \in Seq(Period)
    BY DEF FundsInv, FundsKept, FundsTyped, TreasuryRecord
<1>3. treasury'.periods = Append(ps, p)
    BY <1>2 DEF CreateBudgetPeriod, TreasuryRecord
<1>4. UNCHANGED <<fundHeight, schedules>>
    BY DEF CreateBudgetPeriod
<1>5. \A t \in Tracks : p.spent[t] = 0 /\ p.limits[t] \in Nat
    OBVIOUS
<1>6. \A i \in DOMAIN ps : \A t \in Tracks : ps[i].limits[t] = 0 \/ ps[i].spent[t] <= ps[i].limits[t]
    BY DEF FundsInv, BudgetsKept
<1>7. \A i \in DOMAIN Append(ps, p) : Append(ps, p)[i] = p \/ (i \in DOMAIN ps /\ Append(ps, p)[i] = ps[i])
    BY <1>2
<1> HIDE DEF p, ps
<1>8. BudgetsKept'
    BY <1>3, <1>5, <1>6, <1>7 DEF BudgetsKept
<1>9. ClaimsBehind'
    BY <1>4 DEF FundsInv, ClaimsBehind, ComputeVested
<1> QED
    BY <1>1, <1>8, <1>9 DEF FundsInv

(* A new schedule has claimed nothing *)
LEMMA NewGrantKeeps ==
    ASSUME FundsInv, NEW plan \in Seq(Nat), NEW vesting \in Nat \X Nat, CreateGrant(plan, vesting)
    PROVE  FundsInv'
<1>1. FundsKept' /\ treasury'.periods = treasury.periods
    BY CreateGrantKeeps DEF FundsInv
<1>2. BudgetsKept'
    BY <1>1 DEF FundsInv, BudgetsKept
<1>3. fundHeight' = fundHeight /\ fundHeight \in Nat /\ schedules \in Seq(Schedule) /\ schedules' \in Seq(Schedule)
    BY <1>1 DEF CreateGrant, FundsInv, FundsKept, FundsTyped
<1>4. ASSUME NEW i \in DOMAIN schedules'
      PROVE  schedules'[i].claimed <= ComputeVested(schedules'[i], fundHeight)
    <2>1. schedules'[i].claimed = 0 \/ (i \in DOMAIN schedules /\ schedules'[i] = schedules[i])
        BY <1>3 DEF CreateGrant
    <2>2. CASE schedules'[i].claimed = 0
        <3>1. schedules'[i] \in Schedule /\ fundHeight <= fundHeight
            BY <1>3
        <3>2. ComputeVested(schedules'[i], fundHeight) \in Nat
            BY <1>3, <3>1, VestedGrows
        <3> QED
            BY <2>2, <3>2
    <2>3. CASE i \in DOMAIN schedules /\ schedules'[i] = schedules[i]
        BY <2>3 DEF FundsInv, ClaimsBehind
    <2> QED
        BY <2>1, <2>2, <2>3
<1>5. ClaimsBehind'
    BY <1>3, <1>4 DEF ClaimsBehind, ComputeVested
<1> QED
    BY <1>1, <1>2, <1>5 DEF FundsInv

(* A claim takes what has vested; a revocation nothing *)
LEMMA ClaimsKeep ==
    ASSUME FundsInv, NEW i, Claim(i) \/ RevokeSchedule(i)
    PROVE  FundsInv'
<1> DEFINE s == schedules[i]
           v == ComputeVested(s, fundHeight)
<1>1. /\ FundsKept' /\ i \in DOMAIN schedules /\ DOMAIN schedules' = DOMAIN schedules
      /\ \A k \in DOMAIN schedules \ {i} : schedules'[k] = schedules[k]
      /\ \/ schedules'[i] = [s EXCEPT !.claimed = v] /\ s.claimed < v
         \/ schedules'[i] = [s EXCEPT !.revoked = TRUE]
    BY SchedulesKeep DEF FundsInv
<1>2. schedules \in Seq(Schedule) /\ fundHeight \in Nat /\ s \in Schedule
    BY <1>1 DEF FundsInv, FundsKept, FundsTyped
<1>3. UNCHANGED <<fundHeight, treasury>>
    BY DEF Claim, RevokeSchedule
<1>4. s.claimed <= v
    BY <1>1 DEF FundsInv, ClaimsBehind
<1>5. v \in Nat
    BY <1>2, VestedGrows
<1>6. schedules'[i].claimed <= ComputeVested(schedules'[i], fundHeight)
    <2>1. CASE schedules'[i] = [s EXCEPT !.claimed = v]
        <3>1. /\ schedules'[i].start = s.start /\ schedules'[i].cliff = s.cliff
              /\ schedules'[i].duration = s.duration /\ schedules'[i].total = s.total
              /\ schedules'[i].claimed = v
            BY <1>2, <2>1 DEF Schedule
        <3>2. ComputeVested(schedules'[i], fundHeight) = v
            BY <3>1 DEF ComputeVested
        <3> QED
            BY <1>5, <3>1, <3>2
    <2>2. CASE schedules'[i] = [s EXCEPT !.revoked = TRUE]
        <3>1. /\ schedules'[i].start = s.start /\ schedules'[i].cliff = s.cliff
              /\ schedules'[i].duration = s.duration /\ schedules'[i].total = s.total
              /\ schedules'[i].claimed = s.claimed
            BY <1>2, <2>2 DEF Schedule
        <3>2. ComputeVested(schedules'[i], fundHeight) = v
            BY <3>1 DEF ComputeVested
        <3> QED
            BY <1>4, <3>1, <3>2
    <2> QED
        BY <1>1, <2>1, <2>2
<1>7. \A k \in DOMAIN schedules' : schedules'[k].claimed <= ComputeVested(schedules'[k], fundHeight)
    BY <1>1, <1>6 DEF FundsInv, ClaimsBehind
<1>8. ClaimsBehind'
    BY <1>3, <1>7 DEF ClaimsBehind, ComputeVested
<1>9. BudgetsKept'
    BY <1>3 DEF FundsInv, BudgetsKept
<1> QED
    BY <1>1, <1>8, <1>9 DEF FundsInv

(* The curve rises with the height *)
LEMMA HeightKeeps ==
    ASSUME FundsInv, NextBlock
    PROVE  FundsInv'
<1>1. FundsKept' /\ fundHeight' = fundHeight + 1 /\ UNCHANGED <<treasury, schedules>>
    BY NextBlockKeeps DEF FundsInv, NextBlock
<1>2. fundHeight \in Nat /\ schedules \in Seq(Schedule)
    BY DEF FundsInv, FundsKept, FundsTyped
<1>3. ASSUME NEW i \in DOMAIN schedules
      PROVE  schedules[i].claimed <= ComputeVested(schedules[i], fundHeight + 1)
    <2> DEFINE s == schedules[i]
    <2>1. s \in Schedule /\ s.claimed <= ComputeVested(s, fundHeight)
        BY <1>2 DEF FundsInv, ClaimsBehind
    <2>2. s.claimed \in Nat
        BY <2>1 DEF Schedule
    <2>3. fundHeight + 1 \in Nat /\ fundHeight <= fundHeight + 1
        BY <1>2
    <2> HIDE DEF s
    <2>4. /\ ComputeVested(s, fundHeight) \in Nat /\ ComputeVested(s, fundHeight + 1) \in Nat
          /\ ComputeVested(s, fundHeight) <= ComputeVested(s, fundHeight + 1)
        BY <1>2, <2>1, <2>3, VestedGrows
    <2>5. s.claimed <= ComputeVested(s, fundHeight + 1)
        BY <2>1, <2>2, <2>4
    <2> QED
        BY <2>5 DEF s
<1>4. ClaimsBehind'
    BY <1>1, <1>3 DEF ClaimsBehind, ComputeVested
<1>5. BudgetsKept'
    BY <1>1 DEF FundsInv, BudgetsKept
<1> QED
    BY <1>1, <1>4, <1>5 DEF FundsInv

(* One case per operation *)
LEMMA TreasuryStepKeeps ==
    ASSUME FundsInv, TreasuryStep
    PROVE  FundsInv'
<1>0. FundsKept /\ fundHeight \in Nat
    BY DEF FundsInv, FundsKept, FundsTyped
<1>1. ASSUME NEW track \in Tracks, NEW a \in Amounts, Deposit(track, a) PROVE FundsInv'
    <2>0. a \in Nat
        BY ONLY TreasuryAssumption, a \in Amounts
    <2>1. a \in Nat /\ treasury \in TreasuryRecord
        BY <1>0, <2>0 DEF FundsKept, FundsTyped
    <2>2. treasury'.periods = treasury.periods
        <3>1. DepositTo(treasury, track, a).periods = treasury.periods
            BY <2>1, DepositMoves
        <3> QED
            BY <1>1, <3>1 DEF Deposit
    <2>3. FundsKept'
        BY <1>0, <1>1, <2>1, DepositKeeps
    <2> QED
        BY <1>1, <2>2, <2>3, SameDues DEF Deposit
<1>2. ASSUME NEW track \in Tracks, NEW a \in Amounts, Spend(track, a, 1) PROVE FundsInv'
    <2>1. a \in Nat
        BY ONLY TreasuryAssumption, a \in Amounts
    <2> QED
        BY <1>0, <1>2, <2>1, PaidWithinBudget DEF Spend, CanSpend
<1>3. ASSUME NEW from \in 1 .. MaxFundHeight, NEW limits \in Limits,
             CreateBudgetPeriod(from, from + 1, limits)
      PROVE  FundsInv'
    <2>1. from \in Nat /\ from + 1 \in Nat /\ limits \in [Tracks -> Nat]
        <3>1. limits \in [Tracks -> Nat]
            BY ONLY PlansAssumption, limits \in Limits
        <3>2. from \in Nat /\ from + 1 \in Nat
            <4>1. MaxFundHeight \in Nat
                BY ONLY TreasuryAssumption
            <4> QED
                BY ONLY <4>1, from \in 1 .. MaxFundHeight
        <3> QED
            BY <3>1, <3>2
    <2> QED
        BY <1>3, <2>1, NewPeriodKeeps
<1>4. ASSUME NEW plan \in Plans, NEW v \in Vesting, CreateGrant(plan, v) PROVE FundsInv'
    <2>1. plan \in Seq(Nat) /\ v \in Nat \X Nat
        BY ONLY PlansAssumption, plan \in Plans, v \in Vesting
    <2> QED
        BY <1>4, <2>1, NewGrantKeeps
<1>5. ASSUME NEW i, RevokeGrant(i) PROVE FundsInv'
    <2>1. FundsKept' /\ treasury'.periods = treasury.periods
        BY <1>0, <1>5, RevokeGrantKeeps
    <2>2. UNCHANGED <<fundHeight, schedules>>
        BY <1>5 DEF RevokeGrant
    <2> QED
        BY <2>1, <2>2, SameDues
<1>6. ASSUME NEW i, NEW m \in 1 .. 2, ReleaseMilestone(i, m) PROVE FundsInv'
    <2>0. m \in Nat
        OBVIOUS
    <2>1. FundsKept' /\ treasury'.periods = treasury.periods
        BY <1>0, <1>6, <2>0, ReleaseMilestoneKeeps
    <2>2. UNCHANGED <<fundHeight, schedules>>
        BY <1>6 DEF ReleaseMilestone
    <2> QED
        BY <2>1, <2>2, SameDues
<1>7. ASSUME NEW i, ExecuteMultiSigSpend(i) PROVE FundsInv'
    <2>1. FundsKept' /\ treasury'.periods = treasury.periods
        BY <1>0, <1>7, ExecuteMultiSigSpendKeeps
    <2>2. UNCHANGED <<fundHeight, schedules>>
        BY <1>7 DEF ExecuteMultiSigSpend
    <2> QED
        BY <2>1, <2>2, SameDues
<1>8. ASSUME NEW g \in Guardian, AddGuardian(g) \/ RemoveGuardian(g) PROVE FundsInv'
    <2>1. FundsKept' /\ treasury'.periods = treasury.periods
        BY <1>0, <1>8, GuardiansKeep
    <2>2. UNCHANGED <<fundHeight, schedules>>
        BY <1>8 DEF AddGuardian, RemoveGuardian
    <2> QED
        BY <2>1, <2>2, SameDues
<1>9. ASSUME NEW g \in Guardian, NEW a \in Amounts, ProposeMultiSigSpend(a, g) PROVE FundsInv'
    <2>0. a \in Nat
        BY ONLY TreasuryAssumption, a \in Amounts
    <2>1. FundsKept' /\ treasury'.periods = treasury.periods
        BY <1>0, <1>9, <2>0, SignaturesKeep
    <2>2. UNCHANGED <<fundHeight, schedules>>
        BY <1>9 DEF ProposeMultiSigSpend
    <2> QED
        BY <2>1, <2>2, SameDues
<1>10. ASSUME NEW g \in Guardian, NEW i, SignMultiSigSpend(i, g) PROVE FundsInv'
    <2>0. 0 \in Nat
        OBVIOUS
    <2>1. FundsKept' /\ treasury'.periods = treasury.periods
        BY <1>0, <1>10, <2>0, SignaturesKeep
    <2>2. UNCHANGED <<fundHeight, schedules>>
        BY <1>10 DEF SignMultiSigSpend
    <2> QED
        BY <2>1, <2>2, SameDues
<1>11. ASSUME NEW fee \in Fees, NEW cfg \in SplitConfigs, Route(fee, cfg) PROVE FundsInv'
    <2>0. fee \in Nat /\ cfg \in [producer : Nat, treasury : Nat, track : Tracks]
        <3>1. fee \in Nat
            BY ONLY TreasuryAssumption, fee \in Fees
        <3>2. cfg \in [producer : Nat, treasury : Nat, track : Tracks]
            BY ONLY SharesAssumption, cfg \in SplitConfigs
        <3> QED
            BY <3>1, <3>2
    <2>1. cfg.producer + cfg.treasury <= 10000
        BY ONLY SharesAssumption, cfg \in SplitConfigs
    <2>2. FundsKept' /\ treasury'.periods = treasury.periods
        BY <1>0, <1>11, <2>0, <2>1, RouteKeeps
    <2>3. UNCHANGED <<fundHeight, schedules>>
        BY <1>11 DEF Route
    <2> QED
        BY <2>2, <2>3, SameDues
<1>12. "GRANTS" \in Tracks /\ "EMERGENCY" \in Tracks /\ "OPERATIONS" \in Tracks
    BY DEF Tracks
<1> QED
    BY <1>1, <1>2, <1>3, <1>4, <1>5, <1>6, <1>7, <1>8, <1>9, <1>10, <1>11, <1>12, ClaimsKeep, HeightKeeps
       DEF TreasuryStep, SpendingStep, GrantStep, EmergencyStep

-----------------------------------------------------------------------------
(* Votes and their power *)

Ballot == [voter : Voter, choice : VoteChoices, power : Nat]

(* The integer root of a number is a number, and that of one is one *)
LEMMA RootIsNumber ==
    ASSUME NEW n \in Nat
    PROVE  Isqrt(n) \in Nat /\ (n = 1 => Isqrt(n) = 1)
<1> DEFINE Past == {r \in 0 .. n : (r + 1) * (r + 1) > n}
           IsRoot(r) == r * r <= n /\ (r + 1) * (r + 1) > n
<1>1. n \in Past
    BY SMT
<1>2. PICK r \in Past : \A s \in Past : r <= s
    <2>1. Past \subseteq Nat
        OBVIOUS
    <2>2. Past # {}
        BY <1>1
    <2> HIDE DEF Past
    <2> QED
        BY <2>1, <2>2, LeastNumber
<1>3. r \in 0 .. n /\ (r + 1) * (r + 1) > n
    OBVIOUS
<1>4. r * r <= n
    <2>1. CASE r = 0
        BY <2>1
    <2>2. CASE r # 0
        <3>1. r - 1 \in 0 .. n /\ r - 1 \notin Past /\ (r - 1) + 1 = r
            BY <1>2, <1>3, <2>2
        <3>2. ~(((r - 1) + 1) * ((r - 1) + 1) > n)
            BY <3>1
        <3>3. r * r \in Nat /\ ~(r * r > n)
            BY <1>3, <3>1, <3>2
        <3> QED
            BY <3>3
    <2> QED
        BY <2>1, <2>2
<1>5. \E x \in 0 .. n : IsRoot(x)
    BY <1>3, <1>4
<1>6. Isqrt(n) \in 0 .. n /\ IsRoot(Isqrt(n))
    BY <1>5 DEF Isqrt
<1>7. n = 1 => Isqrt(n) = 1
    <2> DEFINE x == Isqrt(n)
    <2>1. x \in 0 .. n /\ (x + 1) * (x + 1) > n
        BY <1>6
    <2> HIDE DEF x
    <2>2. n = 1 => x = 0 \/ x = 1
        BY <2>1
    <2>3. (n = 1 /\ x = 0) => (x + 1) * (x + 1) = 1
        OBVIOUS
    <2>4. n = 1 => x = 1
        BY <2>1, <2>2, <2>3
    <2> QED
        BY <2>4 DEF x
<1> QED
    BY <1>6, <1>7

(* What the guard against large holders leaves is a number, and one stays one *)
LEMMA EffectivePower ==
    ASSUME NEW n \in Nat
    PROVE  ComputeEffectivePower(n) \in Nat /\ (n = 1 => ComputeEffectivePower(n) = 1)
<1> DEFINE r == Isqrt(n)
<1>1. r \in Nat /\ (n = 1 => r = 1)
    BY RootIsNumber
<1>2. PowerCap \in Nat
    BY VotingAssumption DEF VotingAssumption
<1>3. ComputeEffectivePower(n) = IF PowerCap > 0 /\ r > PowerCap THEN PowerCap ELSE r
    BY DEF ComputeEffectivePower
<1> HIDE DEF r
<1> QED
    BY <1>1, <1>2, <1>3

(* One more vote adds its power, no vote has none *)
LEMMA OneMoreVote ==
    ASSUME NEW S, S \subseteq Ballot, IsFiniteSet(S), NEW x \in Ballot \ S
    PROVE  VotePower(S) \in Nat /\ VotePower(S \cup {x}) = VotePower(S) + x.power
<1> DEFINE f == [y \in S |-> y.power]
           g == [y \in S \cup {x} |-> y.power]
<1>1. IsFiniteSet(Units(f)) /\ Sum(f) \in Nat
    <2>1. DOMAIN f = S /\ \A y \in DOMAIN f : f[y] \in Nat
        BY DEF Ballot
    <2> QED
        BY <2>1, FiniteUnits
<1>2. /\ x \notin DOMAIN f /\ DOMAIN g = DOMAIN f \cup {x} /\ g[x] = x.power /\ g[x] \in Nat
      /\ \A y \in DOMAIN f : g[y] = f[y]
    BY DEF Ballot
<1>3. Sum(g) = Sum(f) + g[x]
    BY <1>1, <1>2, SumOneMore
<1> QED
    BY <1>1, <1>2, <1>3 DEF VotePower

(* Votes apart from each other add up *)
LEMMA VotesApart ==
    ASSUME NEW S, NEW T, S \subseteq Ballot, T \subseteq Ballot, IsFiniteSet(S), IsFiniteSet(T),
           S \cap T = {}
    PROVE  /\ VotePower(S) \in Nat /\ VotePower(T) \in Nat
           /\ VotePower(S \cup T) = VotePower(S) + VotePower(T)
<1> DEFINE pow(R) == [y \in R |-> y.power]
<1>1. ASSUME NEW R, R \subseteq Ballot, IsFiniteSet(R)
      PROVE  IsFiniteSet(Units(pow(R))) /\ Sum(pow(R)) \in Nat
    <2>1. DOMAIN pow(R) = R /\ \A y \in DOMAIN pow(R) : pow(R)[y] \in Nat
        BY <1>1 DEF Ballot
    <2> QED
        BY <1>1, <2>1, FiniteUnits
<1>2. Units(pow(S \cup T)) = Units(pow(S)) \cup Units(pow(T))
    BY DEF Units
<1>3. Units(pow(S)) \cap Units(pow(T)) = {}
    BY DEF Units
<1>4. IsFiniteSet(Units(pow(S))) /\ IsFiniteSet(Units(pow(T))) /\ Sum(pow(S)) \in Nat /\ Sum(pow(T)) \in Nat
    BY <1>1
<1> HIDE DEF pow
<1>5. Cardinality(Units(pow(S)) \cup Units(pow(T))) = Cardinality(Units(pow(S))) + Cardinality(Units(pow(T)))
    BY <1>3, <1>4, UnitsAddUp
<1> QED
    BY <1>2, <1>4, <1>5 DEF VotePower, Sum, pow

(* The four choices make up the whole vote *)
LEMMA ChoicesAddUp ==
    ASSUME NEW V, V \subseteq Ballot, IsFiniteSet(V)
    PROVE  LET with(c) == VotePower({x \in V : x.choice = c}) IN
           /\ with("YES") \in Nat /\ with("NO") \in Nat /\ with("ABSTAIN") \in Nat /\ with("VETO") \in Nat
           /\ VotePower(V) = with("YES") + with("NO") + with("ABSTAIN") + with("VETO")
           /\ VotePower({x \in V : x.choice = "YES"} \cup {x \in V : x.choice = "NO"})
                 = with("YES") + with("NO")
<1> DEFINE part(c) == {x \in V : x.choice = c}
           A == part("YES") \cup part("NO")
           B == part("ABSTAIN") \cup part("VETO")
<1>1. \A c : part(c) \subseteq Ballot /\ IsFiniteSet(part(c))
    BY FS_Subset
<1>2. /\ part("YES") \cap part("NO") = {} /\ part("ABSTAIN") \cap part("VETO") = {}
      /\ A \cap B = {}
    OBVIOUS
<1>3. V = A \cup B
    BY DEF Ballot, VoteChoices
<1>4. A \subseteq Ballot /\ B \subseteq Ballot /\ IsFiniteSet(A) /\ IsFiniteSet(B)
    <2>1. A \subseteq V /\ B \subseteq V
        OBVIOUS
    <2> QED
        BY <2>1, FS_Subset
<1> HIDE DEF part
<1>5. /\ VotePower(part("YES")) \in Nat /\ VotePower(part("NO")) \in Nat
      /\ VotePower(A) = VotePower(part("YES")) + VotePower(part("NO"))
    BY <1>1, <1>2, VotesApart
<1>6. /\ VotePower(part("ABSTAIN")) \in Nat /\ VotePower(part("VETO")) \in Nat
      /\ VotePower(B) = VotePower(part("ABSTAIN")) + VotePower(part("VETO"))
    BY <1>1, <1>2, VotesApart
<1> HIDE DEF A, B
<1>7. VotePower(A \cup B) = VotePower(A) + VotePower(B)
    BY <1>2, <1>4, VotesApart
<1>8. VotePower(V) = VotePower(part("YES")) + VotePower(part("NO")) + VotePower(part("ABSTAIN"))
                     + VotePower(part("VETO"))
    BY <1>3, <1>5, <1>6, <1>7
<1> QED
    BY <1>5, <1>6, <1>8 DEF part, A

-----------------------------------------------------------------------------
(* Proposals *)

Statuses == {"PENDING", "ACTIVE", "PASSED", "REJECTED", "EXECUTED"}
Proposal == [content : Content, status : Statuses, start : Nat, end : Nat, threshold : Nat,
             tally : [VoteChoices -> Nat], execution : Nat, boule_approved : BOOLEAN,
             marked : BOOLEAN, deposit_returned : BOOLEAN]

VotingTyped ==
    /\ now \in Nat /\ holders \subseteq Voter
    /\ proposals \in Seq(Proposal) /\ Len(proposals) <= MaxProposals
    /\ votes \in Seq(SUBSET Ballot) /\ Len(votes) = Len(proposals)
    /\ snapshots \in Seq(SUBSET Voter) /\ Len(snapshots) = Len(proposals)
    /\ executions \in Seq(Nat) /\ Len(executions) = Len(proposals)

(* Of a proposal q with the votes V, the snapshot S, n executions, at the height t, with *)
(* the approvals A.  The votes on record are tallied, one for each voter of the snapshot; *)
Cast(q, V, S) ==
    /\ IsFiniteSet(V)
    /\ \A x, y \in V : x.voter = y.voter => x = y
    /\ \A c \in VoteChoices : q.tally[c] = VotePower({x \in V : x.choice = c})
    /\ S # {} => \A x \in V : x.voter \in S /\ x.power = 1

(* what passed did so after the window by the votes on record, and waits;                 *)
Carried(V, threshold) ==
    /\ VotePower(V) >= Quorum
    /\ VotePower({x \in V : x.choice = "YES"}) * 100
          >= threshold * VotePower({x \in V : x.choice = "YES"} \cup {x \in V : x.choice = "NO"})
    /\ VotePower({x \in V : x.choice = "VETO"}) * 10000 <= VetoBps * VotePower(V)

Decided(q, V, n, t) ==
    /\ q.status \in {"PASSED", "EXECUTED"} => t > q.end /\ Carried(V, q.threshold)
    /\ q.status = "PASSED" => q.execution > q.end + ExecutionDelay
    /\ n > 0 => t > q.end + ExecutionDelay

(* votes and the latch boule_approved are preceded by approvals or set by hand             *)
Cleared(q, V, A) ==
    RequireBoule => /\ V # {} => q.boule_approved
                    /\ q.boule_approved => q.marked \/ 3 * Cardinality(A) >= 2 * CouncilSize

ProposalInv(q, V, S, n, t, A) == Cast(q, V, S) /\ Decided(q, V, n, t) /\ Cleared(q, V, A)

ReviewsTyped == reviews \in [Screened -> SUBSET (Citizen \X BOOLEAN)]
ParamsValid == \A key \in DOMAIN params : ValidateUint(key, params[key])

AllProposals ==
    \A p \in Proposals :
       ProposalInv(proposals[p], votes[p], snapshots[p], executions[p], now, Approvals(p))

VotingInv == VotingTyped /\ ReviewsTyped /\ ParamsValid /\ AllProposals

(* Nothing is proposed at the start *)
LEMMA InitVotingInv == InitVoting /\ InitBoule => VotingInv
<1> SUFFICES ASSUME InitVoting, InitBoule PROVE VotingInv
    OBVIOUS
<1>1. MaxProposals \in Nat
    BY VotingAssumption DEF VotingAssumption
<1>2. VotingTyped
    <2>1. now = 0 /\ holders \subseteq Voter
        BY DEF InitVoting
    <2>2. proposals = <<>> /\ votes = <<>> /\ snapshots = <<>> /\ executions = <<>>
        BY DEF InitVoting
    <2>3. Len(proposals) = 0 /\ 0 <= MaxProposals
        BY <1>1, <2>2
    <2> QED
        BY <2>1, <2>2, <2>3 DEF VotingTyped
<1>3. ReviewsTyped
    BY DEF InitBoule, ReviewsTyped
<1>4. ParamsValid
    <2>1. /\ params = [veto_threshold_bps |-> 3334, boule_size |-> 21, voting_delay_blocks |-> 100]
          /\ DOMAIN params = {"veto_threshold_bps", "boule_size", "voting_delay_blocks"}
        BY DEF InitVoting
    <2>2. /\ ValidateUint("veto_threshold_bps", 3334) /\ ValidateUint("boule_size", 21)
          /\ ValidateUint("voting_delay_blocks", 100)
        BY DEF ValidateUint
    <2> QED
        BY <2>1, <2>2 DEF ParamsValid
<1>5. AllProposals
    <2>1. Proposals = {}
        BY DEF InitVoting, Proposals
    <2> QED
        BY <2>1 DEF AllProposals
<1> QED
    BY <1>2, <1>3, <1>4, <1>5 DEF VotingInv

(* The indices of what is kept of every proposal *)
LEMMA Indices ==
    ASSUME VotingTyped
    PROVE  /\ DOMAIN proposals = 1 .. Len(proposals) /\ DOMAIN votes = DOMAIN proposals
           /\ DOMAIN snapshots = DOMAIN proposals /\ DOMAIN executions = DOMAIN proposals
           /\ Len(proposals) \in Nat /\ DOMAIN proposals \subseteq Screened
           /\ \A p \in DOMAIN proposals :
                 /\ proposals[p] \in Proposal /\ votes[p] \subseteq Ballot
                 /\ snapshots[p] \subseteq Voter /\ executions[p] \in Nat
<1>1. MaxProposals \in Nat /\ 1 .. MaxProposals \subseteq Screened
    BY VotingAssumption DEF VotingAssumption
<1>2. /\ DOMAIN proposals = 1 .. Len(proposals) /\ DOMAIN votes = DOMAIN proposals
      /\ DOMAIN snapshots = DOMAIN proposals /\ DOMAIN executions = DOMAIN proposals
      /\ Len(proposals) \in Nat /\ Len(proposals) <= MaxProposals
    BY DEF VotingTyped
<1>3. DOMAIN proposals \subseteq Screened
    BY <1>1, <1>2
<1>4. \A p \in DOMAIN proposals :
         /\ proposals[p] \in Proposal /\ votes[p] \in SUBSET Ballot
         /\ snapshots[p] \in SUBSET Voter /\ executions[p] \in Nat
    BY <1>2 DEF VotingTyped
<1> QED
    BY <1>2, <1>3, <1>4

(* A step that changes one proposal, its votes and its executions *)
LEMMA OneProposalChanges ==
    ASSUME VotingTyped, AllProposals, NEW p \in Proposals,
           NEW q \in Proposal, NEW V \in SUBSET Ballot, NEW n \in Nat,
           proposals' = [proposals EXCEPT ![p] = q], votes' = [votes EXCEPT ![p] = V],
           executions' = [executions EXCEPT ![p] = n], UNCHANGED <<now, holders, snapshots, reviews>>,
           ProposalInv(q, V, snapshots[p], n, now, Approvals(p))
    PROVE  VotingTyped' /\ AllProposals'
<1>1. /\ DOMAIN proposals = 1 .. Len(proposals) /\ DOMAIN votes = DOMAIN proposals
      /\ DOMAIN snapshots = DOMAIN proposals /\ DOMAIN executions = DOMAIN proposals
      /\ p \in DOMAIN proposals
    BY Indices DEF Proposals
<1>2. /\ proposals' \in Seq(Proposal) /\ Len(proposals') = Len(proposals)
      /\ DOMAIN proposals' = DOMAIN proposals /\ proposals'[p] = q
      /\ \A k \in DOMAIN proposals \ {p} : proposals'[k] = proposals[k]
    BY <1>1 DEF VotingTyped
<1>3. /\ votes' \in Seq(SUBSET Ballot) /\ Len(votes') = Len(votes) /\ votes'[p] = V
      /\ \A k \in DOMAIN proposals \ {p} : votes'[k] = votes[k]
    BY <1>1 DEF VotingTyped
<1>4. /\ executions' \in Seq(Nat) /\ Len(executions') = Len(executions) /\ executions'[p] = n
      /\ \A k \in DOMAIN proposals \ {p} : executions'[k] = executions[k]
    BY <1>1 DEF VotingTyped
<1>5. VotingTyped'
    BY <1>2, <1>3, <1>4 DEF VotingTyped
<1>6. \A k \in DOMAIN proposals : Approvals(k)' = Approvals(k)
    BY DEF Approvals
<1>7. ASSUME NEW k \in DOMAIN proposals
      PROVE  ProposalInv(proposals'[k], votes'[k], snapshots'[k], executions'[k], now', Approvals(k)')
    <2>1. CASE k = p
        BY <1>2, <1>3, <1>4, <1>6, <2>1
    <2>2. CASE k # p
        <3>1. ProposalInv(proposals[k], votes[k], snapshots[k], executions[k], now, Approvals(k))
            BY <1>7 DEF AllProposals, Proposals
        <3> QED
            BY <1>2, <1>3, <1>4, <1>6, <2>2, <3>1
    <2> QED
        BY <2>1, <2>2
<1>8. AllProposals'
    BY <1>2, <1>7 DEF AllProposals, Proposals
<1> QED
    BY <1>5, <1>8

(* CreateProposal: nothing is cast, decided or cleared *)
LEMMA CreateProposalKeeps ==
    ASSUME VotingInv, NEW c \in Content, CreateProposal(c)
    PROVE  VotingInv'
<1> DEFINE q == [content |-> c, status |-> "PENDING",
                 start |-> now + VotingDelay, end |-> now + VotingDelay + VotingPeriod,
                 threshold |-> IF c.type = "CONSTITUTIONAL" THEN 66 ELSE Threshold,
                 tally |-> [choice \in VoteChoices |-> 0],
                 execution |-> 0, boule_approved |-> ~RequireBoule, marked |-> FALSE,
                 deposit_returned |-> FALSE]
           l == Len(proposals) + 1
<1>1. /\ {VotingDelay, VotingPeriod, ExecutionDelay, MaxProposals} \subseteq Nat
      /\ Threshold \in Nat /\ RequireBoule \in BOOLEAN
    BY VotingAssumption DEF VotingAssumption
<1>2. VotingTyped /\ AllProposals /\ now \in Nat
    BY DEF VotingInv, VotingTyped
<1>3. q \in Proposal
    BY <1>1, <1>2 DEF Proposal, Statuses
<1>4. /\ proposals' = Append(proposals, q) /\ votes' = Append(votes, {})
      /\ snapshots' = Append(snapshots, holders) /\ executions' = Append(executions, 0)
      /\ Len(proposals) < MaxProposals
      /\ UNCHANGED <<now, holders, params, reviews>>
    BY DEF CreateProposal, bouleVars
<1>5. /\ q.status = "PENDING" /\ q.boule_approved = ~RequireBoule
      /\ \A choice \in VoteChoices : q.tally[choice] = 0
    OBVIOUS
<1> HIDE DEF q
<1>6. /\ DOMAIN proposals = 1 .. Len(proposals) /\ DOMAIN votes = DOMAIN proposals
      /\ DOMAIN snapshots = DOMAIN proposals /\ DOMAIN executions = DOMAIN proposals
      /\ Len(proposals) \in Nat
    BY <1>2, Indices
<1>7. /\ proposals' \in Seq(Proposal) /\ Len(proposals') = l /\ proposals'[l] = q
      /\ DOMAIN proposals' = DOMAIN proposals \cup {l}
      /\ \A k \in DOMAIN proposals : proposals'[k] = proposals[k]
    BY <1>2, <1>3, <1>4, <1>6 DEF VotingTyped
<1>8. /\ votes' \in Seq(SUBSET Ballot) /\ Len(votes') = l /\ votes'[l] = {}
      /\ \A k \in DOMAIN proposals : votes'[k] = votes[k]
    BY <1>2, <1>4, <1>6 DEF VotingTyped
<1>9. /\ snapshots' \in Seq(SUBSET Voter) /\ Len(snapshots') = l /\ snapshots'[l] = holders
      /\ \A k \in DOMAIN proposals : snapshots'[k] = snapshots[k]
    BY <1>2, <1>4, <1>6 DEF VotingTyped
<1>10. /\ executions' \in Seq(Nat) /\ Len(executions') = l /\ executions'[l] = 0
       /\ \A k \in DOMAIN proposals : executions'[k] = executions[k]
    BY <1>2, <1>4, <1>6 DEF VotingTyped
<1>11. VotingTyped'
    <2>1. l <= MaxProposals
        BY <1>1, <1>4, <1>6
    <2> QED
        BY <1>2, <1>4, <1>7, <1>8, <1>9, <1>10, <2>1 DEF VotingTyped
<1>12. \A A : ProposalInv(q, {}, holders, 0, now, A)
    <2>1. IsFiniteSet({}) /\ VotePower({}) = 0
        <3>1. Sum([x \in {} |-> x.power]) = 0
            BY SumOfNothing
        <3> QED
            BY <3>1, FS_EmptySet DEF VotePower
    <2>2. \A ch \in VoteChoices : {x \in {} : x.choice = ch} = {}
        OBVIOUS
    <2>3. Cast(q, {}, holders)
        BY <1>5, <2>1, <2>2 DEF Cast
    <2>4. Decided(q, {}, 0, now)
        BY <1>5 DEF Decided
    <2>5. \A A : Cleared(q, {}, A)
        BY <1>1, <1>5 DEF Cleared
    <2> QED
        BY <2>3, <2>4, <2>5 DEF ProposalInv
<1>13. \A k \in DOMAIN proposals : Approvals(k)' = Approvals(k)
    BY <1>4 DEF Approvals
<1>14. ASSUME NEW k \in DOMAIN proposals'
       PROVE  ProposalInv(proposals'[k], votes'[k], snapshots'[k], executions'[k], now', Approvals(k)')
    <2>1. CASE k = l
        BY <1>4, <1>7, <1>8, <1>9, <1>10, <1>12, <2>1
    <2>2. CASE k \in DOMAIN proposals
        <3>1. ProposalInv(proposals[k], votes[k], snapshots[k], executions[k], now, Approvals(k))
            BY <1>2, <2>2 DEF AllProposals, Proposals
        <3> QED
            BY <1>4, <1>7, <1>8, <1>9, <1>10, <1>13, <2>2, <3>1
    <2> QED
        BY <1>7, <2>1, <2>2
<1>15. AllProposals'
    BY <1>14 DEF AllProposals, Proposals
<1>16. ReviewsTyped' /\ ParamsValid'
    BY <1>4 DEF VotingInv, ReviewsTyped, ParamsValid
<1> QED
    BY <1>11, <1>15, <1>16 DEF VotingInv

(* A citizen reviews once, one way or the other: finitely many reviews *)
LEMMA FiniteReviews ==
    ASSUME NEW R, R \subseteq Citizen \X BOOLEAN
    PROVE  LET A == {r \in R : r[2]} IN IsFiniteSet(A) /\ Cardinality(A) \in Nat
<1> DEFINE A == {r \in R : r[2]}
<1>1. IsFiniteSet(Citizen)
    BY BouleAssumption DEF BouleAssumption
<1>2. IsFiniteSet(BOOLEAN)
    <2>1. IsFiniteSet({TRUE})
        BY FS_Singleton
    <2>2. IsFiniteSet({TRUE} \cup {FALSE})
        BY <2>1, FS_AddElement
    <2>3. BOOLEAN = {TRUE} \cup {FALSE}
        BY Zenon
    <2> QED
        BY <2>2, <2>3, Zenon
<1>3. IsFiniteSet(Citizen \X BOOLEAN)
    BY <1>1, <1>2, FS_Product
<1>4. A \subseteq Citizen \X BOOLEAN
    OBVIOUS
<1>5. IsFiniteSet(A)
    BY <1>3, <1>4, FS_Subset
<1> QED
    BY <1>5, FS_CardinalityType

(* So are the approvals of a proposal *)
LEMMA ApprovalsFinite ==
    ASSUME ReviewsTyped, NEW p \in Screened
    PROVE  IsFiniteSet(Approvals(p)) /\ Cardinality(Approvals(p)) \in Nat
<1>1. reviews[p] \subseteq Citizen \X BOOLEAN
    BY DEF ReviewsTyped
<1> QED
    BY <1>1, FiniteReviews DEF Approvals

(* The count IsProposalApproved asks for is two thirds of the council *)
LEMMA ApprovedByTwoThirds ==
    ASSUME ReviewsTyped, NEW p, IsProposalApproved(p), p \in Screened
    PROVE  3 * Cardinality(Approvals(p)) >= 2 * CouncilSize
<1> DEFINE n == Cardinality(Approvals(p))
<1>1. CouncilSize \in Nat \ {0} /\ IsFiniteSet(Citizen)
    BY BouleAssumption DEF BouleAssumption
<1>2. n \in Nat
    BY ApprovalsFinite
<1>3. n >= (CouncilSize * 2 + 2) \div 3
    BY DEF IsProposalApproved
<1> HIDE DEF n
<1>4. 3 * n >= 2 * CouncilSize
    BY <1>1, <1>2, <1>3
<1> QED
    BY <1>4 DEF n

(* CastVote: one more vote, of one who had none, while the window is open *)
LEMMA CastVoteKeeps ==
    ASSUME VotingInv, NEW p, NEW v \in Voter, NEW choice \in VoteChoices, NEW claimed \in Nat,
           CastVote(p, v, choice, claimed)
    PROVE  VotingInv'
<1> DEFINE power == ComputeEffectivePower(Power(p, v, claimed))
           x == [voter |-> v, choice |-> choice, power |-> power]
           o == proposals[p]
           V == votes[p]
           W == V \cup {x}
           tally == [o.tally EXCEPT ![choice] = o.tally[choice] + power]
           q == [o EXCEPT !.tally = tally, !.boule_approved = TRUE,
                          !.status = IF o.status = "PENDING" THEN "ACTIVE" ELSE o.status]
<1>1. VotingTyped /\ AllProposals /\ now \in Nat /\ p \in DOMAIN proposals
    BY DEF VotingInv, VotingTyped, CastVote, Proposals
<1>2. o \in Proposal /\ V \subseteq Ballot /\ snapshots[p] \subseteq Voter /\ executions[p] \in Nat
    BY <1>1, Indices
<1>3. Cast(o, V, snapshots[p]) /\ Decided(o, V, executions[p], now) /\ Cleared(o, V, Approvals(p))
    BY <1>1 DEF AllProposals, ProposalInv, Proposals
<1>4. power \in Nat /\ (snapshots[p] # {} => power = 1 /\ v \in snapshots[p])
    <2> DEFINE n == Power(p, v, claimed)
    <2>1. n \in Nat
        BY DEF Power
    <2>2. snapshots[p] # {} => n = 1 /\ v \in snapshots[p]
        BY DEF CastVote, Power, HasSnapshot
    <2> HIDE DEF n
    <2>3. ComputeEffectivePower(n) \in Nat /\ (n = 1 => ComputeEffectivePower(n) = 1)
        BY <2>1, EffectivePower
    <2> QED
        BY <2>2, <2>3 DEF n
<1>5. /\ votes' = [votes EXCEPT ![p] = W]
      /\ now \in o.start .. o.end /\ UNCHANGED <<now, holders, snapshots, params, executions, reviews>>
      /\ \A y \in V : y.voter # v
      /\ Screening(p)
    BY <1>1, <1>2 DEF CastVote, InWindow, HasVoted, bouleVars, VotingTyped
<1>6. proposals' = [proposals EXCEPT ![p] = q]
    BY <1>1, <1>2 DEF CastVote, Proposal, VotingTyped
<1> HIDE DEF power
<1>7. x \in Ballot /\ x \notin V /\ x.voter = v /\ x.choice = choice /\ x.power = power
    BY <1>4, <1>5 DEF Ballot
<1>8. /\ o.tally \in [VoteChoices -> Nat] /\ o.end \in Nat /\ o.start \in Nat /\ o.status \in Statuses
      /\ o.boule_approved \in BOOLEAN
    BY <1>2 DEF Proposal
<1>9. /\ tally \in [VoteChoices -> Nat] /\ tally[choice] = o.tally[choice] + power
      /\ \A c \in VoteChoices \ {choice} : tally[c] = o.tally[c]
    BY <1>4, <1>8
<1> HIDE DEF tally
<1>10. /\ q \in Proposal /\ q.tally = tally /\ q.boule_approved = TRUE /\ q.end = o.end
       /\ q.marked = o.marked
       /\ q.status = (IF o.status = "PENDING" THEN "ACTIVE" ELSE o.status)
       /\ q.execution = o.execution
    BY <1>2, <1>8, <1>9 DEF Proposal, Statuses
<1> HIDE DEF q, x, o
<1>11. Cast(q, W, snapshots[p])
    <2>1. IsFiniteSet(V) /\ IsFiniteSet(W)
        BY <1>3, FS_AddElement DEF Cast
    <2>2. \A y, z \in W : y.voter = z.voter => y = z
        BY <1>3, <1>5, <1>7 DEF Cast
    <2>3. ASSUME NEW c \in VoteChoices
          PROVE  q.tally[c] = VotePower({y \in W : y.choice = c})
        <3> DEFINE S == {y \in V : y.choice = c}
                   T == {y \in W : y.choice = c}
        <3>1. o.tally[c] = VotePower(S)
            BY <1>3 DEF Cast
        <3>2. S \subseteq Ballot /\ IsFiniteSet(S)
            BY <1>2, <2>1, FS_Subset
        <3>3. CASE c = choice
            <4>1. T = S \cup {x} /\ x \notin S
                BY <1>7, <3>3
            <4>2. x \in Ballot \ S
                BY <1>7, <4>1
            <4> HIDE DEF S, T
            <4>3. VotePower(S \cup {x}) = VotePower(S) + x.power
                BY <3>2, <4>2, OneMoreVote
            <4> QED
                BY <1>7, <1>9, <1>10, <3>1, <3>3, <4>1, <4>3 DEF T
        <3>4. CASE c # choice
            <4>1. T = S
                BY <1>7, <3>4
            <4> QED
                BY <1>9, <1>10, <3>1, <3>4, <4>1
        <3> QED
            BY <3>3, <3>4
    <2>4. snapshots[p] # {} => \A y \in W : y.voter \in snapshots[p] /\ y.power = 1
        BY <1>3, <1>4, <1>7 DEF Cast
    <2> QED
        BY <2>1, <2>2, <2>3, <2>4 DEF Cast
<1>12. Decided(q, W, executions[p], now)
    <2>1. ~(now > o.end)
        BY <1>1, <1>5, <1>8
    <2>2. o.status \notin {"PASSED", "EXECUTED"}
        BY <1>3, <2>1 DEF Decided
    <2>3. q.status \notin {"PASSED", "EXECUTED"}
        BY <1>10, <2>2
    <2>4. q.status # "PASSED"
        BY <2>3
    <2>5. executions[p] > 0 => now > q.end + ExecutionDelay
        BY <1>3, <1>10 DEF Decided
    <2> QED
        BY <2>3, <2>4, <2>5 DEF Decided
<1>13. Cleared(q, W, Approvals(p))
    <2>1. SUFFICES ASSUME RequireBoule
                   PROVE  q.marked \/ 3 * Cardinality(Approvals(p)) >= 2 * CouncilSize
        BY <1>10 DEF Cleared
    <2>2. o.boule_approved \/ IsProposalApproved(p)
        BY <1>5, <2>1 DEF Screening, o
    <2>3. CASE o.boule_approved
        BY <1>3, <1>10, <2>1, <2>3 DEF Cleared
    <2>4. CASE IsProposalApproved(p)
        BY <1>1, <2>4, Indices, ApprovedByTwoThirds DEF VotingInv
    <2> QED
        BY <2>2, <2>3, <2>4
<1>14. W \in SUBSET Ballot
    BY <1>2, <1>7
<1>15. executions' = [executions EXCEPT ![p] = executions[p]]
    BY <1>1, <1>5, Indices DEF VotingTyped
<1>16. ProposalInv(q, W, snapshots[p], executions[p], now, Approvals(p))
    BY <1>11, <1>12, <1>13 DEF ProposalInv
<1> HIDE DEF W, V
<1>17. VotingTyped' /\ AllProposals'
    BY <1>1, <1>2, <1>5, <1>6, <1>10, <1>14, <1>15, <1>16, OneProposalChanges DEF Proposals
<1>18. ReviewsTyped' /\ ParamsValid'
    BY <1>5 DEF VotingInv, ReviewsTyped, ParamsValid
<1> QED
    BY <1>17, <1>18 DEF VotingInv

(* NoteApproval, MarkBouleApproved and ReturnDeposit: votes, tally and status stay *)
LEMMA NotesKeep ==
    ASSUME VotingInv, NEW p, NoteApproval(p) \/ MarkBouleApproved(p) \/ ReturnDeposit(p)
    PROVE  VotingInv'
<1> DEFINE o == proposals[p]
           V == votes[p]
<1>1. VotingTyped /\ AllProposals /\ now \in Nat /\ p \in DOMAIN proposals /\ ReviewsTyped
    BY DEF VotingInv, VotingTyped, NoteApproval, MarkBouleApproved, ReturnDeposit, Proposals
<1>2. o \in Proposal /\ V \in SUBSET Ballot /\ executions[p] \in Nat /\ p \in Screened
    BY <1>1, Indices
<1>3. Cast(o, V, snapshots[p]) /\ Decided(o, V, executions[p], now) /\ Cleared(o, V, Approvals(p))
    BY <1>1 DEF AllProposals, ProposalInv, Proposals
<1>4. UNCHANGED <<now, votes, holders, snapshots, params, executions, reviews>>
    BY DEF NoteApproval, MarkBouleApproved, ReturnDeposit, bouleVars
<1>5. PICK q \in Proposal :
         /\ proposals' = [proposals EXCEPT ![p] = q]
         /\ q.status = o.status /\ q.end = o.end /\ q.execution = o.execution
         /\ q.threshold = o.threshold /\ q.tally = o.tally
         /\ \/ q.boule_approved = o.boule_approved /\ q.marked = o.marked
            \/ q.boule_approved = TRUE /\ q.marked = o.marked /\ IsProposalApproved(p)
            \/ q.boule_approved = TRUE /\ q.marked = TRUE
    <2>1. CASE NoteApproval(p)
        <3> DEFINE q == [o EXCEPT !.boule_approved = TRUE]
        <3>1. proposals' = [proposals EXCEPT ![p] = q] /\ IsProposalApproved(p)
            BY <2>1 DEF NoteApproval
        <3>2. /\ q \in Proposal /\ q.status = o.status /\ q.end = o.end /\ q.execution = o.execution
              /\ q.threshold = o.threshold /\ q.tally = o.tally /\ q.boule_approved = TRUE
              /\ q.marked = o.marked
            BY <1>2 DEF Proposal
        <3> QED
            BY <3>1, <3>2
    <2>3. CASE MarkBouleApproved(p)
        <3> DEFINE q == [o EXCEPT !.boule_approved = TRUE, !.marked = TRUE]
        <3>1. proposals' = [proposals EXCEPT ![p] = q]
            BY <1>1, <1>2, <2>3 DEF MarkBouleApproved, Proposal, VotingTyped
        <3>2. /\ q \in Proposal /\ q.status = o.status /\ q.end = o.end /\ q.execution = o.execution
              /\ q.threshold = o.threshold /\ q.tally = o.tally /\ q.boule_approved = TRUE
              /\ q.marked = TRUE
            BY <1>2 DEF Proposal
        <3> QED
            BY <3>1, <3>2
    <2>2. CASE ReturnDeposit(p)
        <3> DEFINE q == [o EXCEPT !.deposit_returned = TRUE]
        <3>1. proposals' = [proposals EXCEPT ![p] = q]
            BY <2>2 DEF ReturnDeposit
        <3>2. /\ q \in Proposal /\ q.status = o.status /\ q.end = o.end /\ q.execution = o.execution
              /\ q.threshold = o.threshold /\ q.tally = o.tally /\ q.boule_approved = o.boule_approved
              /\ q.marked = o.marked
            BY <1>2 DEF Proposal
        <3> QED
            BY <3>1, <3>2
    <2> QED
        BY <2>1, <2>2, <2>3
<1>6. Cast(q, V, snapshots[p]) /\ Decided(q, V, executions[p], now)
    BY <1>3, <1>5 DEF Cast, Decided
<1>7. Cleared(q, V, Approvals(p))
    <2>1. IsProposalApproved(p) => 3 * Cardinality(Approvals(p)) >= 2 * CouncilSize
        BY <1>1, <1>2, ApprovedByTwoThirds
    <2> QED
        BY <1>3, <1>5, <2>1 DEF Cleared
<1>8. votes' = [votes EXCEPT ![p] = V] /\ executions' = [executions EXCEPT ![p] = executions[p]]
    BY <1>1, <1>4, Indices DEF VotingTyped
<1>9. ProposalInv(q, V, snapshots[p], executions[p], now, Approvals(p))
    BY <1>6, <1>7 DEF ProposalInv
<1> HIDE DEF V, o
<1>10. VotingTyped' /\ AllProposals'
    BY <1>1, <1>2, <1>4, <1>5, <1>8, <1>9, OneProposalChanges DEF Proposals
<1>11. ReviewsTyped' /\ ParamsValid'
    BY <1>4 DEF VotingInv, ReviewsTyped, ParamsValid
<1> QED
    BY <1>10, <1>11 DEF VotingInv

(* What the tally lets pass has quorum, majority and no veto by the votes on record *)
LEMMA PassesIsCarried ==
    ASSUME NEW q \in Proposal, NEW V, V \subseteq Ballot, NEW S, Cast(q, V, S), Passes(q)
    PROVE  Carried(V, q.threshold)
<1> DEFINE t == q.tally
           y == t["YES"]
           n == t["NO"]
           b == Ballots(t)
           T == q.threshold
           with(c) == VotePower({x \in V : x.choice = c})
<1>1. /\ y = with("YES") /\ n = with("NO") /\ t["ABSTAIN"] = with("ABSTAIN")
      /\ t["VETO"] = with("VETO")
    BY DEF Cast, VoteChoices
<1>2. IsFiniteSet(V)
    BY DEF Cast
<1>3. /\ with("YES") \in Nat /\ with("NO") \in Nat /\ with("ABSTAIN") \in Nat /\ with("VETO") \in Nat
      /\ VotePower(V) = with("YES") + with("NO") + with("ABSTAIN") + with("VETO")
      /\ VotePower({x \in V : x.choice = "YES"} \cup {x \in V : x.choice = "NO"})
            = with("YES") + with("NO")
    BY <1>2, ChoicesAddUp
<1>4. b = VotePower(V)
    BY <1>1, <1>3 DEF Ballots
<1>5. b >= Quorum /\ ~(t["VETO"] * 10000 > b * VetoBps) /\ y + n # 0
      /\ (y * 100) \div (y + n) >= T
    BY DEF Passes, Vetoed
<1>6. T \in Nat
    BY DEF Proposal
<1>7. VetoBps \in Nat
    BY ONLY VotingAssumption DEF VotingAssumption
<1> HIDE DEF y, n, b, T, with
<1>8. y \in Nat /\ n \in Nat /\ b \in Nat
    BY <1>1, <1>3, <1>4
<1>9. y * 100 >= T * (y + n)
    <2> DEFINE d == (y * 100) \div (y + n)
    <2>1. y * 100 \in Nat /\ y + n \in Nat \ {0}
        BY <1>5, <1>8
    <2>2. d \in Nat /\ (y * 100) % (y + n) \in Nat /\ y * 100 = (y + n) * d + ((y * 100) % (y + n))
        <3>1. (y * 100) % (y + n) \in 0 .. (y + n) - 1
            BY <2>1, Division
        <3>2. d \in Nat /\ y * 100 = (y + n) * d + ((y * 100) % (y + n))
            BY <2>1, Division
        <3> QED
            BY <2>1, <3>1, <3>2
    <2>3. T <= d
        BY <1>5
    <2> HIDE DEF d
    <2>4. T * (y + n) <= d * (y + n) /\ d * (y + n) = (y + n) * d /\ T * (y + n) \in Nat
          /\ (y + n) * d \in Nat
        <3>1. T * (y + n) \in Nat /\ d * (y + n) \in Nat /\ T * (y + n) <= d * (y + n)
            BY <1>6, <2>1, <2>2, <2>3, ProductKeepsOrder
        <3>2. d * (y + n) = (y + n) * d
            BY <2>1, <2>2
        <3> QED
            BY <3>1, <3>2
    <2> QED
        BY <2>1, <2>2, <2>4
<1>10. t["VETO"] \in Nat /\ t["VETO"] * 10000 <= VetoBps * b
    <2>1. t["VETO"] \in Nat
        BY <1>1, <1>3
    <2>2. b * VetoBps = VetoBps * b /\ b * VetoBps \in Nat /\ t["VETO"] * 10000 \in Nat
        BY <1>7, <1>8, <2>1
    <2> QED
        BY <1>5, <2>1, <2>2
<1>11. y + n = VotePower({x \in V : x.choice = "YES"} \cup {x \in V : x.choice = "NO"})
    BY <1>1, <1>3
<1>12. VotePower(V) >= Quorum
    BY <1>4, <1>5
<1>13. VotePower({x \in V : x.choice = "YES"}) * 100
          >= T * VotePower({x \in V : x.choice = "YES"} \cup {x \in V : x.choice = "NO"})
    BY <1>1, <1>9, <1>11 DEF with
<1>14. VotePower({x \in V : x.choice = "VETO"}) * 10000 <= VetoBps * VotePower(V)
    BY <1>1, <1>4, <1>10 DEF with
<1> QED
    BY <1>12, <1>13, <1>14 DEF Carried, T

(* TallyVotes: after the window, by the votes on record, and with the delay to come *)
LEMMA TallyVotesKeeps ==
    ASSUME VotingInv, NEW p, TallyVotes(p)
    PROVE  VotingInv'
<1> DEFINE o == proposals[p]
           V == votes[p]
           e == now + ExecutionDelay
<1>1. VotingTyped /\ AllProposals /\ now \in Nat /\ p \in DOMAIN proposals
    BY DEF VotingInv, VotingTyped, TallyVotes, Proposals
<1>2. o \in Proposal /\ V \in SUBSET Ballot /\ executions[p] \in Nat
    BY <1>1, Indices
<1>3. Cast(o, V, snapshots[p]) /\ Decided(o, V, executions[p], now) /\ Cleared(o, V, Approvals(p))
    BY <1>1 DEF AllProposals, ProposalInv, Proposals
<1>4. UNCHANGED <<now, votes, holders, snapshots, params, executions, reviews>> /\ now > o.end
    BY DEF TallyVotes, bouleVars
<1>5. ExecutionDelay \in Nat /\ o.end \in Nat /\ e \in Nat /\ e > o.end + ExecutionDelay
    <2>1. ExecutionDelay \in Nat
        BY VotingAssumption DEF VotingAssumption
    <2>2. o.end \in Nat
        BY <1>2 DEF Proposal
    <2> QED
        BY <1>1, <1>4, <2>1, <2>2
<1>6. PICK q \in Proposal :
         /\ proposals' = [proposals EXCEPT ![p] = q]
         /\ q.end = o.end /\ q.threshold = o.threshold /\ q.tally = o.tally
         /\ q.boule_approved = o.boule_approved /\ q.marked = o.marked
         /\ \/ Passes(o) /\ q.status = "PASSED" /\ q.execution = e
            \/ q.status = "REJECTED"
    <2>1. CASE Passes(o)
        <3> DEFINE q == [o EXCEPT !.status = "PASSED", !.execution = e]
        <3>1. proposals' = [proposals EXCEPT ![p] = q]
            BY <2>1 DEF TallyVotes
        <3>2. /\ q \in Proposal /\ q.status = "PASSED" /\ q.end = o.end /\ q.execution = e
              /\ q.threshold = o.threshold /\ q.tally = o.tally /\ q.boule_approved = o.boule_approved /\ q.marked = o.marked
            BY <1>2, <1>5 DEF Proposal, Statuses
        <3> QED
            BY <2>1, <3>1, <3>2
    <2>2. CASE ~Passes(o)
        <3> DEFINE q == [o EXCEPT !.status = "REJECTED"]
        <3>1. proposals' = [proposals EXCEPT ![p] = q]
            BY <2>2 DEF TallyVotes
        <3>2. /\ q \in Proposal /\ q.status = "REJECTED" /\ q.end = o.end
              /\ q.threshold = o.threshold /\ q.tally = o.tally /\ q.boule_approved = o.boule_approved /\ q.marked = o.marked
            BY <1>2 DEF Proposal, Statuses
        <3> QED
            BY <3>1, <3>2
    <2> QED
        BY <2>1, <2>2
<1>7. Cast(q, V, snapshots[p]) /\ Cleared(q, V, Approvals(p))
    BY <1>3, <1>6 DEF Cast, Cleared
<1>8. Decided(q, V, executions[p], now)
    <2>1. Passes(o) => Carried(V, o.threshold)
        BY <1>2, <1>3, PassesIsCarried
    <2>2. executions[p] > 0 => now > q.end + ExecutionDelay
        BY <1>3, <1>6 DEF Decided
    <2>3. q.status = "PASSED" => q.execution > q.end + ExecutionDelay
        BY <1>5, <1>6
    <2>4. q.status \in {"PASSED", "EXECUTED"} => now > q.end /\ Carried(V, q.threshold)
        BY <1>4, <1>6, <2>1
    <2> QED
        BY <2>2, <2>3, <2>4 DEF Decided
<1>9. votes' = [votes EXCEPT ![p] = V] /\ executions' = [executions EXCEPT ![p] = executions[p]]
    BY <1>1, <1>4, Indices DEF VotingTyped
<1>10. ProposalInv(q, V, snapshots[p], executions[p], now, Approvals(p))
    BY <1>7, <1>8 DEF ProposalInv
<1>11. V \in SUBSET Ballot /\ p \in Proposals /\ UNCHANGED <<now, holders, snapshots, reviews>>
    BY <1>1, <1>2, <1>4 DEF Proposals
<1>12. executions[p] \in Nat /\ proposals' = [proposals EXCEPT ![p] = q] /\ q \in Proposal
    BY <1>2, <1>6
<1> HIDE DEF V, o, e
<1>13. VotingTyped' /\ AllProposals'
    BY <1>1, <1>9, <1>10, <1>11, <1>12, OneProposalChanges
<1>14. ReviewsTyped' /\ ParamsValid'
    BY <1>4 DEF VotingInv, ReviewsTyped, ParamsValid
<1> QED
    BY <1>13, <1>14 DEF VotingInv

(* A parameter is changed within its limits or not at all *)
LEMMA ParamsStayValid ==
    ASSUME ParamsValid, NEW key, NEW value, params' = params \/ params' = UpdateParam(params, key, value)
    PROVE  ParamsValid'
<1>1. CASE params' = params
    BY <1>1 DEF ParamsValid
<1>2. CASE ValidateUint(key, value) /\ params' = UpdateParam(params, key, value)
    <2>1. params' = [params EXCEPT ![key] = value]
        BY <1>2 DEF UpdateParam
    <2>2. DOMAIN params' = DOMAIN params
        BY <2>1
    <2>3. \A k \in DOMAIN params : params'[k] = IF k = key THEN value ELSE params[k]
        BY <2>1
    <2>4. \A k \in DOMAIN params : ValidateUint(k, params'[k])
        BY <1>2, <2>3 DEF ParamsValid
    <2> QED
        BY <2>2, <2>4 DEF ParamsValid
<1>3. CASE ~ValidateUint(key, value) /\ params' = UpdateParam(params, key, value)
    BY <1>3 DEF UpdateParam, ParamsValid
<1> QED
    BY <1>1, <1>2, <1>3

(* ExecuteProposal: after the delay, and the treasury pays within its budget *)
LEMMA ExecuteProposalKeeps ==
    ASSUME VotingInv, FundsInv, NEW p, ExecuteProposal(p)
    PROVE  VotingInv' /\ FundsInv'
<1> DEFINE o == proposals[p]
           V == votes[p]
           q == [o EXCEPT !.status = "EXECUTED"]
           n == executions[p] + 1
           c == o.content
<1>1. VotingTyped /\ AllProposals /\ now \in Nat /\ p \in DOMAIN proposals
    BY DEF VotingInv, VotingTyped, ExecuteProposal, Proposals
<1>2. o \in Proposal /\ V \in SUBSET Ballot /\ executions[p] \in Nat
    BY <1>1, Indices
<1>3. Cast(o, V, snapshots[p]) /\ Decided(o, V, executions[p], now) /\ Cleared(o, V, Approvals(p))
    BY <1>1 DEF AllProposals, ProposalInv, Proposals
<1>4. /\ UNCHANGED <<now, votes, holders, snapshots, reviews, fundHeight, schedules, fees>>
      /\ o.status = "PASSED" /\ now >= o.execution
      /\ proposals' = [proposals EXCEPT ![p] = q] /\ executions' = [executions EXCEPT ![p] = n]
    BY DEF ExecuteProposal, Matured, bouleVars
<1>5. /\ q \in Proposal /\ q.status = "EXECUTED" /\ q.end = o.end /\ q.threshold = o.threshold
      /\ q.tally = o.tally /\ q.boule_approved = o.boule_approved /\ q.marked = o.marked
    BY <1>2 DEF Proposal, Statuses
<1>6. n \in Nat
    BY <1>2
<1>7. o.end \in Nat /\ o.execution \in Nat /\ ExecutionDelay \in Nat
    BY <1>2, VotingAssumption DEF Proposal, VotingAssumption
<1> HIDE DEF q
<1>8. Cast(q, V, snapshots[p]) /\ Cleared(q, V, Approvals(p))
    BY <1>3, <1>5 DEF Cast, Cleared
<1>9. Decided(q, V, n, now)
    <2>1. now > o.end /\ Carried(V, o.threshold) /\ o.execution > o.end + ExecutionDelay
        BY <1>3, <1>4 DEF Decided
    <2>2. now > o.end + ExecutionDelay
        BY <1>1, <1>4, <1>7, <2>1
    <2>3. q.status # "PASSED"
        BY <1>5
    <2> QED
        BY <1>5, <2>1, <2>2, <2>3 DEF Decided
<1>10. votes' = [votes EXCEPT ![p] = V]
    BY <1>1, <1>4, Indices DEF VotingTyped
<1>11. ProposalInv(q, V, snapshots[p], n, now, Approvals(p))
    BY <1>8, <1>9 DEF ProposalInv
<1>12. ReviewsTyped'
    BY <1>4 DEF VotingInv, ReviewsTyped
<1>13. ParamsValid'
    <2>1. params' = params \/ params' = UpdateParam(params, c.key, c.value)
        BY DEF ExecuteProposal
    <2> QED
        BY <2>1, ParamsStayValid DEF VotingInv
<1>14. FundsInv'
    <2> DEFINE spends == /\ c.type = "TREASURY_SPENDING"
                         /\ CanSpend(treasury, "UNCATEGORIZED", c.amount, p, now)
    <2>1. /\ treasury' = IF spends THEN SpendFrom(treasury, "UNCATEGORIZED", c.amount, now) ELSE treasury
          /\ outside' = IF spends THEN [outside EXCEPT !.paid = @ + c.amount] ELSE outside
        BY DEF ExecuteProposal
    <2>2. CASE spends
        <3>1. c \in Content
            BY <1>2 DEF Proposal
        <3>2. c.amount \in Nat /\ "UNCATEGORIZED" \in Tracks
            BY <2>2, <3>1, VotingAssumption DEF VotingAssumption, Tracks
        <3>3. /\ c.amount <= treasury.bal["UNCATEGORIZED"]
              /\ IsWithinBudget(treasury, "UNCATEGORIZED", c.amount, now)
            BY <2>2 DEF CanSpend
        <3>4. /\ treasury' = SpendFrom(treasury, "UNCATEGORIZED", c.amount, now)
              /\ outside' = [outside EXCEPT !.paid = @ + c.amount]
            BY <2>1, <2>2
        <3> HIDE DEF c
        <3> QED
            BY <1>1, <1>4, <3>2, <3>3, <3>4, PaidWithinBudget
    <2>3. CASE ~spends
        <3>1. treasury' = treasury /\ outside' = outside
            BY <2>1, <2>3
        <3>2. FundsKept'
            <4>1. treasury' \in TreasuryRecord
                BY <3>1 DEF FundsInv, FundsKept, FundsTyped
            <4> QED
                BY <1>4, <3>1, <4>1, RecordsKeep DEF FundsInv
        <3> QED
            BY <1>4, <3>1, <3>2, SameDues
    <2> QED
        BY <2>2, <2>3
<1> HIDE DEF V, o, n
<1>15. VotingTyped' /\ AllProposals'
    BY <1>1, <1>2, <1>4, <1>5, <1>6, <1>10, <1>11, OneProposalChanges DEF Proposals
<1> QED
    BY <1>12, <1>13, <1>14, <1>15 DEF VotingInv

(* UpdateBalance: votes are of the snapshots *)
LEMMA UpdateBalanceKeeps ==
    ASSUME VotingInv, NEW v \in Voter, UpdateBalance(v)
    PROVE  VotingInv'
<1>1. UNCHANGED <<now, proposals, votes, snapshots, params, executions, reviews>>
    BY DEF UpdateBalance, bouleVars
<1>2. holders' \subseteq Voter
    BY DEF UpdateBalance, VotingInv, VotingTyped
<1>3. VotingTyped'
    BY <1>1, <1>2 DEF VotingInv, VotingTyped
<1>4. AllProposals'
    BY <1>1 DEF VotingInv, AllProposals, Proposals, Approvals
<1> QED
    BY <1>1, <1>3, <1>4 DEF VotingInv, ReviewsTyped, ParamsValid

(* UpdateBlockHeight: what is decided stays decided later *)
LEMMA UpdateBlockHeightKeeps ==
    ASSUME VotingInv, UpdateBlockHeight
    PROVE  VotingInv'
<1>1. /\ now' = now + 1 /\ now \in Nat
      /\ UNCHANGED <<proposals, votes, holders, snapshots, params, executions, reviews>>
    BY DEF UpdateBlockHeight, VotingInv, VotingTyped, bouleVars
<1>2. VotingTyped /\ ExecutionDelay \in Nat
    BY VotingAssumption DEF VotingInv, VotingAssumption
<1>3. ASSUME NEW p \in Proposals
      PROVE  ProposalInv(proposals[p], votes[p], snapshots[p], executions[p], now + 1, Approvals(p))
    <2> DEFINE q == proposals[p]
    <2>1. ProposalInv(q, votes[p], snapshots[p], executions[p], now, Approvals(p))
        BY DEF VotingInv, AllProposals
    <2>2. q \in Proposal
        BY <1>2, Indices DEF Proposals
    <2>3. q.end \in Nat
        BY <2>2 DEF Proposal
    <2> HIDE DEF q
    <2>4. now > q.end => now + 1 > q.end
        BY <1>1, <2>3
    <2>5. now > q.end + ExecutionDelay => now + 1 > q.end + ExecutionDelay
        BY <1>1, <1>2, <2>3
    <2>6. Decided(q, votes[p], executions[p], now + 1)
        BY <2>1, <2>4, <2>5 DEF ProposalInv, Decided
    <2>7. ProposalInv(q, votes[p], snapshots[p], executions[p], now + 1, Approvals(p))
        BY <2>1, <2>6 DEF ProposalInv
    <2> QED
        BY <2>7 DEF q
<1>4. AllProposals'
    BY <1>1, <1>3 DEF AllProposals, Proposals, Approvals
<1>5. VotingTyped'
    BY <1>1, <1>2 DEF VotingTyped
<1> QED
    BY <1>1, <1>4, <1>5 DEF VotingInv, ReviewsTyped, ParamsValid

(* Whatever the council does, approvals that were given stay *)
LEMMA BouleStepKeeps ==
    ASSUME VotingInv, BouleStep, UNCHANGED votingVars
    PROVE  VotingInv'
<1>1. UNCHANGED <<now, proposals, votes, holders, snapshots, params, executions>>
    BY DEF votingVars
<1>2. VotingTyped /\ ReviewsTyped /\ AllProposals
    BY DEF VotingInv
<1>3. /\ ReviewsTyped' /\ \A p \in Screened : reviews[p] \subseteq reviews'[p]
    <2>1. ASSUME NEW k \in Screened, NEW c \in Citizen, NEW b \in BOOLEAN, ReviewProposal(k, c, b)
          PROVE  /\ ReviewsTyped' /\ \A p \in Screened : reviews[p] \subseteq reviews'[p]
        <3>1. reviews' = [reviews EXCEPT ![k] = reviews[k] \cup {<<c, b>>}]
            BY <2>1 DEF ReviewProposal
        <3>2. reviews[k] \cup {<<c, b>>} \in SUBSET (Citizen \X BOOLEAN)
            BY <1>2 DEF ReviewsTyped
        <3> QED
            BY <1>2, <3>1, <3>2 DEF ReviewsTyped
    <2>2. ASSUME UNCHANGED reviews
          PROVE  /\ ReviewsTyped' /\ \A p \in Screened : reviews[p] \subseteq reviews'[p]
        BY <1>2, <2>2 DEF ReviewsTyped
    <2> QED
        BY <2>1, <2>2 DEF BouleStep, RegisterCitizen, SetCitizenEligibility, ConductSortition,
                          RaiseGrapheParanomon, VoteOnGrapheParanomon
<1>4. ASSUME NEW p \in DOMAIN proposals
      PROVE  ProposalInv(proposals[p], votes[p], snapshots[p], executions[p], now, Approvals(p)')
    <2> DEFINE A == Approvals(p)
               B == Approvals(p)'
    <2>1. p \in Screened
        BY <1>2, Indices
    <2>2. IsFiniteSet(A) /\ Cardinality(A) \in Nat
        BY <1>2, <2>1, ApprovalsFinite
    <2>3. IsFiniteSet(B) /\ Cardinality(B) \in Nat
        <3>1. reviews'[p] \subseteq Citizen \X BOOLEAN
            BY <1>3, <2>1 DEF ReviewsTyped
        <3> QED
            BY <3>1, FiniteReviews DEF Approvals
    <2>4. A \subseteq B
        BY <1>3, <2>1 DEF Approvals
    <2>5. Cardinality(A) <= Cardinality(B)
        BY <2>3, <2>4, FS_Subset
    <2>6. ProposalInv(proposals[p], votes[p], snapshots[p], executions[p], now, A)
        BY <1>2 DEF AllProposals, Proposals
    <2>7. CouncilSize \in Nat
        BY BouleAssumption DEF BouleAssumption
    <2> HIDE DEF A, B
    <2>8. 3 * Cardinality(A) >= 2 * CouncilSize => 3 * Cardinality(B) >= 2 * CouncilSize
        BY <2>2, <2>3, <2>5, <2>7
    <2>9. ProposalInv(proposals[p], votes[p], snapshots[p], executions[p], now, B)
        BY <2>6, <2>8 DEF ProposalInv, Cleared
    <2> QED
        BY <2>9 DEF B
<1>5. AllProposals'
    BY <1>1, <1>4 DEF AllProposals, Proposals
<1>6. VotingTyped'
    BY <1>1, <1>2 DEF VotingTyped
<1> QED
    BY <1>1, <1>3, <1>5, <1>6 DEF VotingInv, ParamsValid

-----------------------------------------------------------------------------
(* Nothing has come in at the start *)
LEMMA InitFundsInv == InitFunds => FundsInv
<1> SUFFICES ASSUME InitFunds PROVE FundsInv
    OBVIOUS
<1>1. /\ fundHeight = 1 /\ treasury = EmptyTreasury /\ schedules = <<>>
      /\ fees = [routed |-> 0, producer |-> 0, treasury |-> 0, burned |-> 0]
      /\ outside = [deposited |-> 0, paid |-> 0, refunded |-> 0]
    BY DEF InitFunds
<1>2. treasury \in TreasuryRecord
    BY <1>1 DEF EmptyTreasury, TreasuryRecord
<1>3. FundsTyped
    BY <1>1, <1>2 DEF FundsTyped
<1>4. /\ \A t \in Tracks : treasury.bal[t] = 0 /\ treasury.log[t] = 0
      /\ DOMAIN treasury.bal = Tracks /\ treasury.grants = <<>> /\ treasury.periods = <<>>
    BY <1>1 DEF EmptyTreasury
<1>5. Sum(treasury.bal) = 0
    BY <1>4, SumOfNothing
<1>6. Reserved = 0
    <2> DEFINE f == [i \in DOMAIN treasury.grants |-> Reservation(treasury.grants[i])]
    <2>1. \A x \in DOMAIN f : f[x] = 0
        BY <1>4
    <2>2. Sum(f) = 0
        BY <2>1, SumOfNothing
    <2> QED
        BY <2>2 DEF Reserved
<1>7. FundsConserved
    BY <1>1, <1>4, <1>5, <1>6 DEF FundsConserved, MoneyKept, LogExplains, FeesShared
<1>8. BudgetsKept /\ ClaimsBehind
    BY <1>1, <1>4 DEF BudgetsKept, ClaimsBehind
<1>9. FundsBounded
    BY <1>1, TreasuryAssumption DEF FundsBounded, TreasuryAssumption
<1> QED
    BY <1>3, <1>7, <1>8, <1>9 DEF FundsInv, FundsKept

(* Proposals and the treasury keep to their rules, with the council and every caller *)
(* interleaved: the inductive invariant of public governance.                         *)
THEOREM PublicInductive == PublicSpec => [](VotingInv /\ FundsInv)
<1>1. InitVoting /\ InitBoule /\ InitFunds => VotingInv /\ FundsInv
    BY InitVotingInv, InitFundsInv
<1>2. VotingInv /\ FundsInv /\ [PublicNext]_publicVars => VotingInv' /\ FundsInv'
    <2> SUFFICES ASSUME VotingInv, FundsInv, [PublicNext]_publicVars PROVE VotingInv' /\ FundsInv'
        OBVIOUS
    <2>1. ASSUME UNCHANGED fundVars PROVE FundsInv'
        BY <2>1 DEF fundVars, FundsInv, FundsKept, FundsTyped, FundsBounded, FundsConserved,
                    WholeGrants, MoneyKept, LogExplains, FeesShared, Reserved, BudgetsKept, ClaimsBehind
    <2>2. ASSUME UNCHANGED <<votingVars, bouleVars>> PROVE VotingInv'
        BY <2>2 DEF votingVars, bouleVars, VotingInv, VotingTyped, ReviewsTyped, ParamsValid,
                    AllProposals, Proposals, Approvals
    <2>3. CASE VotingStep
        <3>1. ASSUME NEW p, ExecuteProposal(p) PROVE VotingInv' /\ FundsInv'
            BY <3>1, ExecuteProposalKeeps
        <3>2. ASSUME NEW p, NEW v \in Voter, NEW choice \in VoteChoices, NEW claimed \in Powers,
                     CastVote(p, v, choice, claimed)
              PROVE  VotingInv' /\ FundsInv'
            <4>1. claimed \in Nat
                BY VotingAssumption DEF VotingAssumption
            <4> QED
                BY <2>1, <3>2, <4>1, CastVoteKeeps DEF CastVote
        <3>3. ASSUME NEW p, NoteApproval(p) \/ MarkBouleApproved(p) \/ ReturnDeposit(p)
              PROVE  VotingInv' /\ FundsInv'
            BY <2>1, <3>3, NotesKeep DEF NoteApproval, MarkBouleApproved, ReturnDeposit
        <3>4. ASSUME NEW p, TallyVotes(p) PROVE VotingInv' /\ FundsInv'
            BY <2>1, <3>4, TallyVotesKeeps DEF TallyVotes
        <3>5. ASSUME NEW c \in Content, CreateProposal(c) PROVE VotingInv' /\ FundsInv'
            BY <2>1, <3>5, CreateProposalKeeps DEF CreateProposal
        <3>6. ASSUME NEW v \in Voter, UpdateBalance(v) PROVE VotingInv' /\ FundsInv'
            BY <2>1, <3>6, UpdateBalanceKeeps DEF UpdateBalance
        <3>7. ASSUME UpdateBlockHeight PROVE VotingInv' /\ FundsInv'
            BY <2>1, <3>7, UpdateBlockHeightKeeps DEF UpdateBlockHeight
        <3> QED
            BY <2>3, <3>1, <3>2, <3>3, <3>4, <3>5, <3>6, <3>7 DEF VotingStep
    <2>4. CASE BouleStep /\ UNCHANGED <<votingVars, fundVars>>
        <3>1. UNCHANGED votingVars /\ UNCHANGED fundVars
            BY <2>4
        <3> QED
            BY <2>1, <2>4, <3>1, BouleStepKeeps
    <2>5. CASE TreasuryStep /\ UNCHANGED <<votingVars, bouleVars>>
        BY <2>2, <2>5, TreasuryStepKeeps
    <2>6. CASE UNCHANGED publicVars
        <3>1. UNCHANGED fundVars /\ UNCHANGED <<votingVars, bouleVars>>
            BY <2>6 DEF publicVars
        <3> QED
            BY <2>1, <2>2, <3>1
    <2> QED
        BY <2>3, <2>4, <2>5, <2>6 DEF PublicNext
<1> QED
    BY <1>1, <1>2, PTL DEF PublicSpec

(* Every satoshi that came in is in a track, reserved for a milestone or was paid out *)
(* once, and the audit log explains every balance (Treasury, FeeRouter::Route).        *)
THEOREM PublicFundsConserved == PublicSpec => []FundsConserved
<1>1. VotingInv /\ FundsInv => FundsConserved
    BY DEF FundsInv, FundsKept
<1> QED
    BY <1>1, PublicInductive, PTL

(* No track spends more than a period's cap, and no schedule is claimed ahead of its  *)
(* curve, whatever the order of claims, revocations and blocks (Treasury::Spend,       *)
(* VestingRegistry::Claim).                                                            *)
THEOREM PublicPaymentsAreDue == PublicSpec => []PaymentsAreDue
<1>1. VotingInv /\ FundsInv => PaymentsAreDue
    <2> SUFFICES ASSUME FundsInv PROVE PaymentsAreDue
        OBVIOUS
    <2>1. schedules \in Seq(Schedule) /\ fundHeight \in Nat
        BY DEF FundsInv, FundsKept, FundsTyped
    <2>2. ASSUME NEW i \in DOMAIN schedules
          PROVE  LET s == schedules[i] IN
                 /\ s.claimed <= ComputeVested(s, fundHeight)
                 /\ s.claimed + GetReclaimable(s, fundHeight) <= s.total
        <3> DEFINE s == schedules[i]
                   v == ComputeVested(s, fundHeight)
        <3>1. s \in Schedule /\ s.claimed <= v /\ fundHeight <= fundHeight
            BY <2>1 DEF FundsInv, ClaimsBehind
        <3>2. v \in Nat /\ v <= s.total
            BY <2>1, <3>1, VestedGrows
        <3>3. s.claimed \in Nat /\ s.total \in Nat
            BY <3>1 DEF Schedule
        <3>4. GetReclaimable(s, fundHeight) = IF s.revoked THEN 0 ELSE s.total - v
            BY DEF GetReclaimable
        <3> HIDE DEF s, v
        <3>5. s.claimed <= v /\ s.claimed + GetReclaimable(s, fundHeight) <= s.total
            BY <3>1, <3>2, <3>3, <3>4
        <3> QED
            BY <3>5 DEF s, v
    <2>3. SchedulesPayOnce
        BY <2>2 DEF SchedulesPayOnce
    <2> QED
        BY <2>3 DEF PaymentsAreDue, FundsInv
<1> QED
    BY <1>1, PublicInductive, PTL

(* Every tally is the power of the votes on record, one for each voter, and with a    *)
(* snapshot one each of those who held a token then (VotingSystem::CastVote).          *)
THEOREM PublicVotesCountedOnce == PublicSpec => []VotesCountedOnce
<1>1. VotingInv /\ FundsInv => VotesCountedOnce
    <2> SUFFICES ASSUME VotingInv, NEW p \in Proposals
                 PROVE  /\ \A v \in Voter : Cardinality({x \in votes[p] : x.voter = v}) <= 1
                        /\ \A c \in VoteChoices : proposals[p].tally[c] = VotePower(For(p, c))
                        /\ HasSnapshot(p) => \A x \in votes[p] : x.voter \in snapshots[p] /\ x.power = 1
        BY DEF VotesCountedOnce
    <2>1. Cast(proposals[p], votes[p], snapshots[p])
        BY DEF VotingInv, AllProposals, ProposalInv
    <2>2. ASSUME NEW v \in Voter PROVE Cardinality({x \in votes[p] : x.voter = v}) <= 1
        <3> DEFINE S == {x \in votes[p] : x.voter = v}
        <3>1. CASE S = {}
            <4>1. Cardinality(S) = 0
                BY <3>1, FS_EmptySet
            <4> QED
                BY <4>1
        <3>2. CASE S # {}
            <4>1. PICK x \in S : S = {x}
                BY <2>1, <3>2 DEF Cast
            <4>2. Cardinality(S) = 1
                BY <4>1, FS_Singleton
            <4> QED
                BY <4>2
        <3> QED
            BY <3>1, <3>2
    <2> QED
        BY <2>1, <2>2 DEF Cast, For, HasSnapshot
<1> QED
    BY <1>1, PublicInductive, PTL

(* What passed had quorum and majority by the votes on record when its window was     *)
(* over, executions wait for the delay however often a proposal is tallied, and        *)
(* parameters stay within their limits (TallyVotes, ExecuteProposal, ValidateUint).    *)
THEOREM PublicEffectIsDecided == PublicSpec => []EffectIsDecided
<1>1. VotingInv /\ FundsInv => EffectIsDecided
    <2> SUFFICES ASSUME VotingInv PROVE EffectIsDecided
        OBVIOUS
    <2>1. \A p \in Proposals : Decided(proposals[p], votes[p], executions[p], now)
        BY DEF VotingInv, AllProposals, ProposalInv
    <2>2. PassedByItsVotes
        BY <2>1 DEF PassedByItsVotes, Decided, Carried, For
    <2>3. ExecutionWaits
        BY <2>1 DEF ExecutionWaits, Decided, VotingInv, ParamsValid
    <2> QED
        BY <2>2, <2>3 DEF EffectIsDecided
<1> QED
    BY <1>1, PublicInductive, PTL

(* No vote is cast before two thirds of a council approved or MarkBouleApproved was    *)
(* called, although councils, reviews and challenges come and go                        *)
(* (VotingSystem::CastVote, Boule::IsProposalApproved).                                 *)
THEOREM PublicScreenedBeforeVotes == PublicSpec => []ScreenedBeforeVotes
<1>1. VotingInv /\ FundsInv => ScreenedBeforeVotes
    BY DEF VotingInv, AllProposals, ProposalInv, Cleared, ScreenedBeforeVotes
<1> QED
    BY <1>1, PublicInductive, PTL

-----------------------------------------------------------------------------
(* The emergency council and ostracism *)

Action == [type : ActionTypes, signers : SUBSET Member, expires : Nat,
           executed : BOOLEAN, at : Nat]
Record == [state : {"NONE", "NOMINATED", "OSTRACIZED", "REHABILITATED"},
           by : SUBSET Member, for : Nat, against : Nat, banEnd : Nat]

(* Every action has its signers, guardians at the time, and there are finitely many *)
SignersWereGuardians ==
    /\ actions \in Seq(Action) /\ everKeeper \in Seq(SUBSET Member)
    /\ DOMAIN actions = DOMAIN everKeeper
    /\ \A a \in DOMAIN actions :
          actions[a].signers \subseteq everKeeper[a] /\ IsFiniteSet(everKeeper[a])

VotersAreListed ==
    /\ records \in [Member -> Record]
    /\ \A m \in Member : IsFiniteSet(records[m].by)

EmergencyInv ==
    /\ block \in Nat /\ keepers \subseteq Member /\ paused \in BOOLEAN
    /\ SignersWereGuardians /\ PausedByQuorum
    /\ VotersAreListed /\ BannedByVoters

-----------------------------------------------------------------------------
(* Nobody has signed and nobody is on record in a new council *)
LEMMA InitEmergencyInv == InitEmergency => EmergencyInv
<1> SUFFICES ASSUME InitEmergency PROVE EmergencyInv
    OBVIOUS
<1>1. SignersWereGuardians /\ PausedByQuorum
    BY DEF InitEmergency, SignersWereGuardians, PausedByQuorum
<1>2. VotersAreListed /\ BannedByVoters
    <2>1. /\ NoRecord \in Record /\ NoRecord.by = {} /\ NoRecord.state = "NONE"
          /\ NoRecord.for + NoRecord.against = 0
        BY DEF NoRecord, Record
    <2>2. IsFiniteSet({}) /\ Cardinality({}) = 0
        BY FS_EmptySet
    <2>3. records \in [Member -> Record] /\ \A m \in Member : records[m] = NoRecord
        BY <2>1 DEF InitEmergency
    <2> QED
        BY <2>1, <2>2, <2>3 DEF VotersAreListed, BannedByVoters
<1> QED
    BY <1>1, <1>2 DEF InitEmergency, EmergencyInv

(* A vote adds one to one of the counters and one to the list *)
LEMMA VoteCounts ==
    ASSUME EmergencyInv, NEW m \in Member, NEW n \in Member, NEW b \in BOOLEAN, Vote(m, n, b)
    PROVE  VotersAreListed' /\ BannedByVoters'
<1> DEFINE r == records[m]
<1>1. r \in Record /\ IsFiniteSet(r.by) /\ n \notin r.by
    BY DEF EmergencyInv, VotersAreListed, Vote
<1>2. /\ IsFiniteSet(r.by \cup {n}) /\ Cardinality(r.by \cup {n}) = Cardinality(r.by) + 1
      /\ Cardinality(r.by) \in Nat
    BY <1>1, FS_AddElement, FS_CardinalityType
<1>3. /\ records'[m].by = r.by \cup {n} /\ records'[m].state = "NOMINATED"
      /\ records'[m].for + records'[m].against = r.for + r.against + 1
      /\ records'[m] \in Record
    <2>1. r \in Record /\ r.for \in Nat /\ r.against \in Nat /\ r.by \subseteq Member
          /\ r.state = "NOMINATED" /\ r.by \cup {n} \in SUBSET Member
          /\ r.for + 0 \in Nat /\ r.against + 0 \in Nat
          /\ r.for + 1 \in Nat /\ r.against + 1 \in Nat
        BY <1>1 DEF Record, Vote
    <2>2. CASE b
        <3>1. records'[m] = [r EXCEPT !.by = r.by \cup {n}, !.for = r.for + 1,
                                      !.against = r.against + 0]
            BY <2>2 DEF EmergencyInv, VotersAreListed, Vote
        <3>2. /\ records'[m].by = r.by \cup {n} /\ records'[m].state = r.state
              /\ records'[m].for = r.for + 1 /\ records'[m].against = r.against + 0
            BY <1>1, <3>1 DEF Record
        <3>3. records'[m] \in Record
            BY <2>1, <3>1 DEF Record
        <3> QED
            BY <2>1, <3>2, <3>3
    <2>3. CASE ~b
        <3>1. records'[m] = [r EXCEPT !.by = r.by \cup {n}, !.for = r.for + 0,
                                      !.against = r.against + 1]
            BY <2>3 DEF EmergencyInv, VotersAreListed, Vote
        <3>2. /\ records'[m].by = r.by \cup {n} /\ records'[m].state = r.state
              /\ records'[m].for = r.for + 0 /\ records'[m].against = r.against + 1
            BY <1>1, <3>1 DEF Record
        <3>3. records'[m] \in Record
            BY <2>1, <3>1 DEF Record
        <3> QED
            BY <2>1, <3>2, <3>3
    <2> QED
        BY <2>2, <2>3
<1>4. \A k \in Member \ {m} : records'[k] = records[k]
    BY DEF EmergencyInv, VotersAreListed, Vote
<1>5. DOMAIN records' = Member
    BY DEF EmergencyInv, VotersAreListed, Vote
<1>6. records'[m] \in Record /\ IsFiniteSet(records'[m].by)
    BY <1>2, <1>3
<1>7. /\ records'[m].for + records'[m].against = Cardinality(records'[m].by)
      /\ records'[m].state = "NOMINATED"
    <2>1. r.for + r.against = Cardinality(r.by)
        BY DEF EmergencyInv, BannedByVoters
    <2> QED
        BY <1>2, <1>3, <2>1
<1>8. VotersAreListed'
    <2>1. \A k \in Member : records'[k] \in Record /\ IsFiniteSet(records'[k].by)
        BY <1>4, <1>6 DEF EmergencyInv, VotersAreListed
    <2>2. records' = [k \in Member |-> records'[k]]
        BY <1>5 DEF Vote
    <2> QED
        BY <2>1, <2>2 DEF VotersAreListed
<1>9. BannedByVoters'
    BY <1>4, <1>7 DEF EmergencyInv, BannedByVoters
<1> QED
    BY <1>8, <1>9

(* A signature makes the list of the action longer, never shorter *)
LEMMA SignatureCounts ==
    ASSUME EmergencyInv, NEW a \in DOMAIN actions, NEW m \in Member, SignAction(a, m)
    PROVE  SignersWereGuardians' /\ PausedByQuorum'
<1> USE DEF SignAction, MaySign
<1> DEFINE x == actions[a]
<1>1. /\ actions \in Seq(Action) /\ everKeeper \in Seq(SUBSET Member)
      /\ DOMAIN actions = DOMAIN everKeeper /\ x \in Action /\ m \in keepers
    BY DEF EmergencyInv, SignersWereGuardians
<1>2. actions'[a] = [x EXCEPT !.signers = @ \cup {m}] /\ actions'[a] \in Action
    BY <1>1 DEF Action
<1>3. everKeeper'[a] = everKeeper[a] \cup {m} /\ IsFiniteSet(everKeeper'[a])
    <2>1. everKeeper'[a] = everKeeper[a] \cup {m}
        BY <1>1
    <2>2. IsFiniteSet(everKeeper[a])
        BY DEF EmergencyInv, SignersWereGuardians
    <2> QED
        BY <2>1, <2>2, FS_AddElement
<1>4. \A c \in DOMAIN actions \ {a} : actions'[c] = actions[c] /\ everKeeper'[c] = everKeeper[c]
    BY <1>1
<1>5. /\ actions' \in Seq(Action) /\ everKeeper' \in Seq(SUBSET Member)
      /\ DOMAIN actions' = DOMAIN actions /\ DOMAIN everKeeper' = DOMAIN everKeeper
    BY <1>1, <1>2
<1>6. x.signers \subseteq everKeeper[a] /\ actions'[a].signers = x.signers \cup {m}
    BY <1>1, <1>2 DEF EmergencyInv, SignersWereGuardians, Action
<1>7. SignersWereGuardians'
    BY <1>1, <1>3, <1>4, <1>5, <1>6 DEF EmergencyInv, SignersWereGuardians
<1>8. /\ actions'[a].executed = x.executed /\ actions'[a].type = x.type /\ ~x.executed
    BY <1>1, <1>2 DEF Action
<1>9. PausedByQuorum'
    BY <1>4, <1>5, <1>8 DEF EmergencyInv, PausedByQuorum
<1> QED
    BY <1>7, <1>9

(* What is executed has the signers it needs, all of whom were guardians *)
LEMMA ExecutionHasQuorum ==
    ASSUME EmergencyInv, NEW a \in DOMAIN actions, ExecuteAction(a)
    PROVE  SignersWereGuardians' /\ PausedByQuorum'
<1> USE DEF ExecuteAction
<1> DEFINE x == actions[a]
<1>1. /\ actions \in Seq(Action) /\ everKeeper \in Seq(SUBSET Member) /\ x \in Action
      /\ block \in Nat /\ everKeeper' = everKeeper /\ DOMAIN everKeeper = DOMAIN actions
    BY DEF EmergencyInv, SignersWereGuardians
<1>2. actions'[a] = [x EXCEPT !.executed = TRUE, !.at = block] /\ actions'[a] \in Action
    BY <1>1 DEF Action
<1>3. \A c \in DOMAIN actions \ {a} : actions'[c] = actions[c]
    BY <1>1
<1>4. actions' \in Seq(Action) /\ DOMAIN actions' = DOMAIN actions
    <2>1. DOMAIN actions = 1 .. Len(actions) /\ Len(actions) \in Nat
        BY <1>1
    <2>2. \A c \in DOMAIN actions : actions'[c] \in Action
        BY <1>1, <1>2, <1>3
    <2>3. actions' = [c \in DOMAIN actions |-> actions'[c]]
        BY ONLY ExecuteAction(a) DEF ExecuteAction
    <2>4. actions' \in [1 .. Len(actions) -> Action]
        BY <2>1, <2>2, <2>3
    <2>5. actions' \in UNION {[1 .. k -> Action] : k \in Nat}
        BY <2>1, <2>4
    <2>6. actions' \in Seq(Action)
        BY <2>5, SeqDef
    <2> QED
        BY <2>3, <2>6
<1>5. /\ actions'[a].signers = x.signers /\ actions'[a].type = x.type
      /\ actions'[a].executed /\ actions'[a].at = block /\ actions'[a].expires = x.expires
    BY <1>1, <1>2 DEF Action
<1>6. SignersWereGuardians'
    BY <1>1, <1>3, <1>4, <1>5 DEF EmergencyInv, SignersWereGuardians
<1>7. Cardinality(everKeeper[a]) >= RequiredSigs
    <2>1. IsFiniteSet(everKeeper[a]) /\ x.signers \in SUBSET everKeeper[a]
        BY DEF EmergencyInv, SignersWereGuardians
    <2>2. Cardinality(x.signers) <= Cardinality(everKeeper[a]) /\ IsFiniteSet(x.signers)
        BY <2>1, FS_Subset
    <2>3. Cardinality(x.signers) \in Nat /\ Cardinality(everKeeper[a]) \in Nat
        BY <2>1, <2>2, FS_CardinalityType
    <2> QED
        BY <2>2, <2>3, EmergencyAssumption DEF HasSufficient
<1>8. block <= x.expires
    BY <1>1 DEF IsExpired, Action
<1>9. ASSUME NEW c \in DOMAIN actions', actions'[c].executed
      PROVE  Cardinality(everKeeper'[c]) >= RequiredSigs /\ actions'[c].at <= actions'[c].expires
    <2>1. CASE c = a
        BY <1>1, <1>5, <1>7, <1>8, <2>1
    <2>2. CASE c # a
        <3>1. c \in DOMAIN actions /\ actions'[c] = actions[c] /\ everKeeper'[c] = everKeeper[c]
            BY <1>1, <1>3, <1>4, <2>2
        <3> QED
            BY <1>9, <3>1 DEF EmergencyInv, PausedByQuorum
    <2> QED
        BY <2>1, <2>2
<1>10. ASSUME paused'
       PROVE  \E c \in DOMAIN actions' : actions'[c].type = "PAUSE_GOVERNANCE" /\ actions'[c].executed
    <2>1. CASE x.type = "PAUSE_GOVERNANCE"
        BY <1>4, <1>5, <2>1
    <2>2. CASE x.type # "PAUSE_GOVERNANCE"
        <3>1. paused' = paused
            BY <1>10, <2>2
        <3>2. PICK c \in DOMAIN actions : actions[c].type = "PAUSE_GOVERNANCE" /\ actions[c].executed
            BY <1>10, <3>1 DEF EmergencyInv, PausedByQuorum
        <3>3. CASE c = a
            BY <2>2, <3>2, <3>3
        <3>4. CASE c # a
            BY <1>3, <1>4, <3>2, <3>4
        <3> QED
            BY <3>3, <3>4
    <2> QED
        BY <2>1, <2>2
<1>11. PausedByQuorum'
    BY <1>9, <1>10 DEF PausedByQuorum
<1> QED
    BY <1>6, <1>11

(* A new action has one signer, who is a guardian *)
LEMMA ProposalIsSigned ==
    ASSUME EmergencyInv, NEW m \in Member, NEW type \in ActionTypes, ProposeAction(type, m)
    PROVE  SignersWereGuardians' /\ PausedByQuorum'
<1> USE DEF ProposeAction
<1> DEFINE x == [type |-> type, signers |-> {m}, expires |-> block + ActionTtl,
                 executed |-> FALSE, at |-> 0]
<1>1. /\ actions \in Seq(Action) /\ everKeeper \in Seq(SUBSET Member)
      /\ DOMAIN actions = DOMAIN everKeeper /\ block \in Nat
    BY DEF EmergencyInv, SignersWereGuardians
<1>2. x \in Action
    BY <1>1, EmergencyAssumption DEF Action
<1>3. Len(actions) = Len(everKeeper)
    BY <1>1
<1>4. /\ actions' \in Seq(Action) /\ everKeeper' \in Seq(SUBSET Member)
      /\ DOMAIN actions' = DOMAIN actions \cup {Len(actions) + 1}
      /\ DOMAIN everKeeper' = DOMAIN actions'
    BY <1>1, <1>2, <1>3
<1>5. /\ \A c \in DOMAIN actions : actions'[c] = actions[c] /\ everKeeper'[c] = everKeeper[c]
      /\ actions'[Len(actions) + 1] = x /\ everKeeper'[Len(actions) + 1] = {m}
    BY <1>1, <1>2, <1>3
<1>6. IsFiniteSet({m})
    BY FS_Singleton
<1>7. SignersWereGuardians'
    BY <1>1, <1>4, <1>5, <1>6 DEF EmergencyInv, SignersWereGuardians
<1>8. PausedByQuorum'
    BY <1>1, <1>4, <1>5 DEF EmergencyInv, PausedByQuorum
<1> QED
    BY <1>7, <1>8

(* The rest of ostracism moves a record and leaves its counters and its list together *)
LEMMA RecordsMove ==
    ASSUME EmergencyInv, NEW m \in Member, block' = block,
           \/ \E n \in Member : Nominate(m, n)
           \/ Finalize(m)
           \/ Rehabilitate(m)
    PROVE  VotersAreListed' /\ BannedByVoters'
<1> DEFINE r == records[m]
<1>1. r \in Record /\ IsFiniteSet(r.by) /\ block \in Nat /\ records \in [Member -> Record]
    BY DEF EmergencyInv, VotersAreListed
<1>2. /\ DOMAIN records' = Member
      /\ \A k \in Member \ {m} : records'[k] = records[k]
    BY <1>1 DEF Nominate, Finalize, Rehabilitate
<1>3. /\ records'[m] \in Record /\ IsFiniteSet(records'[m].by)
      /\ records'[m].for + records'[m].against = Cardinality(records'[m].by)
      /\ records'[m].state = "OSTRACIZED" => records'[m].for >= RequiredVotes
    <2>1. CASE \E n \in Member : Nominate(m, n)
        <3>1. records'[m] = [NoRecord EXCEPT !.state = "NOMINATED"]
            BY <1>1, <2>1 DEF Nominate, Nominated
        <3>2. /\ records'[m] \in Record /\ records'[m].by = {}
              /\ records'[m].for = 0 /\ records'[m].against = 0 /\ records'[m].state = "NOMINATED"
            BY <3>1 DEF NoRecord, Record
        <3> QED
            BY <3>2, FS_EmptySet
    <2>2. CASE Finalize(m)
        <3>1. records'[m] = [r EXCEPT !.state = "OSTRACIZED", !.banEnd = block + BanDuration]
            BY <1>1, <2>2 DEF Finalize
        <3>2. records'[m] \in Record
            <4>1. block + BanDuration \in Nat
                BY <1>1, EmergencyAssumption
            <4> QED
                BY <1>1, <3>1, <4>1 DEF Record
        <3>3. /\ records'[m].by = r.by /\ records'[m].for = r.for
              /\ records'[m].against = r.against /\ r.for >= RequiredVotes
            BY <1>1, <2>2, <3>1 DEF Record, Finalize
        <3> QED
            BY <1>1, <3>2, <3>3 DEF EmergencyInv, BannedByVoters
    <2>3. CASE Rehabilitate(m)
        <3>1. records'[m] = [r EXCEPT !.state = "REHABILITATED"]
            BY <1>1, <2>3 DEF Rehabilitate
        <3>2. /\ records'[m] \in Record /\ records'[m].by = r.by /\ records'[m].for = r.for
              /\ records'[m].against = r.against /\ records'[m].state = "REHABILITATED"
            BY <1>1, <3>1 DEF Record
        <3> QED
            BY <1>1, <3>2 DEF EmergencyInv, BannedByVoters
    <2> QED
        BY <2>1, <2>2, <2>3
<1>4. VotersAreListed'
    <2>1. \A k \in Member : records'[k] \in Record /\ IsFiniteSet(records'[k].by)
        BY <1>2, <1>3 DEF EmergencyInv, VotersAreListed
    <2>2. records' = [k \in Member |-> records'[k]]
        BY <1>2 DEF Nominate, Finalize, Rehabilitate
    <2> QED
        BY <2>1, <2>2 DEF VotersAreListed
<1>5. BannedByVoters'
    BY <1>2, <1>3 DEF EmergencyInv, BannedByVoters
<1> QED
    BY <1>4, <1>5

-----------------------------------------------------------------------------
(* Every step keeps the invariant *)
LEMMA StepEmergencyInv == EmergencyInv /\ [EmergencyNext]_emergencyVars => EmergencyInv'
<1> SUFFICES ASSUME EmergencyInv, [EmergencyNext]_emergencyVars PROVE EmergencyInv'
    OBVIOUS
<1>1. /\ block \in Nat /\ keepers \subseteq Member /\ paused \in BOOLEAN
      /\ SignersWereGuardians /\ PausedByQuorum /\ VotersAreListed /\ BannedByVoters
    BY DEF EmergencyInv
<1>2. UNCHANGED <<actions, everKeeper, paused>> => SignersWereGuardians' /\ PausedByQuorum'
    BY <1>1 DEF SignersWereGuardians, PausedByQuorum
<1>3. UNCHANGED records => VotersAreListed' /\ BannedByVoters'
    BY <1>1 DEF VotersAreListed, BannedByVoters
<1>4. CASE NextHeight
    BY <1>1, <1>2, <1>3, <1>4 DEF NextHeight, EmergencyInv
<1>5. ASSUME NEW m \in Member, AddGuardianTo(m) PROVE EmergencyInv'
    BY <1>1, <1>2, <1>3, <1>5 DEF AddGuardianTo, EmergencyInv
<1>6. ASSUME NEW m \in Member, RemoveGuardianFrom(m) PROVE EmergencyInv'
    BY <1>1, <1>2, <1>3, <1>6 DEF RemoveGuardianFrom, EmergencyInv
<1>7. ASSUME NEW m \in Member, NEW type \in ActionTypes, ProposeAction(type, m) PROVE EmergencyInv'
    <2>1. SignersWereGuardians' /\ PausedByQuorum'
        BY <1>7, ProposalIsSigned
    <2>2. UNCHANGED <<block, keepers, paused, records>>
        BY <1>7 DEF ProposeAction
    <2> QED
        BY <1>1, <1>3, <2>1, <2>2 DEF EmergencyInv
<1>8. ASSUME NEW m \in Member, NEW a \in 1 .. MaxActions, SignAction(a, m) PROVE EmergencyInv'
    <2>1. SignersWereGuardians' /\ PausedByQuorum'
        <3>1. a \in DOMAIN actions
            BY <1>8 DEF SignAction
        <3> QED
            BY <1>8, <3>1, SignatureCounts
    <2>2. UNCHANGED <<block, keepers, paused, records>>
        BY <1>8 DEF SignAction
    <2> QED
        BY <1>1, <1>3, <2>1, <2>2 DEF EmergencyInv
<1>9. ASSUME NEW a \in 1 .. MaxActions, ExecuteAction(a) PROVE EmergencyInv'
    <2>1. SignersWereGuardians' /\ PausedByQuorum'
        <3>1. a \in DOMAIN actions
            BY <1>9 DEF ExecuteAction
        <3> QED
            BY <1>9, <3>1, ExecutionHasQuorum
    <2>2. UNCHANGED <<block, keepers, records>> /\ paused' \in BOOLEAN
        BY <1>1, <1>9 DEF ExecuteAction
    <2> QED
        BY <1>1, <1>3, <2>1, <2>2 DEF EmergencyInv
<1>10. ASSUME NEW m \in Member, NEW n \in Member, Nominate(m, n) PROVE EmergencyInv'
    <2>1. UNCHANGED <<block, keepers, actions, paused, everKeeper>>
        BY <1>10 DEF Nominate
    <2>2. VotersAreListed' /\ BannedByVoters'
        BY <1>10, <2>1, RecordsMove
    <2> QED
        BY <1>1, <1>2, <2>1, <2>2 DEF EmergencyInv
<1>11. ASSUME NEW m \in Member, NEW n \in Member, NEW b \in BOOLEAN, Vote(m, n, b) PROVE EmergencyInv'
    <2>1. UNCHANGED <<block, keepers, actions, paused, everKeeper>>
        BY <1>11 DEF Vote
    <2>2. VotersAreListed' /\ BannedByVoters'
        BY <1>11, VoteCounts
    <2> QED
        BY <1>1, <1>2, <2>1, <2>2 DEF EmergencyInv
<1>12. ASSUME NEW m \in Member, Finalize(m) PROVE EmergencyInv'
    <2>1. UNCHANGED <<block, keepers, actions, paused, everKeeper>>
        BY <1>12 DEF Finalize
    <2>2. VotersAreListed' /\ BannedByVoters'
        BY <1>12, <2>1, RecordsMove
    <2> QED
        BY <1>1, <1>2, <2>1, <2>2 DEF EmergencyInv
<1>13. ASSUME NEW m \in Member, Rehabilitate(m) PROVE EmergencyInv'
    <2>1. UNCHANGED <<block, keepers, actions, paused, everKeeper>>
        BY <1>13 DEF Rehabilitate
    <2>2. VotersAreListed' /\ BannedByVoters'
        BY <1>13, <2>1, RecordsMove
    <2> QED
        BY <1>1, <1>2, <2>1, <2>2 DEF EmergencyInv
<1>14. CASE UNCHANGED emergencyVars
    BY <1>1, <1>2, <1>3, <1>14 DEF emergencyVars, EmergencyInv
<1> QED
    BY <1>4, <1>5, <1>6, <1>7, <1>8, <1>9, <1>10, <1>11, <1>12, <1>13, <1>14
    DEF EmergencyNext, ActionStep, OstracismStep

(* The council (governance/emergency.cpp, ostracism.cpp) keeps finite lists of who   *)
(* signed and who voted, all of them entitled, and its counters agree with the lists, *)
(* in every reachable state.                                                          *)
THEOREM EmergencyInductive == EmergencySpec => []EmergencyInv
<1>1. InitEmergency => EmergencyInv
    BY InitEmergencyInv
<1>2. EmergencyInv /\ [EmergencyNext]_emergencyVars => EmergencyInv'
    BY StepEmergencyInv
<1> QED
    BY <1>1, <1>2, PTL DEF EmergencySpec

(* Governance is paused and an address is banned only by as many guardians and voters  *)
(* as ExecuteAction and Finalize require, each entitled when it signed or voted, with    *)
(* members added and removed in between and whatever the quorums and times are.          *)
THEOREM EmergencyQuorumsDecide == EmergencySpec => []QuorumsDecide
<1>1. EmergencyInv => QuorumsDecide
    BY DEF EmergencyInv, QuorumsDecide
<1> QED
    BY <1>1, EmergencyInductive, PTL
=============================================================================
