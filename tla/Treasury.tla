------------------------------ MODULE Treasury ------------------------------
(***************************************************************************)
(* governance/treasury.cpp, vesting.cpp and fee_router.cpp: the public      *)
(* funds.  Fees are split and a part is deposited; spending needs a         *)
(* proposal identifier, or for the EMERGENCY track the signatures of        *)
(* guardians; grants reserve their total and pay it by milestones, and may  *)
(* have a vesting schedule attached.                                        *)
(*                                                                          *)
(* treasury is one record, so that Voting can call Spend on it.  The audit  *)
(* log transactions_ is kept as what it adds up to: per track, deposits      *)
(* less payments.                                                           *)
(***************************************************************************)
EXTENDS Integers, FiniteSets, FiniteSetsExt, Sequences, Sums

CONSTANTS
    Guardian,           \* the addresses that may be guardians
    MultisigRequired,   \* multisig_required_
    ReserveBps,         \* reserve_ratio_bps_
    Amounts,            \* the amounts callers pass
    Limits,             \* the track_limits of budget periods
    MaxFundHeight,      \* bound on the block height
    MaxRecords,         \* bound on periods, spends and grants, each
    Plans,              \* the milestone amounts of grants, as sequences
    Vesting,            \* the <<cliff, duration>> pairs of grants; duration 0: no schedule
    SplitConfigs,       \* the [producer, treasury, track] splits fees may have
    Fees,               \* the fees that are routed
    MaxFunds,           \* bound on what is deposited and routed in all
    FundWord            \* amounts are unsigned words: numbers modulo FundWord (2^64)

Tracks == {"CORE_DEVELOPMENT", "GRANTS", "OPERATIONS", "EMERGENCY", "UNCATEGORIZED"}

ASSUME TreasuryAssumption ==
    /\ MultisigRequired \in Nat /\ ReserveBps \in Nat /\ ReserveBps <= 10000
    /\ Amounts \subseteq Nat /\ Fees \subseteq Nat /\ MaxFunds \in Nat
    /\ MaxFundHeight \in Nat /\ MaxRecords \in Nat
    /\ FundWord \in Nat /\ MaxFunds < FundWord

ASSUME PlansAssumption ==
    /\ Plans \subseteq Seq(Nat) /\ Vesting \subseteq Nat \X Nat
    /\ Limits \subseteq [Tracks -> Nat]

ASSUME SharesAssumption ==
    /\ SplitConfigs \subseteq [producer : Nat, treasury : Nat, track : Tracks]
    /\ \A c \in SplitConfigs : c.producer + c.treasury <= 10000

VARIABLES
    fundHeight, \* the block height callers pass
    treasury,   \* the Treasury object
    schedules,  \* schedules_ of the VestingRegistry
    fees,       \* stats_ of the FeeRouter, over all sources
    outside     \* history: what came in, was paid out and was refunded by grants
fundVars == <<fundHeight, treasury, schedules, fees, outside>>

EmptyTreasury == [bal |-> [t \in Tracks |-> 0], log |-> [t \in Tracks |-> 0],
                  guardians |-> {}, spends |-> <<>>, periods |-> <<>>, grants |-> <<>>]

InitFunds ==
    /\ fundHeight = 1
    /\ treasury = EmptyTreasury
    /\ schedules = <<>>
    /\ fees = [routed |-> 0, producer |-> 0, treasury |-> 0, burned |-> 0]
    /\ outside = [deposited |-> 0, paid |-> 0, refunded |-> 0]

-----------------------------------------------------------------------------
(* RecordTx: a deposit adds to the track's log, a payment takes from it *)
Logged(t, track, amount) == [t EXCEPT !.log[track] = @ + amount]

DepositTo(t, track, amount) ==
    Logged([t EXCEPT !.bal[track] = @ + amount], track, amount)

Deposit(track, amount) ==
    /\ amount # 0 /\ outside.deposited + amount <= MaxFunds
    /\ treasury' = DepositTo(treasury, track, amount)
    /\ outside' = [outside EXCEPT !.deposited = @ + amount]
    /\ UNCHANGED <<fundHeight, schedules, fees>>

AddGuardian(g) ==
    /\ g \notin treasury.guardians
    /\ treasury' = [treasury EXCEPT !.guardians = @ \cup {g}]
    /\ UNCHANGED <<fundHeight, schedules, fees, outside>>

RemoveGuardian(g) ==
    /\ g \in treasury.guardians
    /\ treasury' = [treasury EXCEPT !.guardians = @ \ {g}]
    /\ UNCHANGED <<fundHeight, schedules, fees, outside>>

-----------------------------------------------------------------------------
(* The budget period in force: the first that covers the height *)
Covering(t, h) == {i \in DOMAIN t.periods : h \in t.periods[i].from .. t.periods[i].to}

IsWithinBudget(t, track, amount, h) ==
    Covering(t, h) # {} =>
        LET p == t.periods[Min(Covering(t, h))]
        IN  p.limits[track] = 0 \/ p.spent[track] + amount <= p.limits[track]

(* The reserve is compared with what is left of all tracks *)
ViolatesReserve(t, debit) ==
    LET total == Sum(t.bal)
    IN  /\ ReserveBps # 0
        /\ \/ total <= debit
           \/ t.bal["EMERGENCY"] * 10000 < (total - debit) * ReserveBps

(* Mutant: the balance of the track is not looked at *)
CanSpend_Uncovered(t, track, amount, proposal, h) ==
    /\ proposal # 0 /\ amount # 0 /\ track # "EMERGENCY"
    /\ IsWithinBudget(t, track, amount, h)
    /\ ~ViolatesReserve(t, amount)

CanSpend(t, track, amount, proposal, h) ==
    /\ proposal # 0 /\ amount # 0 /\ track # "EMERGENCY"
    /\ amount <= t.bal[track]
    /\ IsWithinBudget(t, track, amount, h)
    /\ ~ViolatesReserve(t, amount)

(* Mutant: the last period that covers the height is charged *)
Charged_Last(t, track, amount, h) ==
    IF Covering(t, h) = {} THEN t
    ELSE [t EXCEPT !.periods[Max(Covering(t, h))].spent[track] = @ + amount]

Charged(t, track, amount, h) ==
    IF Covering(t, h) = {} THEN t
    ELSE [t EXCEPT !.periods[Min(Covering(t, h))].spent[track] = @ + amount]

SpendFrom(t, track, amount, h) ==
    Logged(Charged([t EXCEPT !.bal[track] = @ - amount], track, amount, h), track, -amount)

Spend(track, amount, proposal) ==
    /\ CanSpend(treasury, track, amount, proposal, fundHeight)
    /\ treasury' = SpendFrom(treasury, track, amount, fundHeight)
    /\ outside' = [outside EXCEPT !.paid = @ + amount]
    /\ UNCHANGED <<fundHeight, schedules, fees>>

CreateBudgetPeriod(from, to, limits) ==
    /\ to > from
    /\ Len(treasury.periods) < MaxRecords
    /\ treasury' = [treasury EXCEPT !.periods =
          Append(@, [from |-> from, to |-> to, limits |-> limits,
                     spent |-> [t \in Tracks |-> 0]])]
    /\ UNCHANGED <<fundHeight, schedules, fees, outside>>

-----------------------------------------------------------------------------
ProposeMultiSigSpend(amount, g) ==
    /\ amount # 0 /\ g \in treasury.guardians
    /\ Len(treasury.spends) < MaxRecords
    /\ treasury' = [treasury EXCEPT !.spends =
          Append(@, [amount |-> amount, signers |-> {g}, executed |-> FALSE])]
    /\ UNCHANGED <<fundHeight, schedules, fees, outside>>

SignMultiSigSpend(i, g) ==
    /\ g \in treasury.guardians
    /\ i \in DOMAIN treasury.spends /\ ~treasury.spends[i].executed
    /\ treasury' = [treasury EXCEPT !.spends[i].signers = @ \cup {g}]
    /\ UNCHANGED <<fundHeight, schedules, fees, outside>>

(* Signatures of guardians that were removed since still count *)
HasSufficientSignatures(i) == Cardinality(treasury.spends[i].signers) >= MultisigRequired

ExecuteMultiSigSpend(i) ==
    /\ i \in DOMAIN treasury.spends /\ ~treasury.spends[i].executed
    /\ HasSufficientSignatures(i)
    /\ LET amount == treasury.spends[i].amount IN
          /\ amount <= treasury.bal["EMERGENCY"]
          /\ treasury' = Logged([treasury EXCEPT !.bal["EMERGENCY"] = @ - amount,
                                                 !.spends[i].executed = TRUE],
                                "EMERGENCY", -amount)
          /\ outside' = [outside EXCEPT !.paid = @ + amount]
    /\ UNCHANGED <<fundHeight, schedules, fees>>

-----------------------------------------------------------------------------
(* The total leaves the balance without an entry in the log.  The amounts of the   *)
(* milestones are added as words: a plan of FundWord and more reserves less than it *)
(* will release.                                                                    *)
CreateGrant(plan, vesting) ==
    LET total == Sum(plan) % FundWord IN
    /\ total # 0 /\ total <= treasury.bal["GRANTS"]
    /\ Len(treasury.grants) < MaxRecords
    /\ treasury' = [treasury EXCEPT
          !.bal["GRANTS"] = @ - total,
          !.grants = Append(@, [plan |-> plan, released |-> {}, revoked |-> FALSE])]
    /\ schedules' = IF vesting[2] = 0 THEN schedules
                    ELSE Append(schedules,
                           [total |-> total, start |-> fundHeight, cliff |-> vesting[1],
                            duration |-> vesting[2], claimed |-> 0, revoked |-> FALSE,
                            grant |-> Len(treasury.grants) + 1])
    /\ UNCHANGED <<fundHeight, fees, outside>>

ReleaseMilestone(g, m) ==
    /\ g \in DOMAIN treasury.grants
    /\ LET grant == treasury.grants[g] IN
          /\ ~grant.revoked
          /\ m \in DOMAIN grant.plan \ grant.released
          /\ treasury' = Logged([treasury EXCEPT !.grants[g].released = @ \cup {m}],
                                "GRANTS", -grant.plan[m])
          /\ outside' = [outside EXCEPT !.paid = @ + grant.plan[m]]
    /\ UNCHANGED <<fundHeight, schedules, fees>>

(* Mutant: what was released is refunded too *)
Unreleased_All(grant) == Sum(grant.plan)

Unreleased(grant) == Sum([m \in DOMAIN grant.plan \ grant.released |-> grant.plan[m]])

(* The refund is logged as a deposit although the reservation was not logged; *)
(* a vesting schedule of the grant stays in force                              *)
RevokeGrant(g) ==
    /\ g \in DOMAIN treasury.grants /\ ~treasury.grants[g].revoked
    /\ LET refund == Unreleased(treasury.grants[g]) % FundWord IN
          /\ treasury' = Logged([treasury EXCEPT !.bal["GRANTS"] = (@ + refund) % FundWord,
                                                 !.grants[g].revoked = TRUE],
                                "GRANTS", refund)
          /\ outside' = [outside EXCEPT !.refunded = @ + refund]
    /\ UNCHANGED <<fundHeight, schedules, fees>>

-----------------------------------------------------------------------------
(* Nothing before the cliff, then linear.  The quotient and the remainder of *)
(* total by duration are multiplied apart; the sum is the same.               *)
ComputeVested(s, h) ==
    LET begin == s.start + s.cliff IN
    IF h < begin THEN 0
    ELSE IF h >= begin + s.duration THEN s.total
    ELSE (s.total \div s.duration) * (h - begin)
         + ((s.total % s.duration) * (h - begin)) \div s.duration

GetClaimable(s, h) ==
    IF s.revoked \/ ComputeVested(s, h) <= s.claimed THEN 0 ELSE ComputeVested(s, h) - s.claimed

GetReclaimable(s, h) == IF s.revoked THEN 0 ELSE s.total - ComputeVested(s, h)

Claim(i) ==
    /\ i \in DOMAIN schedules
    /\ GetClaimable(schedules[i], fundHeight) # 0
    /\ schedules' = [schedules EXCEPT ![i].claimed = @ + GetClaimable(schedules[i], fundHeight)]
    /\ UNCHANGED <<fundHeight, treasury, fees, outside>>

RevokeSchedule(i) ==
    /\ i \in DOMAIN schedules /\ ~schedules[i].revoked
    /\ schedules' = [schedules EXCEPT ![i].revoked = TRUE]
    /\ UNCHANGED <<fundHeight, treasury, fees, outside>>

-----------------------------------------------------------------------------
Part(fee, bps) == (fee * bps) \div 10000
BurnPart(fee, cfg) == fee - Part(fee, cfg.producer) - Part(fee, cfg.treasury)

(* FeeRouter::Route *)
Route(fee, cfg) ==
    LET share == Part(fee, cfg.treasury) IN
    /\ fees.routed + fee <= MaxFunds /\ outside.deposited + share <= MaxFunds
    /\ treasury' = IF share > 0 THEN DepositTo(treasury, cfg.track, share) ELSE treasury
    /\ outside' = [outside EXCEPT !.deposited = @ + share]
    /\ fees' = [routed |-> fees.routed + fee,
                producer |-> fees.producer + Part(fee, cfg.producer),
                treasury |-> fees.treasury + share,
                burned |-> fees.burned + BurnPart(fee, cfg)]
    /\ UNCHANGED <<fundHeight, schedules>>

NextBlock ==
    /\ fundHeight < MaxFundHeight
    /\ fundHeight' = fundHeight + 1
    /\ UNCHANGED <<treasury, schedules, fees, outside>>

SpendingStep ==
    \/ \E track \in Tracks, amount \in Amounts : Deposit(track, amount) \/ Spend(track, amount, 1)
    \/ \E from \in 1 .. MaxFundHeight, limits \in Limits : CreateBudgetPeriod(from, from + 1, limits)
    \/ NextBlock

GrantStep ==
    \/ \E amount \in Amounts : Deposit("GRANTS", amount)
    \/ \E plan \in Plans, v \in Vesting : CreateGrant(plan, v)
    \/ \E i \in 1 .. MaxRecords :
          \/ RevokeGrant(i) \/ Claim(i) \/ RevokeSchedule(i)
          \/ \E m \in 1 .. 2 : ReleaseMilestone(i, m)
    \/ NextBlock

EmergencyStep ==
    \/ \E amount \in Amounts :
          \/ Deposit("EMERGENCY", amount) \/ Deposit("OPERATIONS", amount)
          \/ Spend("OPERATIONS", amount, 1)
    \/ \E g \in Guardian :
          \/ AddGuardian(g) \/ RemoveGuardian(g)
          \/ \E amount \in Amounts : ProposeMultiSigSpend(amount, g)
          \/ \E i \in 1 .. MaxRecords : SignMultiSigSpend(i, g)
    \/ \E i \in 1 .. MaxRecords : ExecuteMultiSigSpend(i)
    \/ \E fee \in Fees, cfg \in SplitConfigs : Route(fee, cfg)

-----------------------------------------------------------------------------
FundsTypeOK ==
    /\ fundHeight \in 1 .. MaxFundHeight
    /\ treasury.bal \in [Tracks -> Nat] /\ treasury.log \in [Tracks -> Int]
    /\ treasury.guardians \subseteq Guardian
    /\ \A i \in DOMAIN treasury.spends :
          treasury.spends[i] \in [amount : Nat, signers : SUBSET Guardian, executed : BOOLEAN]
    /\ \A i \in DOMAIN treasury.grants :
          treasury.grants[i].released \subseteq DOMAIN treasury.grants[i].plan
    /\ fees \in [routed : Nat, producer : Nat, treasury : Nat, burned : Nat]

Reservation(grant) == IF grant.revoked THEN 0 ELSE Unreleased(grant)
Reserved == Sum([i \in DOMAIN treasury.grants |-> Reservation(treasury.grants[i])])

MoneyKept == outside.deposited = Sum(treasury.bal) + Reserved + outside.paid

LogExplains ==
    \A t \in Tracks : treasury.log[t] = treasury.bal[t] +
       (IF t = "GRANTS" THEN Reserved + outside.refunded ELSE 0)

FeesShared == fees.routed = fees.producer + fees.treasury + fees.burned

(* No grant was made whose milestones add up to a word and more *)
WholeGrants == \A i \in DOMAIN treasury.grants : Sum(treasury.grants[i].plan) < FundWord

(* Of every fee, producer, treasury and fire get all (fee_router.cpp: "to avoid   *)
(* any satoshi leakage").  What came in is in a track, reserved for a milestone,  *)
(* or was paid out, and is paid out once: deposits, spending, emergency spending, *)
(* grants and their revocation move one sum around.  The audit log explains every *)
(* balance, except that CreateGrant takes money without an entry and RevokeGrant  *)
(* logs its refund.  Both hold up to the first grant whose milestones do not fit  *)
(* a word together: from then on neither does, as the addition of CreateGrant is  *)
(* unchecked.                                                                     *)
FundsConserved == FeesShared /\ (WholeGrants => MoneyKept /\ LogExplains)

(* "Spending within a track is blocked when the track's cap is exhausted"          *)
(* (treasury.h): also with periods that overlap, where the first is in force.      *)
BudgetsKept ==
    \A i \in DOMAIN treasury.periods : \A t \in Tracks :
       LET p == treasury.periods[i] IN p.limits[t] = 0 \/ p.spent[t] <= p.limits[t]

(* Claims in any rhythm pay a schedule out once: never ahead of the curve, and     *)
(* what was claimed and what a revocation returns to the treasury fit in the total. *)
SchedulesPayOnce ==
    \A i \in DOMAIN schedules :
       LET s == schedules[i] IN
       /\ s.claimed <= ComputeVested(s, fundHeight)
       /\ s.claimed + GetReclaimable(s, fundHeight) <= s.total

(* Periods and schedules bound what leaves the treasury *)
PaymentsAreDue == BudgetsKept /\ SchedulesPayOnce

(* "Optionally create a cliff+linear vesting schedule so the recipient cannot       *)
(* withdraw the entire grant immediately" (treasury.cpp): what a recipient claims   *)
(* from the schedule and what the treasury takes back are parts of one grant.       *)
GrantPaysOnce ==
    \A i \in DOMAIN schedules :
       LET g == treasury.grants[schedules[i].grant] IN
       g.revoked => schedules[i].claimed + Unreleased(g) <= schedules[i].total
=============================================================================
