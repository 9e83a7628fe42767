----------------------------- MODULE Consortium -----------------------------
(***************************************************************************)
(* enterprise/permissioned.cpp: who may do what in a permissioned network,     *)
(* the decisions of a consortium, the screening of transfers with the alerts    *)
(* and the audit log, and the figures of the service-level monitor.            *)
(*                                                                          *)
(* The five classes share no state; each has its own steps.  A percentage is    *)
(* kept as the two counts it is the quotient of; thresholds are per mille.     *)
(***************************************************************************)
EXTENDS Integers, Sequences, FiniteSets, FiniteSetsExt

CONSTANTS
    Address, Organization,
    Weights,        \* the voting weights that are registered
    WeightWord,     \* 2^32
    Screened, LargeAmount,   \* the amounts screened, and LARGE_TX_THRESHOLD
    Durations,      \* the times that are recorded
    TimeWord,       \* 2^64
    DefaultThresholds, OtherThresholds,     \* of the service levels: the constructor's and those set later
    MaxMembers, MaxDecisions, MaxEvents, MaxRecords     \* bounds on the histories

ASSUME ConsortiumAssumption ==
    /\ Weights \subseteq 0..WeightWord - 1 /\ Durations \subseteq 0..TimeWord - 1
    /\ Screened \subseteq Nat /\ LargeAmount \in Nat
    /\ OtherThresholds \cup {DefaultThresholds} \subseteq
          [uptime : 0..1000, block : Durations, confirmation : Durations, success : 0..1000]

VARIABLES
    participants,   \* participants_: address -> Participant
    permissioned,   \* enabled_
    expelled,       \* history: the addresses that were removed
    organizations,  \* organizations_: name -> Member organization (nothing makes one inactive)
    decisions,      \* decisions_, by number
    kyc,            \* kyc_records_: address -> is_verified
    alerts, events, \* alerts_ and the static events_
    sla,            \* current_metrics_ with the counts behind it, and what was recorded
    thresholds      \* thresholds_
permissionVars == <<participants, permissioned, expelled>>
decisionVars == <<organizations, decisions>>
complianceVars == <<kyc, alerts, events>>
slaVars == <<sla, thresholds>>
consortiumVars == <<permissionVars, decisionVars, complianceVars, slaVars>>

Levels      == 0..3      \* ADMIN, VALIDATOR, PARTICIPANT, OBSERVER
Participant == [level : Levels, organization : Organization, active : BOOLEAN]
(* Its administrator and members are listed and not read by anything: members is how many *)
MemberOrganization == [members : 0..MaxMembers, weight : Weights, active : BOOLEAN]
AlertTypes  == {"LARGE_TRANSACTION", "UNVERIFIED_PARTICIPANT"}
Severity(type) == IF type = "LARGE_TRANSACTION" THEN "MEDIUM" ELSE "HIGH"
Alert       == [type : AlertTypes, severity : {"MEDIUM", "HIGH"}, resolved : BOOLEAN]
EventTypes  == {"TRANSACTION", "PERMISSION_CHANGE"}     \* two of the six kinds of events
AuditEvent  == [id : Nat \ {0}, type : EventTypes, time : Durations, actor : Address]

FullMark == <<1, 1>>        \* 100.0 per cent
NoRecords == [uptime |-> FullMark, downtime |-> 0, block |-> 0, blocks |-> 0, confirmation |-> 0, confirmations |-> 0,
              failed |-> 0, total |-> 0, success |-> FullMark, blockTimes |-> 0, fell |-> FALSE]

InitConsortium ==
    /\ participants = <<>> /\ permissioned = FALSE /\ expelled = {}
    /\ organizations = <<>> /\ decisions = <<>>
    /\ kyc = <<>> /\ alerts = <<>> /\ events = <<>>
    /\ sla = NoRecords /\ thresholds = DefaultThresholds

With(f, x, v) == [y \in DOMAIN f \union {x} |-> IF y = x THEN v ELSE f[y]]

-----------------------------------------------------------------------------
(* PermissionedMode: one that was removed cannot be added again *)
AddParticipant(a, level, organization) ==
    /\ a \notin DOMAIN participants
    /\ participants' = With(participants, a, [level |-> level, organization |-> organization, active |-> TRUE])
    /\ UNCHANGED <<permissioned, expelled>>

RemoveParticipant(a) ==
    /\ a \in DOMAIN participants
    /\ participants' = [participants EXCEPT ![a].active = FALSE] /\ expelled' = expelled \union {a}
    /\ UNCHANGED permissioned

SetEnabled(enabled) ==
    /\ permissioned' = enabled
    /\ UNCHANGED <<participants, expelled>>

HasPermission(a, required) ==
    permissioned => a \in DOMAIN participants /\ participants[a].active /\ participants[a].level <= required

GetParticipants == {a \in DOMAIN participants : participants[a].active}

PermissionStep ==
    \/ \E a \in Address, level \in Levels, o \in Organization : AddParticipant(a, level, o)
    \/ \E a \in Address : RemoveParticipant(a)
    \/ \E enabled \in BOOLEAN : SetEnabled(enabled)

-----------------------------------------------------------------------------
(* ConsortiumManager *)
RegisterOrganization(name, weight) ==
    /\ name \notin DOMAIN organizations
    /\ organizations' = With(organizations, name, [members |-> 0, weight |-> weight, active |-> TRUE])
    /\ UNCHANGED decisions

(* A member may be listed twice *)
AddMember(name) ==
    /\ name \in DOMAIN organizations
    /\ MapThenSumSet(LAMBDA n : organizations[n].members, DOMAIN organizations) < MaxMembers
    /\ organizations' = [organizations EXCEPT ![name].members = @ + 1]
    /\ UNCHANGED decisions

ProposeDecision ==
    /\ Len(decisions) < MaxDecisions
    /\ decisions' = Append(decisions, [votes |-> <<>>, approved |-> FALSE])
    /\ UNCHANGED organizations

Active == {n \in DOMAIN organizations : organizations[n].active}
WeightOf(names) == MapThenSumSet(LAMBDA n : organizations[n].weight, names)

(* Mutant: the total counts those who have voted only *)
Electorate_Voters(votes) == Active \cap DOMAIN votes
Electorate(votes) == Active

(* The sums and the doubling are of 32 bits; to read a missing vote enters it as a refusal; an *)
(* approval is never taken back, whatever votes or organizations come after it                *)
VoteOnDecision(d, name, approve) ==
    /\ d \in DOMAIN decisions /\ name \in Active
    /\ LET votes == With(decisions[d].votes, name, approve)
           approving == {n \in Active \cap DOMAIN votes : votes[n]}
           carried == (2 * WeightOf(approving)) % WeightWord > WeightOf(Electorate(votes)) % WeightWord
           read == [n \in Active \cup DOMAIN votes |-> n \in DOMAIN votes /\ votes[n]]
       IN decisions' = [decisions EXCEPT ![d] = [votes |-> read, approved |-> @.approved \/ carried]]
    /\ UNCHANGED organizations

IsDecisionApproved(d) == d \in DOMAIN decisions /\ decisions[d].approved

DecisionStep ==
    \/ \E name \in Organization, weight \in Weights : RegisterOrganization(name, weight)
    \/ \E name \in Organization : AddMember(name)
    \/ ProposeDecision
    \/ \E d \in 1..MaxDecisions, name \in Organization, approve \in BOOLEAN : VoteOnDecision(d, name, approve)

-----------------------------------------------------------------------------
(* ComplianceManager and AuditLogger *)
RegisterKyc(a, verified) ==
    /\ kyc' = With(kyc, a, verified)
    /\ UNCHANGED <<alerts, events>>

IsKycVerified(a) == a \in DOMAIN kyc /\ kyc[a]
CheckLargeTransaction(amount) == amount >= LargeAmount

(* The alerts of a screening are returned, not stored *)
ScreenTransaction(from, to, amount) ==
    {[type |-> type, severity |-> Severity(type), resolved |-> FALSE] :
        type \in (IF CheckLargeTransaction(amount) THEN {"LARGE_TRANSACTION"} ELSE {})
                 \cup (IF IsKycVerified(from) /\ IsKycVerified(to) THEN {} ELSE {"UNVERIFIED_PARTICIPANT"})}

(* Any alert a caller brings is stored, one it marked as resolved too *)
ReportSuspiciousActivity(alert) ==
    /\ Len(alerts) < MaxEvents
    /\ alerts' = Append(alerts, alert)
    /\ UNCHANGED <<kyc, events>>

GetAlerts(unresolvedOnly) == SelectSeq(alerts, LAMBDA x : unresolvedOnly => ~x.resolved)

LogEvent(type, time, actor) ==
    /\ Len(events) < MaxEvents
    /\ events' = Append(events, [id |-> Len(events) + 1, type |-> type, time |-> time, actor |-> actor])
    /\ UNCHANGED <<kyc, alerts>>

QueryLog(type, from, to) == SelectSeq(events, LAMBDA e : e.type = type /\ from <= e.time /\ e.time <= to)
ExportLog(from, to)      == SelectSeq(events, LAMBDA e : from <= e.time /\ e.time <= to)
GetEventsByActor(actor)  == SelectSeq(events, LAMBDA e : e.actor = actor)

ScreeningStep ==
    \/ \E a \in Address, verified \in BOOLEAN : RegisterKyc(a, verified)
    \/ \E from, to \in Address, amount \in Screened :
          \E alert \in ScreenTransaction(from, to, amount), resolved \in BOOLEAN :
             ReportSuspiciousActivity([alert EXCEPT !.resolved = resolved])

AuditStep == \E type \in EventTypes, a \in Address, time \in Durations : LogEvent(type, time, a)

ComplianceStep == ScreeningStep \/ AuditStep

-----------------------------------------------------------------------------
(* SLAMonitor: the difference to the average is unsigned and wraps when the time is below the average *)
Recorded == sla.blocks + sla.confirmations + sla.total
Moved(average, time, count) == (average + ((time - average) % TimeWord) \div count) % TimeWord

RecordBlockTime(time) ==
    /\ Recorded < MaxRecords
    /\ sla' = [sla EXCEPT !.block = Moved(@, time, sla.blocks + 1), !.blocks = @ + 1,
                          !.blockTimes = @ + time, !.fell = @ \/ time < sla.block]
    /\ UNCHANGED thresholds

RecordTransactionConfirmation(time) ==
    /\ Recorded < MaxRecords
    /\ sla' = [sla EXCEPT !.confirmation = Moved(@, time, sla.confirmations + 1), !.confirmations = @ + 1]
    /\ UNCHANGED thresholds

RecordTransactionResult(success) ==
    /\ Recorded < MaxRecords
    /\ LET failed == IF success THEN sla.failed ELSE sla.failed + 1
       IN sla' = [sla EXCEPT !.total = @ + 1, !.failed = failed, !.success = <<sla.total + 1 - failed, sla.total + 1>>]
    /\ UNCHANGED thresholds

(* total_uptime_ms_ stays 0: the first downtime makes the percentage zero, whatever its length *)
UptimeMs == 0
RecordDowntime(time) ==
    /\ LET downtime == (sla.downtime + time) % TimeWord
           all == (UptimeMs + downtime) % TimeWord
       IN sla' = [sla EXCEPT !.downtime = downtime, !.uptime = IF all > 0 THEN <<UptimeMs, all>> ELSE @]
    /\ UNCHANGED thresholds

SetThresholds(t) == thresholds' = t /\ UNCHANGED sla

Below(rate, permille) == 1000 * rate[1] < permille * rate[2]
GetViolations ==
    (IF Below(sla.uptime, thresholds.uptime) THEN {"uptime"} ELSE {})
    \union (IF sla.block > thresholds.block THEN {"block time"} ELSE {})
    \union (IF sla.confirmation > thresholds.confirmation THEN {"confirmation time"} ELSE {})
    \union (IF Below(sla.success, thresholds.success) THEN {"success rate"} ELSE {})

SlaStep ==
    \/ \E time \in Durations : RecordBlockTime(time) \/ RecordTransactionConfirmation(time) \/ RecordDowntime(time)
    \/ \E success \in BOOLEAN : RecordTransactionResult(success)
    \/ \E t \in OtherThresholds : SetThresholds(t)

-----------------------------------------------------------------------------
permissionOthers == <<decisionVars, complianceVars, slaVars>>
ConsortiumStep ==
    \/ PermissionStep /\ UNCHANGED permissionOthers
    \/ DecisionStep /\ UNCHANGED <<permissionVars, complianceVars, slaVars>>
    \/ ComplianceStep /\ UNCHANGED <<permissionVars, decisionVars, slaVars>>
    \/ SlaStep /\ UNCHANGED <<permissionVars, decisionVars, complianceVars>>

ConsortiumTypeOK ==
    /\ DOMAIN participants \subseteq Address /\ \A a \in DOMAIN participants : participants[a] \in Participant
    /\ DOMAIN organizations \subseteq Organization
    /\ \A n \in DOMAIN organizations : organizations[n] \in MemberOrganization
    /\ \A d \in DOMAIN decisions : DOMAIN decisions[d].votes \subseteq DOMAIN organizations
    /\ DOMAIN kyc \subseteq Address
    /\ \A i \in DOMAIN alerts : alerts[i] \in Alert
    /\ \A i \in DOMAIN events : events[i] \in AuditEvent
    /\ sla.block \in 0..TimeWord - 1 /\ sla.confirmation \in 0..TimeWord - 1

(* An address that was removed has no permission again while the mode is on and is not listed again, *)
(* whatever is added after it                                                                        *)
ExpelledStayOut ==
    \A a \in expelled : a \notin GetParticipants /\ (permissioned => \A l \in Levels : ~HasPermission(a, l))

(* Also when organizations join and votes change in between: a decision becomes approved only in a step *)
(* after which more than half of the weight of all organizations, counted without a word, approves it    *)
ApprovedByMajority ==
    \A d \in DOMAIN decisions :
        (decisions'[d].approved /\ ~IsDecisionApproved(d) /\ 2 * WeightOf(Active) < WeightWord) =>
            LET approving == {n \in DOMAIN decisions'[d].votes : decisions'[d].votes[n]}
            IN  2 * WeightOf(approving) > WeightOf(Active)

(* While no time was below the average when it was recorded, a violation of the block time means that  *)
(* the mean of all times is above the limit, although every step rounds; after one that was, the average *)
(* can be near the top of the word (a known defect)                                                  *)
BreachesAreReal ==
    (~sla.fell /\ "block time" \in GetViolations) => sla.blockTimes > thresholds.block * sla.blocks

(* The queries of the log split it: every event is told once by the type and once by the actor, in the *)
(* order of the numbers                                                                                *)
LogIsTold ==
    \A S \in {{QueryLog(type, 0, TimeWord - 1) : type \in EventTypes}, {GetEventsByActor(a) : a \in Address},
              {ExportLog(0, TimeWord - 1)}} :
        /\ \A s \in S : \A i, j \in DOMAIN s : i < j => s[i].id < s[j].id
        /\ \A i \in DOMAIN events : Cardinality({s \in S : \E j \in DOMAIN s : s[j] = events[i]}) = 1

(* The members, votes and figures of a permissioned network are sound *)
NetworkIsPermissioned == []ExpelledStayOut /\ []BreachesAreReal /\ []LogIsTold /\ [][ApprovedByMajority]_decisionVars
=============================================================================
