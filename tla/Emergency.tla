----------------------------- MODULE Emergency ------------------------------
(***************************************************************************)
(* governance/emergency.cpp and ostracism.cpp: actions that a quorum of      *)
(* guardians may take within a time to live, and the vote that bans an       *)
(* address for a time.                                                       *)
(***************************************************************************)
EXTENDS Integers, FiniteSets, Sequences

CONSTANTS
    Member,         \* addresses: guardians, voters and subjects
    RequiredSigs,   \* required_sigs_
    ActionTtl,      \* action_ttl_
    MaxActions,     \* bound on the actions proposed
    RequiredVotes,  \* required_votes_for_
    BanDuration,    \* ban_duration_blocks_
    MaxBlock        \* bound on the block height

ASSUME EmergencyAssumption ==
    {RequiredSigs, ActionTtl, MaxActions, RequiredVotes, BanDuration, MaxBlock} \subseteq Nat

VARIABLES
    block,      \* the height callers pass
    keepers,    \* guardians_ of the EmergencyCouncil
    actions,    \* actions_, by identifier
    paused,     \* governance_paused_
    records,    \* records_ of Ostracism, with the voters of the current vote
    everKeeper  \* history: who was a guardian when signing, per action
emergencyVars == <<block, keepers, actions, paused, records, everKeeper>>

ActionTypes == {"PAUSE_GOVERNANCE", "CANCEL_PROPOSAL"}
NoRecord == [state |-> "NONE", by |-> {}, for |-> 0, against |-> 0, banEnd |-> 0]

InitEmergency ==
    /\ block = 0 /\ keepers = {} /\ actions = <<>> /\ paused = FALSE
    /\ records = [m \in Member |-> NoRecord]
    /\ everKeeper = <<>>

-----------------------------------------------------------------------------
AddGuardianTo(m) ==
    /\ m \notin keepers
    /\ keepers' = keepers \cup {m}
    /\ UNCHANGED <<block, actions, paused, records, everKeeper>>

RemoveGuardianFrom(m) ==
    /\ m \in keepers
    /\ keepers' = keepers \ {m}
    /\ UNCHANGED <<block, actions, paused, records, everKeeper>>

ProposeAction(type, m) ==
    /\ m \in keepers /\ Len(actions) < MaxActions
    /\ actions' = Append(actions, [type |-> type, signers |-> {m}, expires |-> block + ActionTtl,
                                   executed |-> FALSE, at |-> 0])
    /\ everKeeper' = Append(everKeeper, {m})
    /\ UNCHANGED <<block, keepers, paused, records>>

IsExpired(a) == block > actions[a].expires
HasSufficient(a) == Cardinality(actions[a].signers) >= RequiredSigs

MaySign(m) == m \in keepers

SignAction(a, m) ==
    /\ a \in DOMAIN actions /\ ~actions[a].executed /\ ~IsExpired(a)
    /\ MaySign(m)
    /\ actions' = [actions EXCEPT ![a].signers = @ \cup {m}]
    /\ everKeeper' = [everKeeper EXCEPT ![a] = @ \cup ({m} \cap keepers)]
    /\ UNCHANGED <<block, keepers, paused, records>>

(* Nothing resumes a paused governance *)
ExecuteAction(a) ==
    /\ a \in DOMAIN actions /\ ~actions[a].executed /\ ~IsExpired(a)
    /\ HasSufficient(a)
    /\ actions' = [actions EXCEPT ![a].executed = TRUE, ![a].at = block]
    /\ paused' = (paused \/ actions[a].type = "PAUSE_GOVERNANCE")
    /\ UNCHANGED <<block, keepers, records, everKeeper>>

-----------------------------------------------------------------------------
(* Mutant: the voters of an earlier vote stay on the list *)
Nominated_KeepVoters(r) == [NoRecord EXCEPT !.state = "NOMINATED", !.by = r.by]

Nominated(r) == [NoRecord EXCEPT !.state = "NOMINATED"]

(* Once a ban ran out, only after Rehabilitate has lifted it *)
Nominate(m, by) ==
    /\ m # by
    /\ records[m].state \in {"NONE", "REHABILITATED"}
    /\ records' = [records EXCEPT ![m] = Nominated(@)]
    /\ UNCHANGED <<block, keepers, actions, paused, everKeeper>>

Vote(m, voter, ostracize) ==
    /\ records[m].state = "NOMINATED" /\ voter \notin records[m].by
    /\ records' = [records EXCEPT ![m].by = @ \cup {voter},
                                  ![m].for = @ + (IF ostracize THEN 1 ELSE 0),
                                  ![m].against = @ + (IF ostracize THEN 0 ELSE 1)]
    /\ UNCHANGED <<block, keepers, actions, paused, everKeeper>>

(* Votes against are counted and not compared *)
Finalize(m) ==
    /\ records[m].state = "NOMINATED" /\ records[m].for >= RequiredVotes
    /\ records' = [records EXCEPT ![m].state = "OSTRACIZED", ![m].banEnd = block + BanDuration]
    /\ UNCHANGED <<block, keepers, actions, paused, everKeeper>>

Rehabilitate(m) ==
    /\ records[m].state = "OSTRACIZED" /\ block >= records[m].banEnd
    /\ records' = [records EXCEPT ![m].state = "REHABILITATED"]
    /\ UNCHANGED <<block, keepers, actions, paused, everKeeper>>

IsOstracized(m) == records[m].state = "OSTRACIZED" /\ block < records[m].banEnd

NextHeight ==
    /\ block < MaxBlock
    /\ block' = block + 1
    /\ UNCHANGED <<keepers, actions, paused, records, everKeeper>>

ActionStep ==
    \/ NextHeight
    \/ \E m \in Member :
          \/ AddGuardianTo(m) \/ RemoveGuardianFrom(m)
          \/ \E type \in ActionTypes : ProposeAction(type, m)
          \/ \E a \in 1 .. MaxActions : SignAction(a, m)
    \/ \E a \in 1 .. MaxActions : ExecuteAction(a)

OstracismStep ==
    \/ NextHeight
    \/ \E m, n \in Member :
          \/ Nominate(m, n)
          \/ \E b \in BOOLEAN : Vote(m, n, b)
    \/ \E m \in Member : Finalize(m) \/ Rehabilitate(m)

EmergencyNext == ActionStep \/ OstracismStep
EmergencySpec == InitEmergency /\ [][EmergencyNext]_emergencyVars

-----------------------------------------------------------------------------
EmergencyTypeOK ==
    /\ block \in 0 .. MaxBlock /\ keepers \subseteq Member /\ paused \in BOOLEAN
    /\ \A a \in DOMAIN actions : actions[a].signers \subseteq Member
    /\ records \in [Member -> [state : {"NONE", "NOMINATED", "OSTRACIZED", "REHABILITATED"},
                               by : SUBSET Member, for : Nat, against : Nat, banEnd : Nat]]

(* Governance is paused only by an action that enough guardians signed, each of     *)
(* them a guardian at that time, before it expired; members come and go in between.  *)
PausedByQuorum ==
    /\ paused => \E a \in DOMAIN actions :
                    actions[a].type = "PAUSE_GOVERNANCE" /\ actions[a].executed
    /\ \A a \in DOMAIN actions : actions[a].executed =>
          /\ Cardinality(everKeeper[a]) >= RequiredSigs
          /\ actions[a].at <= actions[a].expires

(* Each vote on a subject starts from nothing: its counters are the voters on its     *)
(* list, and a ban needs as many different voters, also the second time.              *)
BannedByVoters ==
    \A m \in Member :
       /\ records[m].for + records[m].against = Cardinality(records[m].by)
       /\ records[m].state = "OSTRACIZED" => records[m].for >= RequiredVotes

(* A pause and a ban are both decided by enough of those entitled at the time *)
QuorumsDecide == PausedByQuorum /\ BannedByVoters
=============================================================================
