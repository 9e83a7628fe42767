---------------------------- MODULE MCGovernance ----------------------------
(***************************************************************************)
(* Public governance.  A behaviour exercises one part of it, its focus:     *)
(* voting with an approved first proposal, screening by the council with a   *)
(* voter, the three sides of the treasury, emergency actions, ostracism.      *)
(* Parts in different foci share no state, except that a proposal spends     *)
(* from the treasury, which is funded when the focus is voting.               *)
(***************************************************************************)
EXTENDS Voting, Emergency, TLC

VARIABLE focus
governanceVars == <<votingVars, bouleVars, fundVars, emergencyVars, focus>>

foci == {"voting", "screening", "spending", "grants", "emergency", "actions", "ostracism"}

contents == {[type |-> "PARAMETER_CHANGE", key |-> "veto_threshold_bps", value |-> 500],
             [type |-> "PARAMETER_CHANGE", key |-> "boule_size", value |-> 30],
             [type |-> "TREASURY_SPENDING", amount |-> 2],
             [type |-> "CONSTITUTIONAL"]}
limits  == {[t \in Tracks |-> IF t = "OPERATIONS" THEN 2 ELSE 0]}
plans   == {<<1, 2>>, <<FundWord - 1, 3>>}
vestings == {<<0, 0>>, <<1, 2>>}
splits  == {[producer |-> 7000, treasury |-> 2000, track |-> "OPERATIONS"],
            [producer |-> 0, treasury |-> 5000, track |-> "EMERGENCY"]}
symmetry == Permutations(Voter) \cup Permutations(Citizen)

(* The council a first sortition drew, and its approval of the first proposal *)
Approved ==
    \E draw \in [1 .. CouncilSize -> Citizen] :
       /\ IsInjective(draw)
       /\ citizens = [c \in Citizen |-> TRUE]
       /\ council = draw
       /\ reviews = [p \in Screened |-> IF p = 1 THEN ToSet(draw) \X {TRUE} ELSE {}]
       /\ challenges = [p \in Screened |-> NoChallenge]

Funded == DepositTo(DepositTo(EmptyTreasury, "EMERGENCY", 1), "UNCATEGORIZED", 3)

Init ==
    /\ focus \in foci
    /\ InitVoting /\ (focus # "voting" => holders = Voter)
    /\ InitEmergency
    /\ IF focus = "voting"
       THEN /\ Approved
            /\ treasury = Funded /\ outside = [deposited |-> 4, paid |-> 0, refunded |-> 0]
            /\ fundHeight = 1 /\ schedules = <<>>
            /\ fees = [routed |-> 0, producer |-> 0, treasury |-> 0, burned |-> 0]
       ELSE InitBoule /\ InitFunds

(* One voter and one proposal beside the council *)
ScreenedVote ==
    \/ UpdateBlockHeight /\ now < 3
    \/ CreateProposal([type |-> "CONSTITUTIONAL"])
    \/ \E v \in Voter : CastVote(1, v, "YES", 1) /\ votes[1] = {}
    \/ \E p \in Proposals : NoteApproval(p) \/ MarkBouleApproved(p)

Next ==
    /\ UNCHANGED focus
    /\ \/ /\ focus = "voting" /\ VotingStep
          /\ UNCHANGED emergencyVars
       \/ /\ focus = "screening"
          /\ \/ ScreenedVote
             \/ BouleStep /\ UNCHANGED <<votingVars, fundVars>>
          /\ UNCHANGED emergencyVars
       \/ /\ \/ focus = "spending" /\ SpendingStep
             \/ focus = "grants" /\ GrantStep
             \/ focus = "emergency" /\ EmergencyStep
          /\ UNCHANGED <<votingVars, bouleVars, emergencyVars>>
       \/ /\ \/ focus = "actions" /\ ActionStep
             \/ focus = "ostracism" /\ OstracismStep
          /\ UNCHANGED <<votingVars, bouleVars, fundVars>>

Spec == Init /\ [][Next]_governanceVars

(* Every part keeps its type *)
TypeOK == VotingTypeOK /\ BouleTypeOK /\ FundsTypeOK /\ EmergencyTypeOK
=============================================================================
