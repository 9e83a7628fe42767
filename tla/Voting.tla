------------------------------- MODULE Voting -------------------------------
(***************************************************************************)
(* governance/voting.cpp with what it is attached to: the Boule that        *)
(* screens proposals, the registry of token holders (balance_voting.cpp)    *)
(* and its snapshots, the guard against large holders (antiwhale.cpp), the  *)
(* parameters (params.cpp) and the treasury that executed proposals change. *)
(*                                                                          *)
(* A vote is signed by its voter; signatures are abstracted.                *)
(***************************************************************************)
EXTENDS Boule, Treasury

CONSTANTS
    Voter,              \* the addresses that vote
    Content,            \* type and execution_data of the proposals made
    MaxProposals,       \* bound on the number of proposals
    MaxVoteHeight,      \* bound on the block height
    VotingDelay,        \* 100 blocks in CreateProposal
    VotingPeriod,       \* voting_period_
    ExecutionDelay,     \* 1000 blocks in TallyVotes
    Quorum,             \* default_quorum_
    Threshold,          \* default_threshold_, in percent
    VetoBps,            \* veto_threshold_bps of a proposal
    Powers,             \* the voting powers callers pass
    PowerCap,           \* max_voting_power_cap of the AntiWhaleGuard
    RequireBoule        \* require_boule_approval_

ASSUME VotingAssumption ==
    /\ {VotingDelay, VotingPeriod, ExecutionDelay, Quorum, PowerCap} \subseteq Nat
    /\ {MaxProposals, MaxVoteHeight} \subseteq Nat
    /\ {Threshold, VetoBps} \subseteq Nat /\ Threshold <= 100 /\ VetoBps <= 10000
    /\ Powers \subseteq Nat /\ RequireBoule \in BOOLEAN
    /\ \A c \in Content :
          /\ c.type \in {"PARAMETER_CHANGE", "TREASURY_SPENDING", "GENERAL", "CONSTITUTIONAL"}
          /\ c.type = "TREASURY_SPENDING" => c.amount \in Nat
          /\ c.type = "PARAMETER_CHANGE" => c.value \in Nat
    /\ 1 .. MaxProposals \subseteq Screened

VARIABLES
    now,        \* current_block_height_
    proposals,  \* proposals_, by identifier; marked is history: somebody called MarkBouleApproved
    votes,      \* votes_: the records [voter, choice, power] of every proposal
    holders,    \* the addresses with a balance
    snapshots,  \* of every proposal: the holders when it was created
    params,     \* the GovernanceParams, those that proposals change
    executions  \* history: how often every proposal was executed
votingVars == <<now, proposals, votes, holders, snapshots, params, executions>>

VoteChoices == {"YES", "NO", "ABSTAIN", "VETO"}
Proposals == DOMAIN proposals

InitVoting ==
    /\ now = 0
    /\ proposals = <<>> /\ votes = <<>> /\ snapshots = <<>> /\ executions = <<>>
    /\ holders \in SUBSET Voter
    /\ params = [veto_threshold_bps |-> 3334, boule_size |-> 21, voting_delay_blocks |-> 100]

-----------------------------------------------------------------------------
(* SetBalances / UpdateBalance: an address gets its first token or spends its last *)
UpdateBalance(v) ==
    /\ holders' = IF v \in holders THEN holders \ {v} ELSE holders \cup {v}
    /\ UNCHANGED <<now, proposals, votes, snapshots, params, executions, bouleVars, fundVars>>

(* The snapshot is taken now, whatever voting_start is *)
CreateProposal(c) ==
    /\ Len(proposals) < MaxProposals
    /\ proposals' = Append(proposals,
          [content |-> c, status |-> "PENDING",
           start |-> now + VotingDelay, end |-> now + VotingDelay + VotingPeriod,
           threshold |-> IF c.type = "CONSTITUTIONAL" THEN 66 ELSE Threshold,
           tally |-> [choice \in VoteChoices |-> 0],
           execution |-> 0, boule_approved |-> ~RequireBoule, marked |-> FALSE, deposit_returned |-> FALSE])
    /\ votes' = Append(votes, {})
    /\ snapshots' = Append(snapshots, holders)
    /\ executions' = Append(executions, 0)
    /\ UNCHANGED <<now, holders, params, bouleVars, fundVars>>

(* CreateSnapshot is not called without holders *)
HasSnapshot(p) == snapshots[p] # {}

(* AntiWhaleGuard::ComputeEffectivePower: the integer root, then the cap *)
Isqrt(n) == CHOOSE r \in 0 .. n : r * r <= n /\ (r + 1) * (r + 1) > n
ComputeEffectivePower(power) ==
    LET root == Isqrt(power) IN IF PowerCap > 0 /\ root > PowerCap THEN PowerCap ELSE root

(* Mutant: holders of today vote *)
Power_Today(p, v, claimed) ==
    IF HasSnapshot(p) THEN (IF v \in holders THEN 1 ELSE 0) ELSE claimed

(* One address, one vote; without a snapshot the power is what the caller says *)
Power(p, v, claimed) ==
    IF HasSnapshot(p) THEN (IF v \in snapshots[p] THEN 1 ELSE 0) ELSE claimed

HasVoted(p, v) == \E vote \in votes[p] : vote.voter = v

(* Mutant: the council is not asked *)
Screening_Off(p) == TRUE

Screening(p) == RequireBoule => proposals[p].boule_approved \/ IsProposalApproved(p)

InWindow(p) == now \in proposals[p].start .. proposals[p].end

(* A vote that is refused may still leave boule_approved set (NoteApproval) *)
CastVote(p, v, choice, claimed) ==
    LET power == ComputeEffectivePower(Power(p, v, claimed)) IN
    /\ p \in Proposals
    /\ Screening(p) /\ InWindow(p)
    /\ ~HasVoted(p, v)
    /\ HasSnapshot(p) => Power(p, v, claimed) # 0
    /\ votes' = [votes EXCEPT ![p] = @ \cup {[voter |-> v, choice |-> choice, power |-> power]}]
    /\ proposals' = [proposals EXCEPT
          ![p].tally[choice] = @ + power,
          ![p].boule_approved = TRUE,
          ![p].status = IF @ = "PENDING" THEN "ACTIVE" ELSE @]
    /\ UNCHANGED <<now, holders, snapshots, params, executions, bouleVars, fundVars>>

NoteApproval(p) ==
    /\ p \in Proposals
    /\ RequireBoule /\ ~proposals[p].boule_approved /\ IsProposalApproved(p)
    /\ proposals' = [proposals EXCEPT ![p].boule_approved = TRUE]
    /\ UNCHANGED <<now, votes, holders, snapshots, params, executions, bouleVars, fundVars>>

(* By anybody who has the VotingSystem, with or without a Boule *)
MarkBouleApproved(p) ==
    /\ p \in Proposals
    /\ proposals' = [proposals EXCEPT ![p].boule_approved = TRUE, ![p].marked = TRUE]
    /\ UNCHANGED <<now, votes, holders, snapshots, params, executions, bouleVars, fundVars>>

-----------------------------------------------------------------------------
Ballots(tally) == tally["YES"] + tally["NO"] + tally["ABSTAIN"] + tally["VETO"]

(* The veto share counts all votes, abstentions included *)
Vetoed(tally) == tally["VETO"] * 10000 > Ballots(tally) * VetoBps

(* Mutant: abstentions count as approval *)
Passes_Abstain(p) ==
    LET t == p.tally IN
    /\ Ballots(t) >= Quorum /\ ~Vetoed(t)
    /\ t["YES"] + t["NO"] # 0
    /\ ((t["YES"] + t["ABSTAIN"]) * 100) \div (t["YES"] + t["NO"]) >= p.threshold

Passes(p) ==
    LET t == p.tally IN
    /\ Ballots(t) >= Quorum /\ ~Vetoed(t)
    /\ t["YES"] + t["NO"] # 0
    /\ (t["YES"] * 100) \div (t["YES"] + t["NO"]) >= p.threshold

(* Whatever the status is *)
TallyVotes(p) ==
    /\ p \in Proposals
    /\ now > proposals[p].end
    /\ proposals' = [proposals EXCEPT ![p] =
          IF Passes(@) THEN [@ EXCEPT !.status = "PASSED", !.execution = now + ExecutionDelay]
          ELSE [@ EXCEPT !.status = "REJECTED"]]
    /\ UNCHANGED <<now, votes, holders, snapshots, params, executions, bouleVars, fundVars>>

(* GovernanceParams::ValidateUint *)
ValidateUint(key, value) ==
    CASE key = "veto_threshold_bps"  -> value \in 1000 .. 5000
      [] key = "boule_size"          -> value \in 1 .. 500
      [] key = "voting_delay_blocks" -> value > 0
      [] OTHER                       -> TRUE

UpdateParam(ps, key, value) ==
    IF ValidateUint(key, value) THEN [ps EXCEPT ![key] = value] ELSE ps

Matured(p) == now >= proposals[p].execution

(* The results of UpdateParam and Spend are not looked at *)
ExecuteProposal(p) ==
    /\ p \in Proposals
    /\ proposals[p].status = "PASSED" /\ Matured(p)
    /\ LET c == proposals[p].content
           spends == /\ c.type = "TREASURY_SPENDING"
                     /\ CanSpend(treasury, "UNCATEGORIZED", c.amount, p, now)
       IN  /\ params' = IF c.type = "PARAMETER_CHANGE"
                        THEN UpdateParam(params, c.key, c.value) ELSE params
           /\ treasury' = IF spends THEN SpendFrom(treasury, "UNCATEGORIZED", c.amount, now)
                          ELSE treasury
           /\ outside' = IF spends THEN [outside EXCEPT !.paid = @ + c.amount] ELSE outside
    /\ proposals' = [proposals EXCEPT ![p].status = "EXECUTED"]
    /\ executions' = [executions EXCEPT ![p] = @ + 1]
    /\ UNCHANGED <<now, votes, holders, snapshots, bouleVars, fundHeight, schedules, fees>>

(* ReturnDeposit and SlashDeposit: once, whatever the status is *)
ReturnDeposit(p) ==
    /\ p \in Proposals /\ ~proposals[p].deposit_returned
    /\ proposals' = [proposals EXCEPT ![p].deposit_returned = TRUE]
    /\ UNCHANGED <<now, votes, holders, snapshots, params, executions, bouleVars, fundVars>>

(* UpdateBlockHeight, called for each new block *)
UpdateBlockHeight ==
    /\ now < MaxVoteHeight
    /\ now' = now + 1
    /\ UNCHANGED <<proposals, votes, holders, snapshots, params, executions, bouleVars, fundVars>>

VotingStep ==
    \/ UpdateBlockHeight
    \/ \E c \in Content : CreateProposal(c)
    \/ \E v \in Voter : UpdateBalance(v)
    \/ \E p \in 1 .. MaxProposals :
          \/ \E v \in Voter, choice \in VoteChoices, claimed \in Powers : CastVote(p, v, choice, claimed)
          \/ NoteApproval(p) \/ MarkBouleApproved(p)
          \/ TallyVotes(p) \/ ExecuteProposal(p) \/ ReturnDeposit(p)

(* Proposals with the council that screens them and the treasury they spend from *)
TreasuryStep == SpendingStep \/ GrantStep \/ EmergencyStep
PublicNext ==
    \/ VotingStep
    \/ BouleStep /\ UNCHANGED <<votingVars, fundVars>>
    \/ TreasuryStep /\ UNCHANGED <<votingVars, bouleVars>>
publicVars == <<votingVars, bouleVars, fundVars>>
PublicSpec == InitVoting /\ InitBoule /\ InitFunds /\ [][PublicNext]_publicVars

-----------------------------------------------------------------------------
VotingTypeOK ==
    /\ now \in 0 .. MaxVoteHeight
    /\ \A p \in Proposals :
          /\ proposals[p].status \in {"PENDING", "ACTIVE", "PASSED", "REJECTED", "EXECUTED"}
          /\ proposals[p].tally \in [VoteChoices -> Nat]
          /\ votes[p] \subseteq [voter : Voter, choice : VoteChoices, power : Nat]
    /\ holders \subseteq Voter
    /\ Len(votes) = Len(proposals) /\ Len(snapshots) = Len(proposals)

VotePower(S) == Sum([x \in S |-> x.power])
For(p, c) == {x \in votes[p] : x.choice = c}

(* Every tally is the sum of the votes on record, nobody votes twice, and with a    *)
(* snapshot the votes are one each, of those who held a token when CreateProposal    *)
(* was called (voting.cpp:79-88), however balances move afterwards.                  *)
VotesCountedOnce ==
    \A p \in Proposals :
       /\ \A v \in Voter : Cardinality({x \in votes[p] : x.voter = v}) <= 1
       /\ \A c \in VoteChoices : proposals[p].tally[c] = VotePower(For(p, c))
       /\ HasSnapshot(p) =>
             \A x \in votes[p] : x.voter \in snapshots[p] /\ x.power = 1

(* What passed had its quorum and its majority and no veto when the window was over, *)
(* counted over the votes on record: no vote can come after the tally.               *)
PassedByItsVotes ==
    \A p \in Proposals : proposals[p].status \in {"PASSED", "EXECUTED"} =>
       /\ now > proposals[p].end
       /\ VotePower(votes[p]) >= Quorum
       /\ VotePower(For(p, "YES")) * 100
             >= proposals[p].threshold * VotePower(For(p, "YES") \cup For(p, "NO"))
       /\ VotePower(For(p, "VETO")) * 10000 <= VetoBps * VotePower(votes[p])

(* Between the last vote and an execution lie the rest of the window and the delay,  *)
(* and parameters stay within their constitutional limits (params.h).                *)
ExecutionWaits ==
    /\ \A p \in Proposals : executions[p] > 0 => now > proposals[p].end + ExecutionDelay
    /\ \A key \in DOMAIN params : ValidateUint(key, params[key])

(* What takes effect was decided by its voters, and announced before *)
EffectIsDecided == PassedByItsVotes /\ ExecutionWaits

(* "The snapshot block is the voting_start block of the proposal"                    *)
(* (CONSTITUTION.md:181, also :201, :293, snapshot.h:15-18 and voting.cpp:72): NOT     *)
(* kept.  The powers are those of the call of CreateProposal, VotingDelay blocks         *)
(* earlier; only the number written into the snapshot is voting_start.                   *)
SnapshotOfVotingStart ==
    [][\A p \in Proposals :
          now < proposals[p].start /\ now' = proposals[p].start /\ holders # {} =>
             snapshots[p] = holders]_votingVars

(* Where screening is required there is no vote on a proposal before two thirds of a   *)
(* council's worth of reviewers have approved it or somebody called MarkBouleApproved,   *)
(* which takes the place of the council (voting.cpp:460-465).                            *)
ScreenedBeforeVotes ==
    RequireBoule => \A p \in Proposals :
       votes[p] # {} => \/ proposals[p].marked
                        \/ 3 * Cardinality(Approvals(p)) >= 2 * CouncilSize

(* "Second execution must fail (already EXECUTED)" (test_governance.cpp:262)          *)
ExecutedOnce == \A p \in Proposals : executions[p] <= 1

(* "true = challenge upheld (proposal blocked)" (boule.h:81): while the upheld         *)
(* challenge is on record the council's approval is off.                               *)
UpheldBlocks == \A p \in Screened : challenges[p].upheld => ~IsProposalApproved(p)
=============================================================================
