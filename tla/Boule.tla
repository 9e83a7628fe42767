------------------------------- MODULE Boule --------------------------------
(***************************************************************************)
(* governance/boule.cpp: the council drawn by lot that screens proposals,   *)
(* and the Graphe Paranomon, a challenge of a proposal.                     *)
(*                                                                          *)
(* The shuffle is a hash of a block hash: any choice and order of eligible  *)
(* citizens may come out.  Reviews carry no time and no text.               *)
(***************************************************************************)
EXTENDS Integers, FiniteSets, Sequences, SequencesExt

CONSTANTS
    Citizen,        \* the addresses that may register
    CouncilSize,    \* council_size_
    Stake,          \* the stakes they register with
    MinStake,       \* min_stake_
    Screened        \* the proposal identifiers

ASSUME BouleAssumption ==
    /\ CouncilSize \in Nat \ {0} /\ MinStake \in Nat /\ Stake \subseteq Nat
    /\ IsFiniteSet(Citizen)

VARIABLES
    citizens,   \* citizens_: the registered addresses, with is_eligible
    council,    \* council_: the members by selection index
    reviews,    \* of every proposal: the reviews <<member, approved>>
    challenges  \* of every proposal: its challenge, or none
bouleVars == <<citizens, council, reviews, challenges>>

NoChallenge == [raised |-> FALSE, resolved |-> FALSE, upheld |-> FALSE,
                dismiss |-> 0, uphold |-> 0]

InitBoule ==
    /\ citizens = [c \in {} |-> TRUE]
    /\ council = <<>>
    /\ reviews = [p \in Screened |-> {}]
    /\ challenges = [p \in Screened |-> NoChallenge]

IsCouncilMember(c) == c \in ToSet(council)
HasActiveChallenge(p) == challenges[p].raised /\ ~challenges[p].resolved

-----------------------------------------------------------------------------
RegisterCitizen(c, stake) ==
    /\ stake >= MinStake
    /\ c \notin DOMAIN citizens
    /\ citizens' = [d \in DOMAIN citizens \cup {c} |-> IF d = c THEN TRUE ELSE citizens[d]]
    /\ UNCHANGED <<council, reviews, challenges>>

SetCitizenEligibility(c, eligible) ==
    /\ c \in DOMAIN citizens
    /\ citizens' = [citizens EXCEPT ![c] = eligible]
    /\ UNCHANGED <<council, reviews, challenges>>

Eligible == {c \in DOMAIN citizens : citizens[c]}

(* A new draw replaces the council; reviews and challenges stay as they are *)
ConductSortition(draw) ==
    /\ Cardinality(Eligible) >= CouncilSize
    /\ Len(draw) = CouncilSize /\ IsInjective(draw) /\ ToSet(draw) \subseteq Eligible
    /\ council' = draw
    /\ UNCHANGED <<citizens, reviews, challenges>>

HasReviewed(p, c) == \E r \in reviews[p] : r[1] = c

ReviewProposal(p, c, approved) ==
    /\ IsCouncilMember(c)
    /\ ~HasReviewed(p, c)
    /\ reviews' = [reviews EXCEPT ![p] = @ \cup {<<c, approved>>}]
    /\ UNCHANGED <<citizens, council, challenges>>

Approvals(p) == {r \in reviews[p] : r[2]}

(* With screening required.  A challenge blocks while it is not resolved, *)
(* however it is resolved; who approved need not be a member any more.     *)
IsProposalApproved(p) ==
    /\ ~HasActiveChallenge(p)
    /\ council # <<>>
    /\ Cardinality(Approvals(p)) >= (CouncilSize * 2 + 2) \div 3

RaiseGrapheParanomon(p, c) ==
    /\ IsCouncilMember(c)
    /\ ~HasActiveChallenge(p)
    /\ challenges' = [challenges EXCEPT ![p] = [NoChallenge EXCEPT !.raised = TRUE]]
    /\ UNCHANGED <<citizens, council, reviews>>

(* A challenge with one more vote, resolved once one side has half the council *)
Counted(ch, dismiss) ==
    LET d == ch.dismiss + (IF dismiss THEN 1 ELSE 0)
        u == ch.uphold + (IF dismiss THEN 0 ELSE 1)
        majority == CouncilSize \div 2 + 1
    IN  [ch EXCEPT !.dismiss = d, !.uphold = u,
                   !.resolved = d >= majority \/ u >= majority,
                   !.upheld = d < majority /\ u >= majority]

(* Nobody looks up whether the member voted before *)
VoteOnGrapheParanomon(p, c, dismiss) ==
    /\ IsCouncilMember(c)
    /\ HasActiveChallenge(p)
    /\ challenges' = [challenges EXCEPT ![p] = Counted(@, dismiss)]
    /\ UNCHANGED <<citizens, council, reviews>>

(* The first council_size_ / 10 members, at least one *)
GetPrytany ==
    LET size == IF CouncilSize < 10 THEN 1 ELSE CouncilSize \div 10
    IN  SubSeq(council, 1, IF size < Len(council) THEN size ELSE Len(council))

BouleStep ==
    \/ \E c \in Citizen :
          \/ \E stake \in Stake : RegisterCitizen(c, stake)
          \/ \E eligible \in BOOLEAN : SetCitizenEligibility(c, eligible)
          \/ \E p \in Screened :
                \/ \E b \in BOOLEAN : ReviewProposal(p, c, b) \/ VoteOnGrapheParanomon(p, c, b)
                \/ RaiseGrapheParanomon(p, c)
    \/ \E draw \in [1 .. CouncilSize -> Citizen] : ConductSortition(draw)

-----------------------------------------------------------------------------
BouleTypeOK ==
    /\ DOMAIN citizens \subseteq Citizen /\ \A c \in DOMAIN citizens : citizens[c] \in BOOLEAN
    /\ council = <<>> \/ council \in [1 .. CouncilSize -> Citizen]
    /\ reviews \in [Screened -> SUBSET (Citizen \X BOOLEAN)]
    /\ challenges \in [Screened -> [raised : BOOLEAN, resolved : BOOLEAN, upheld : BOOLEAN,
                                    dismiss : Nat, uphold : Nat]]
=============================================================================
