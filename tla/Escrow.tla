------------------------------- MODULE Escrow -------------------------------
(***************************************************************************)
(* What a lock-mint bridge promises its users: a transfer that was sent    *)
(* arrives at most once, and at every moment the home chain holds exactly  *)
(* what was locked and not unlocked, the away chain has issued exactly     *)
(* what was minted and not burnt.                                          *)
(***************************************************************************)
EXTENDS Integers

CONSTANT Transfer       \* records with a kind, "lock" or "burn", and an amount

VARIABLES sent, arrived, held, issued
escrowVars == <<sent, arrived, held, issued>>

Init == sent = {} /\ arrived = {} /\ held = 0 /\ issued = 0

(* A lock is held from the moment it is sent; what is burnt is issued no more *)
Send(i) ==
    /\ i \notin sent
    /\ sent' = sent \cup {i}
    /\ held' = IF i.kind = "lock" THEN held + i.amount ELSE held
    /\ issued' = IF i.kind = "burn" THEN issued - i.amount ELSE issued
    /\ UNCHANGED arrived

Arrive(i) ==
    /\ i \in sent \ arrived
    /\ arrived' = arrived \cup {i}
    /\ issued' = IF i.kind = "lock" THEN issued + i.amount ELSE issued
    /\ held' = IF i.kind = "burn" THEN held - i.amount ELSE held
    /\ UNCHANGED sent

Next == \E i \in Transfer : Send(i) \/ Arrive(i)

Spec == Init /\ [][Next]_escrowVars
=============================================================================
