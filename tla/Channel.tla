------------------------------ MODULE Channel ------------------------------
(***************************************************************************)
(* What one direction of a PeerConnection promises: a first-in first-out    *)
(* channel.  Messages come out whole, once each and in the order they were   *)
(* handed over, and none is lost before the connection ends; what is under   *)
(* way when it ends may lose its end, and nothing else.                      *)
(***************************************************************************)
EXTENDS Naturals, Sequences, SequencesExt

CONSTANTS
    HeaderSize,     \* the bytes of a header
    Payloads        \* the lengths of payloads

VARIABLES
    sent,       \* how many messages were handed over
    inFlight,   \* the bytes handed over and not yet processed
    handled,    \* the messages that came out
    ended       \* whether the connection ended

Message(n, payload) == [i \in 1 .. HeaderSize + payload |-> <<n, i>>]

Init == sent = 0 /\ inFlight = <<>> /\ handled = <<>> /\ ~ended

Send ==
    /\ ~ended
    /\ sent' = sent + 1
    /\ \E n \in Payloads : inFlight' = inFlight \o Message(sent', n)
    /\ UNCHANGED <<handled, ended>>

(* The next message that comes out is the one after the last that did *)
Handle ==
    /\ \E n \in Payloads :
          /\ inFlight = Message(Len(handled) + 1, n) \o inFlight'
          /\ handled' = Append(handled, Message(Len(handled) + 1, n))
    /\ UNCHANGED <<sent, ended>>

End ==
    /\ ~ended /\ ended'
    /\ IsPrefix(inFlight', inFlight)
    /\ UNCHANGED <<sent, handled>>

Spec == Init /\ [][Send \/ Handle \/ End]_<<sent, inFlight, handled, ended>>
=============================================================================
