------------------------------ MODULE MCBridge ------------------------------
(***************************************************************************)
(* Two users, a trusted validator and one that is trusted no more; a quorum *)
(* of two is reached by a message that lists the trusted one's signature     *)
(* twice.  In apart the users draw their nonces from different ranges, one   *)
(* lock would overflow the locked total and one has no amount; a payload may *)
(* carry nothing or 3 instead of its transfer's amount.  In shared there are *)
(* two trusted validators, and each user counts from 1, as                    *)
(* test_multiple_senders_independent does.                                   *)
(***************************************************************************)
EXTENDS Bridge

intent(k, s, n, a) == [kind |-> k, sender |-> s, nonce |-> n, amount |-> a]

apart == {intent("lock", "alice", 1, 3), intent("lock", "bob", 2, 2),
          intent("lock", "bob", 3, 3), intent("lock", "alice", 4, 0),
          intent("burn", "alice", 2, 2), intent("burn", "bob", 4, 1)}

shared == {intent("lock", "alice", 1, 3), intent("lock", "bob", 1, 2)}
=============================================================================
