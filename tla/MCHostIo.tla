------------------------------ MODULE MCHostIo ------------------------------
(* HostIoContinuation on a TA with up to three sessions and any client.    *)
(* Sizes are in units of 16 KiB, rounded up: the limit of 32 KiB is 2, and *)
(* 32 KiB plus one is 3.                                                   *)
EXTENDS HostIoContinuation, TLC

CONSTANTS s1, s2, s3, r1, r2, a1, a2, small, full, over

MCTwoSessions == {s1, s2}
MCThreeSessions == {s1, s2, s3}
MCOneRequest == {r1}
MCRequests == {r1, r2}
MCOneAgent == {a1}
MCAgents == {a1, a2}
MCBodies == {small, full, over}
MCSize == [b \in MCBodies |-> CASE b = small -> 1 [] b = full -> 2 [] b = over -> 3]

\* Sessions and requests are only compared.
MCSymmetry == Permutations(MCThreeSessions) \cup Permutations(MCRequests)

=============================================================================
