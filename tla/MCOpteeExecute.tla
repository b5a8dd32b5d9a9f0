--------------------------- MODULE MCOpteeExecute ---------------------------
(* Two processes that execute requests through the TA, with the real       *)
(* numbers of rounds and of recorded answers.                              *)
EXTENDS OpteeExecute

CONSTANTS s1, s2, r1, a1, a2, small

MCSessions == {s1, s2}
MCRequests == {r1}
MCAgents == {a1, a2}
MCBodies == {small}
MCSize == [b \in MCBodies |-> 1]

=============================================================================
