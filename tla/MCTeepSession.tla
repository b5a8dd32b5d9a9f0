---------------------------- MODULE MCTeepSession ----------------------------
(* Two sessions that execute two commands, and an AttesTAM with two        *)
(* Catalogs and the applications they authorize.                           *)
EXTENDS TeepSession, TLC

CONSTANTS s1, s2, cat0, app0, app1, n1, c1, c2, a1, a2

MCSessions == {s1, s2}
MCOneSession == {s1}
MCApps == {app0, app1}
MCNone == {}
MCNonces == {n1}
MCPayloads == {c1, c2, a1, a2}
\* The second Catalog replaces the first command's application by the second
\* one's, and withdraws the second command.
MCAuthorizes ==
    [c \in {c1, c2} |->
        [a \in MCApps |-> IF c = c1 THEN IF a = app0 THEN a1 ELSE a2
                          ELSE IF a = app0 THEN a2 ELSE NoPayload]]
MCManifests ==
    {[component |-> cat0, sequence |-> 1, payload |-> c1],
     [component |-> cat0, sequence |-> 2, payload |-> c2],
     [component |-> app0, sequence |-> 1, payload |-> a1],
     [component |-> app1, sequence |-> 1, payload |-> a2]}
MCProvisioned == NoSequences
MCDigests == QueryResponses

\* Sessions are alike.
MCSymmetry == Permutations(MCSessions)

=============================================================================
