---------------------------- MODULE MCReeRuntime ----------------------------
EXTENDS ReeRuntime, TLC

CONSTANTS c1, c2, b1, b2, u1, u2

MCMock == {[mode |-> "mock", url |-> FALSE, demo |-> FALSE]}
MCInsecure == {[mode |-> "attestam-insecure", url |-> TRUE, demo |-> TRUE]}
\* Every mode, with and without the URL and the demo flag that HTTP needs.
MCConfigs ==
    MCMock \cup MCInsecure \cup
    {[mode |-> "mock", url |-> TRUE, demo |-> FALSE],
     [mode |-> "attestam-verified", url |-> TRUE, demo |-> FALSE],
     [mode |-> "attestam-verified", url |-> TRUE, demo |-> TRUE]}

MCCatalog == c1 :> b1 @@ c2 :> b2
MCCatalog1 == c1 :> b1
\* build/ lacks the application of c2.
MCApps == c1 :> b1 @@ c2 :> NoBuild
MCSealed == c1 :> 0
MCUpdates ==
    {[command |-> c1, sequence |-> 1, build |-> u1], [command |-> c1, sequence |-> 2, build |-> u2],
     [command |-> c2, sequence |-> 1, build |-> u2]}
MCUpdates1 == {[command |-> c1, sequence |-> 1, build |-> u1]}
MCUpdates2 == MCUpdates1 \cup {[command |-> c1, sequence |-> 2, build |-> u2]}

MCSymmetry == Permutations(Processes)
=============================================================================
