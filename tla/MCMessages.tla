---------------------------- MODULE MCMessages ----------------------------
(* Messages with the lengths at which the head of an item grows.            *)
EXTENDS Messages

Lens == {0, 1, 23, 24, 255, 256, 65535, 65536}
AppStatus == {-2147483647 - 1, -65537, -65536, -257, -256, -25, -24, -1,
              1, 2, 3, 4, 5, 6, 7, 8, 127, 255, 256, 65535, 65536, 2147483647}

\* With the lengths of the resolver modes and the limit of a command, where they count.
LensOf(bld) ==
    Lens \cup IF bld \in {"make_teep_resolve_input", "build_teep_resolve_input_for_command"}
              THEN {4, 17, 32, 33} ELSE {}

\* One field, and then all the others, take each length.
MCLengths ==
    [bld \in Builders |->
        {[f \in Fields(bld) |-> IF f = "return_code" THEN c ELSE IF f = g THEN x ELSE y] :
            g \in Fields(bld), x \in LensOf(bld), y \in LensOf(bld), c \in AppStatus}]
=============================================================================
