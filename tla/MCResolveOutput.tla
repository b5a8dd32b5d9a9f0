-------------------------- MODULE MCResolveOutput --------------------------
(* ResolveOutput with one memory limit and small maxima, so that a value is *)
(* 0, within both maxima, between them, and above both.                     *)
EXTENDS ResolveOutput

MCTextFields == {"command", "wasm_file"}
MCLimitFields == {"heap_bytes"}
MCReeDefault == [f \in LimitFields |-> 2]
MCReeMax == [f \in LimitFields |-> 2]
MCTaMax == [f \in LimitFields |-> 1]
=============================================================================
