----------------------------- MODULE MCWasmRun -----------------------------
EXTENDS WasmRun

Good == [digest |-> TRUE, signed |-> TRUE, imports |-> FALSE, wasm |-> TRUE, abi |-> "one",
         input |-> TRUE, main |-> "zero", code |-> 0, addr |-> "valid", len |-> 100, stdout |-> "bytes", limit |-> 0]

\* One deviation from an application that runs; outputs at each limit and beyond it.
MCRefused ==
    {[Good EXCEPT !.digest = FALSE], [Good EXCEPT !.signed = FALSE], [Good EXCEPT !.imports = TRUE], [Good EXCEPT !.wasm = FALSE],
     [Good EXCEPT !.abi = "other"], [Good EXCEPT !.abi = "missing"],
     [Good EXCEPT !.main = "missing"], [Good EXCEPT !.main = "trap"], [Good EXCEPT !.main = "loop"],
     [Good EXCEPT !.main = "code", !.code = 3],
     [Good EXCEPT !.addr = "null"], [Good EXCEPT !.addr = "outside"], [Good EXCEPT !.len = 0],
     [Good EXCEPT !.stdout = "bad"], [Good EXCEPT !.stdout = "float"], [Good EXCEPT !.stdout = "long"]}
MCRun ==
    {Good, [Good EXCEPT !.stdout = "none"], [Good EXCEPT !.input = FALSE]} \cup
    {[Good EXCEPT !.len = l] : l \in {129, 3000, 16384, 16385, 16777216}} \cup
    {[Good EXCEPT !.limit = l[1], !.len = l[2]] : l \in {<<100, 100>>, <<100, 101>>, <<20000, 20000>>}}
MCApps == MCRefused \cup MCRun
MCGood == {Good, [Good EXCEPT !.stdout = "none"]}
MCLong == {[Good EXCEPT !.len = l] : l \in {100, 3000}}
MCCode == {[Good EXCEPT !.main = "code", !.code = 3]}
MCAbiLoop == {[Good EXCEPT !.abi = "loop"]}
=============================================================================
