------------------------------- MODULE WasmRun -------------------------------
(***************************************************************************)
(* The five functions that run a Wasm module, and the requests that call   *)
(* them: a request served in the REE (Linux: the Agent, then the           *)
(* application), EXECUTE and RESUME_HOST_IO of the TA, and its WAMR spike. *)
(* Each function acquires its resources in a fixed order, calls the        *)
(* module, reads the descriptor of the output and releases what it holds;  *)
(* each early exit releases what is held by then.                          *)
(*                                                                         *)
(* The application is the same in all requests of a behaviour, so that the *)
(* answers of the three places can be compared.  What the Agent does is a  *)
(* choice.  At most one allocation fails in a request.  One TA session.    *)
(***************************************************************************)
EXTENDS Naturals, Sequences

CONSTANTS
    Requests,        \* which of Linux, Execute, Spike are tried
    Apps,            \* applications, by what can be observed of them
    IdLen,           \* length of the request id
    ReeOutputMax,    \* TWEP_WR_GLOBAL_MAX_OUTPUT_SIZE
    ReeResponseMax,  \* max_response_bytes
    TaOutputMax,     \* PRODUCTION_MAX_OUTPUT_SIZE
    ResponseCap,     \* TWEP_WR_OPTEE_EXECUTE_RESPONSE_CAP
    ResumeCap,       \* sizeof(execute_output) in resume_pending_teep_live
    SpikeMax,        \* WAMR_SPIKE_MAX_OUTPUT_SIZE
    Budget           \* rounds of a loop that the instruction limit allows

ASSUME RequestsAssumption == Requests \subseteq {"Linux", "Execute", "Spike"}
ASSUME SizesAssumption ==
    {IdLen, ReeOutputMax, ReeResponseMax, TaOutputMax, ResponseCap, ResumeCap, SpikeMax, Budget} \subseteq Nat
\* An output of TaOutputMax bytes, half of it stdout, fits the response buffers.
ASSUME CapsAssumption ==
    /\ TaOutputMax <= ReeOutputMax /\ ResumeCap <= ResponseCap
    /\ 82 + IdLen + TaOutputMax + (TaOutputMax \div 2) <= ResponseCap
    /\ 82 + IdLen + TaOutputMax + (TaOutputMax \div 2) <= ReeResponseMax
ASSUME AppsAssumption ==
    Apps \subseteq [digest : BOOLEAN, signed : BOOLEAN, imports : BOOLEAN, wasm : BOOLEAN,
                    abi : {"one", "other", "missing", "loop"},
                    input : BOOLEAN, main : {"zero", "code", "missing", "trap", "loop"}, code : Nat,
                    addr : {"valid", "null", "outside"}, len : Nat,
                    stdout : {"bytes", "none", "bad", "float", "long"}, limit : Nat]

VARIABLES
    app,       \* the application
    request,   \* the request being served
    verified,  \* resolver mode attestam-verified: the application is the protected one
    runner,    \* the function that runs a module
    pc,        \* where it, or its caller, is
    n,         \* its next step
    held,      \* resources a local pointer refers to
    lost,      \* resources that no pointer refers to any more
    kept,      \* the module and its bytes kept by the session (live session)
    pending,   \* g_pending_teep_live.active
    wamr,      \* the WAMR of the TA is initialized
    natives,   \* g_teep_agent_natives_registered
    metered,   \* the exec_env has an instruction limit,
    fuel,      \* and what is left of it, in rounds of a loop
    todo,      \* resources still to be released
    result,    \* what the runner returns
    faulty,    \* an allocation has failed in this request
    answers    \* the last answer, with the application's result, of each kind of request

vars == <<app, request, verified, runner, pc, n, held, lost, kept, pending, wamr, natives,
          metered, fuel, todo, result, faulty, answers>>

Agents == {"reeAgent", "taAgent"}
AppRunners == {"reeApp", "taApp", "spike"}
Runners == Agents \cup AppRunners
Resources == {"teep_output", "protected_app", "key", "bytes", "module", "inst", "env",
              "encoded", "input", "desc", "output"}
LiveSession == {"module", "bytes"}
Caller == {"teep_output", "protected_app"}  \* held by the request, not by its runner

----------------------------------------------------------------------------
(* The order in which each function acquires and checks.  In the REE the   *)
(* digest and the signature of the application are checked, in the TA only *)
(* the signature of the Agent.                                             *)

MutSteps(r) ==
    CASE r = "reeAgent" -> <<"bytes", "signature", "module", "inst", "env", "abi", "encoded", "input", "desc", "main">>
      [] r = "reeApp" -> <<"bytes", "digest", "signature", "module", "inst", "env", "abi", "input",
                           "desc", "main", "budget">>
      [] r = "taAgent" -> <<"signature", "key", "mode", "wamr", "natives", "bytes", "module", "inst",
                            "env", "abi", "input", "desc", "main", "budget">>
      [] r = "taApp" -> <<"wamr", "imports", "module", "inst", "env", "abi", "input", "desc", "main">>
      [] r = "spike" -> <<"wamr", "imports", "module", "inst", "env", "input", "desc", "main", "budget">>

Steps(r) ==
    CASE r = "reeAgent" -> <<"bytes", "signature", "module", "inst", "env", "abi", "encoded", "input", "desc", "main">>
      [] r = "reeApp" -> <<"bytes", "digest", "signature", "module", "inst", "env", "abi", "input",
                           "desc", "main", "budget">>
      [] r = "taAgent" -> <<"signature", "key", "mode", "wamr", "natives", "bytes", "module", "inst",
                            "env", "abi", "input", "desc", "main", "budget">>
      [] r = "taApp" -> <<"wamr", "imports", "module", "inst", "env", "abi", "input", "desc", "main",
                          "budget">>
      [] r = "spike" -> <<"wamr", "imports", "module", "inst", "env", "input", "desc", "main", "budget">>

Step == Steps(runner)[n]

----------------------------------------------------------------------------
(* What is released after a failed step, or at the end, and in which       *)
(* order.  A resource that is not held is skipped (its pointer is NULL).   *)

AllOf(r) ==
    CASE r = "reeApp" -> <<"output", "desc", "input", "env", "inst", "module", "bytes">>
      [] r = "reeAgent" -> <<"output", "input", "desc", "env", "inst", "module", "bytes", "encoded">>
      [] r = "taAgent" -> <<"output", "desc", "input", "env", "inst", "module", "bytes", "wamr", "key">>
      [] r = "taApp" -> <<"output", "desc", "input", "env", "inst", "module">>
      [] r = "spike" -> <<"output", "desc", "input", "env", "inst", "module", "wamr">>

MutCleanup(r, step) ==
    CASE step \in {"key", "mode", "wamr"} \/ (r = "taAgent" /\ step = "signature") -> <<>>
      [] r \in {"reeApp", "reeAgent"} /\ step = "inst" -> <<>>
      [] OTHER -> AllOf(r)

\* The Agent's runner in the TA returns at once where its input or its signature, its key,
\* its mode or WAMR is refused; the two of the REE list what is held at each exit before the
\* exec_env.
Cleanup(r, step) ==
    IF step \in {"key", "mode", "wamr"} \/ (r = "taAgent" /\ step = "signature")
    THEN <<>> ELSE AllOf(r)

----------------------------------------------------------------------------
(* The application's output.                                               *)

MaxOutput(r) ==
    LET most == IF r = "reeApp" THEN ReeOutputMax ELSE TaOutputMax
    IN  IF app.limit = 0 \/ app.limit > most THEN most ELSE app.limit

HeadLen(k) == IF k < 24 THEN 1 ELSE IF k <= 255 THEN 2 ELSE IF k <= 65535 THEN 3 ELSE 5
StdoutLen == IF app.stdout \in {"none", "bad"} THEN 0 ELSE app.len \div 2
ResponseLen ==
    67 + HeadLen(IdLen) + IdLen + HeadLen(StdoutLen) + StdoutLen + HeadLen(app.len) + app.len

Ok == <<"ok", app.len, StdoutLen>>

\* A descriptor with a null pointer, no length, or an address outside of the memory.
Refused == app.addr # "valid" \/ app.len = 0

\* extract_optional_stdout of the REE refuses an 8-byte head (long), extract_stdout_view of
\* the TA a float or a deep value beside stdout (float).
StdoutRefused(r) == app.stdout \in {"bad", IF r = "reeApp" THEN "long" ELSE "float"}

MutReadAppOutput(r, kind) ==
    IF Refused THEN <<"fail">> ELSE
    CASE r = "reeApp" ->
            IF app.len >= MaxOutput(r) \/ StdoutRefused(r) \/ ResponseLen > ReeResponseMax THEN <<"fail">> ELSE Ok
      [] r = "taApp" ->
            IF app.len > MaxOutput(r) THEN <<"limit">>
            ELSE IF StdoutRefused(r) \/ ResponseLen > (IF kind = "Resume" THEN ResumeCap ELSE ResponseCap)
            THEN <<"fail">> ELSE Ok
      [] r = "spike" -> IF app.len > SpikeMax THEN <<"fail">> ELSE Ok

\* The TA answers an output beyond the limit with an error response of its own.  RESUME
\* has the response written to a buffer on its stack.
ReadAppOutput(r, kind) ==
    IF Refused THEN <<"fail">> ELSE
    CASE r = "reeApp" ->
            IF app.len > MaxOutput(r) \/ StdoutRefused(r) \/ ResponseLen > ReeResponseMax THEN <<"fail">> ELSE Ok
      [] r = "taApp" ->
            IF app.len > MaxOutput(r) THEN <<"limit">>
            ELSE IF StdoutRefused(r) \/ ResponseLen > (IF kind = "Resume" THEN ResumeCap ELSE ResponseCap)
            THEN <<"fail">> ELSE Ok
      [] r = "spike" -> IF app.len > SpikeMax THEN <<"fail">> ELSE Ok
----------------------------------------------------------------------------
TypeOK ==
    /\ app \in Apps /\ request \in {"Linux", "Execute", "Resume", "Spike"} /\ runner \in Runners
    /\ pc \in {"idle", "step", "call", "read", "release", "returned"}
    /\ n \in 1..15 /\ fuel \in 0..Budget
    /\ held \subseteq Resources /\ lost \subseteq Resources /\ kept \in {{}, LiveSession}
    /\ {verified, pending, wamr, natives, metered, faulty} \subseteq BOOLEAN
    /\ todo \in Seq((Resources \ Caller) \cup {"wamr"})
    /\ result[1] \in {"resolved", "error", "need", "ok", "app", "limit", "fail"}
    /\ DOMAIN answers = {"Linux", "Execute", "Resume"}

Init ==
    /\ app \in Apps /\ request = "Linux" /\ verified = FALSE /\ runner = "reeAgent" /\ pc = "idle" /\ n = 1
    /\ held = {} /\ lost = {} /\ kept = {} /\ pending = FALSE
    /\ wamr = FALSE /\ natives = FALSE /\ metered = FALSE /\ fuel = 0
    /\ todo = <<>> /\ result = <<"fail">> /\ faulty = FALSE
    /\ answers = [f \in {"Linux", "Execute", "Resume"} |-> <<>>]

Run(r) == runner' = r /\ pc' = "step" /\ n' = 1 /\ metered' = FALSE /\ fuel' = 0

\* The runner returns res, once it has released what is listed.
Exit(list, res) == pc' = "release" /\ todo' = list /\ result' = res

----------------------------------------------------------------------------
(* A function that runs a module.                                          *)

\* The live session lends its module.
Lent == runner = "taAgent" /\ kept # {}

Acquired ==
    CASE Step \in LiveSession /\ Lent -> {}
      [] Step = "input" /\ runner \in {"reeApp", "taApp"} /\ ~app.input -> {}
      [] OTHER -> {Step} \cap Resources

\* The steps whose outcome the application decides.
Passes ==
    CASE Step = "digest" -> app.digest
      [] Step = "signature" -> app.signed
      [] Step = "imports" -> ~app.imports
      [] Step = "module" -> app.wasm
      [] Step = "abi" -> app.abi = "one"
      [] Step = "main" -> app.main # "missing"
      [] OTHER -> TRUE

\* A call to the application that does not return.
Looping ==
    /\ runner \in AppRunners
    /\ \/ pc = "step" /\ Step = "abi" /\ app.abi = "loop"
       \/ pc = "call" /\ app.main = "loop"

\* One round of the loop.  twep_app_abi_version is called before the exec_env has a limit.
Loop ==
    /\ Looping
    /\ metered => fuel > 0
    /\ fuel' = IF metered THEN fuel - 1 ELSE fuel
    /\ UNCHANGED <<app, request, verified, runner, pc, n, held, lost, kept, pending, wamr, natives,
                   metered, todo, result, faulty, answers>>

\* The dev Agent key is copied only where the request carries one.
Acquire ==
    /\ pc = "step" /\ ~Looping
    /\ runner \in AppRunners => Passes
    /\ \/ held' = held \cup Acquired
       \/ Step = "key" /\ held' = held
    /\ wamr' = (wamr \/ Step = "wamr")
    /\ natives' = (natives \/ Step = "natives")
    /\ metered' = (metered \/ Step = "budget")
    /\ fuel' = IF Step = "budget" THEN Budget ELSE fuel
    /\ n' = n + 1
    /\ pc' = IF n = Len(Steps(runner)) THEN "call" ELSE "step"
    /\ UNCHANGED <<app, request, verified, runner, lost, kept, pending, todo, result, faulty, answers>>

\* The application is refused, or the Agent is (its signature or its input, a key that is
\* too long, a mode with the wrong inputs, a module that cannot be loaded or lacks an export).
Refuse ==
    /\ pc = "step" /\ ~Looping
    /\ IF runner \in AppRunners THEN ~Passes
       ELSE Step \in {"signature", "key", "mode", "module", "abi", "main"} /\ ~(Step = "module" /\ Lent)
    /\ Exit(Cleanup(runner, Step), <<"fail">>)
    /\ UNCHANGED <<app, request, verified, runner, n, held, lost, kept, pending, wamr, natives,
                   metered, fuel, faulty, answers>>

NoMemory ==
    /\ pc = "step" /\ ~faulty
    /\ \/ Acquired # {}
       \/ Step = "wamr" /\ ~wamr
       \/ Step = "natives" /\ ~natives
    /\ faulty' = TRUE
    /\ Exit(Cleanup(runner, Step), <<"fail">>)
    /\ UNCHANGED <<app, request, verified, runner, n, held, lost, kept, pending, wamr, natives,
                   metered, fuel, answers>>

\* The Agent returns, traps or fails; or it asks for host I/O, which is refused or makes
\* the session keep the module.
CallAgent ==
    /\ pc = "call" /\ runner \in Agents
    /\ \/ pc' = "read" /\ UNCHANGED <<held, kept, todo, result>>
       \/ Exit(Cleanup(runner, "call"), <<"fail">>) /\ UNCHANGED <<held, kept>>
       \/ /\ runner = "taAgent"
          /\ Exit(Cleanup(runner, "call"), <<"need">>)
          /\ kept' = LiveSession
          /\ held' = held \ LiveSession
    /\ UNCHANGED <<app, request, verified, runner, n, lost, pending, wamr, natives, metered, fuel,
                   faulty, answers>>

\* A loop in twep_app_main ends with the instruction limit.
CallApp ==
    /\ pc = "call" /\ runner \in AppRunners
    /\ Looping => metered /\ fuel = 0
    /\ CASE app.main = "zero" -> pc' = "read" /\ UNCHANGED <<todo, result>>
         [] app.main = "code" /\ runner = "reeApp" -> Exit(Cleanup(runner, "call"), <<"app", app.code>>)
         [] OTHER -> Exit(Cleanup(runner, "call"), <<"fail">>)
    /\ UNCHANGED <<app, request, verified, runner, n, held, lost, kept, pending, wamr, natives,
                   metered, fuel, faulty, answers>>

\* The Agent's output is not valid, an error, or the application it resolved.
ReadAgent ==
    /\ pc = "read" /\ runner \in Agents
    /\ \/ Exit(Cleanup(runner, "call"), <<"fail">>) /\ held' = held
       \/ \E res \in {"fail", "error", "resolved"} :
             Exit(Cleanup(runner, "call"), <<res>>) /\ held' = held \cup {"output"}
    /\ UNCHANGED <<app, request, verified, runner, n, lost, kept, pending, wamr, natives, metered, fuel,
                   faulty, answers>>

\* An output whose pointer is not 0 is released with twep_app_free, also one that is refused.
ReadApp ==
    /\ pc = "read" /\ runner \in AppRunners
    /\ held' = IF app.addr = "null" THEN held ELSE held \cup {"output"}
    /\ Exit(Cleanup(runner, "call"), ReadAppOutput(runner, request))
    /\ UNCHANGED <<app, request, verified, runner, n, lost, kept, pending, wamr, natives, metered, fuel,
                   faulty, answers>>

MutRelease ==
    /\ pc = "release" /\ todo # <<>>
    /\ held' = held \ {Head(todo)}
    /\ todo' = Tail(todo)
    /\ LET destroy == Head(todo) = "wamr"
       IN  wamr' = (wamr /\ ~destroy) /\ natives' = (natives /\ ~destroy)
    /\ UNCHANGED <<app, request, verified, runner, pc, n, lost, kept, pending, metered, fuel, result,
                   faulty, answers>>

\* One resource is released.  WAMR is destroyed unless a session keeps a module.
Release ==
    /\ pc = "release" /\ todo # <<>>
    /\ held' = held \ {Head(todo)}
    /\ todo' = Tail(todo)
    /\ LET destroy == Head(todo) = "wamr" /\ kept = {}
       IN  wamr' = (wamr /\ ~destroy) /\ natives' = (natives /\ ~destroy)
    /\ UNCHANGED <<app, request, verified, runner, pc, n, lost, kept, pending, metered, fuel, result,
                   faulty, answers>>

\* The pointers of the function are gone with its frame.
Return ==
    /\ pc = "release" /\ todo = <<>>
    /\ pc' = "returned"
    /\ lost' = lost \cup (held \ Caller) /\ held' = held \cap Caller
    /\ UNCHANGED <<app, request, verified, runner, n, kept, pending, wamr, natives, metered, fuel, todo,
                   result, faulty, answers>>

----------------------------------------------------------------------------
(* The requests.                                                           *)

\* twep_wr_execute; EXECUTE, once teep_output is allocated and the Agent's input built; the
\* spike, with the input it expects.
Start(kind) ==
    /\ pc = "idle" /\ kind \in Requests
    /\ request' = kind /\ verified' \in (IF kind = "Execute" THEN BOOLEAN ELSE {FALSE}) /\ faulty' = FALSE
    /\ held' = IF kind = "Execute" THEN {"teep_output"} ELSE {}
    /\ Run(CASE kind = "Linux" -> "reeAgent" [] kind = "Execute" -> "taAgent" [] kind = "Spike" -> "spike")
    /\ UNCHANGED <<app, lost, kept, pending, wamr, natives, todo, result, answers>>

\* RESUME_HOST_IO for the pending request; resolver mode and application are those saved.
StartResume ==
    /\ pc = "idle" /\ pending
    /\ request' = "Resume" /\ faulty' = FALSE
    /\ held' = {"teep_output"}
    /\ Run("taAgent")
    /\ UNCHANGED <<app, verified, lost, kept, pending, wamr, natives, todo, result, answers>>

\* The request is over: its pointers are gone.
Over(freed) ==
    /\ pc' = "idle"
    /\ held' = {} /\ lost' = lost \cup (held \ freed)

\* An answer with the result of the application; requests in which memory was short do not count.
Answered == answers' = IF faulty THEN answers ELSE [answers EXCEPT ![request] = result]

\* teep_agent_live_session_release and pending_teep_live_clear.
EndLive == kept' = {} /\ pending' = FALSE

Local == UNCHANGED <<app, request, verified, wamr, natives, todo, result, faulty>>

\* Linux: the application runs once the Agent has resolved it.
LinuxAgentReturns ==
    /\ pc = "returned" /\ request = "Linux" /\ runner = "reeAgent"
    /\ IF result[1] = "resolved"
       THEN Run("reeApp") /\ UNCHANGED <<held, lost>>
       ELSE Over({}) /\ UNCHANGED <<runner, n, metered, fuel>>
    /\ UNCHANGED <<kept, pending, answers>> /\ Local

LinuxAppReturns ==
    /\ pc = "returned" /\ request = "Linux" /\ runner = "reeApp"
    /\ Over({}) /\ Answered
    /\ UNCHANGED <<runner, n, metered, fuel, kept, pending>> /\ Local

SpikeReturns ==
    /\ pc = "returned" /\ request = "Spike"
    /\ Over({})
    /\ UNCHANGED <<runner, n, metered, fuel, kept, pending, answers>> /\ Local

\* EXECUTE aborts the live session when the Agent fails, or its request for host I/O cannot
\* be saved or is too long; an error of the Agent, or limits that cannot be read, end it.
ExecuteAgentEnds ==
    /\ pc = "returned" /\ request = "Execute" /\ runner = "taAgent"
    /\ \/ result[1] \in {"fail", "need"} /\ EndLive
       \/ result[1] = "need" /\ pending' = TRUE /\ UNCHANGED kept
       \/ result[1] \in {"error", "resolved"} /\ UNCHANGED <<kept, pending>>
    /\ Over({"teep_output"})
    /\ UNCHANGED <<runner, n, metered, fuel, answers>> /\ Local

\* In mode attestam-verified the protected application is loaded; it may not be there, its
\* digest may not be the authorized one (released at once), or memory may be short.
ExecuteRunsApp ==
    /\ pc = "returned" /\ request = "Execute" /\ runner = "taAgent" /\ result[1] = "resolved"
    /\ verified => app.digest
    /\ Run("taApp")
    /\ held' = IF verified THEN {"protected_app"} ELSE {}
    /\ UNCHANGED <<lost, kept, pending, answers>> /\ Local

ExecuteAppReturns ==
    /\ pc = "returned" /\ request = "Execute" /\ runner = "taApp"
    /\ Over({"protected_app"}) /\ Answered
    /\ UNCHANGED <<runner, n, metered, fuel, kept, pending>> /\ Local

\* RESUME stays pending when the Agent asks again; everything else ends the live session.
ResumeAgentEnds ==
    /\ pc = "returned" /\ request = "Resume" /\ runner = "taAgent"
    /\ \/ EndLive
       \/ result[1] = "need" /\ UNCHANGED <<kept, pending>>
    /\ Over({"teep_output"})
    /\ UNCHANGED <<runner, n, metered, fuel, answers>> /\ Local

ResumeRunsApp ==
    /\ pc = "returned" /\ request = "Resume" /\ runner = "taAgent" /\ result[1] = "resolved"
    /\ verified => app.digest
    /\ Run("taApp")
    /\ held' = held \cup (IF verified THEN {"protected_app"} ELSE {})
    /\ UNCHANGED <<lost, kept, pending, answers>> /\ Local

ResumeAppReturns ==
    /\ pc = "returned" /\ request = "Resume" /\ runner = "taApp"
    /\ EndLive
    /\ Over({"protected_app", "teep_output"}) /\ Answered
    /\ UNCHANGED <<runner, n, metered, fuel>> /\ Local

CloseSession ==
    /\ pc = "idle" /\ (kept # {} \/ pending)
    /\ EndLive
    /\ UNCHANGED <<app, request, verified, runner, pc, n, held, lost, wamr, natives, metered, fuel, todo,
                   result, faulty, answers>>

Next ==
    \/ \E kind \in Requests : Start(kind)
    \/ StartResume \/ CloseSession
    \/ Acquire \/ Refuse \/ NoMemory
    \/ Loop \/ CallAgent \/ CallApp \/ ReadAgent \/ ReadApp
    \/ Release \/ Return
    \/ LinuxAgentReturns \/ LinuxAppReturns \/ SpikeReturns
    \/ ExecuteAgentEnds \/ ExecuteRunsApp \/ ExecuteAppReturns
    \/ ResumeAgentEnds \/ ResumeRunsApp \/ ResumeAppReturns

Spec == Init /\ [][Next]_vars
\* A function that has been called goes on as long as the module returns to it.
FairSpec == Spec /\ WF_vars(Next /\ pc # "idle")

----------------------------------------------------------------------------
\* Whatever a request has acquired and the session does not keep is released by the time no
\* pointer refers to it, on every exit; except for the copy of the dev Agent key (KeyReleased).
Released == lost \subseteq {"key"}

\* The same for the copy of the dev Agent key, the transient object of the Agent's context.
KeyReleased == "key" \notin lost

Needs(r) ==
    CASE r \in {"input", "desc"} -> {"inst"}
      [] r = "output" -> {"env", "inst"}
      [] r = "env" -> {"inst"}
      [] r = "inst" -> {"module"}
      [] r = "module" /\ runner = "taApp" -> IF verified THEN {"protected_app"} ELSE {}
      [] r = "module" /\ runner \in {"reeAgent", "reeApp", "taAgent"} -> {"bytes"}
      [] OTHER -> {}

\* Nothing is released before what depends on it: memory of a module while its instance and
\* the exec_env that runs twep_app_free are there, an instance while its module is loaded, a
\* module while its bytes are there (the live session's included); in the TA WAMR, and the
\* natives the Agent's module is linked to, outlive every module.
Anchored ==
    /\ \A r \in held : Needs(r) \subseteq held \cup kept
    /\ (kept # {} \/ (runner \in {"taAgent", "taApp", "spike"} /\ "module" \in held)) => wamr
    /\ (kept # {} \/ (runner = "taAgent" /\ "module" \in held)) => natives

\* A request that was suspended for host I/O ends like one that was not.
ResumedAlike ==
    answers["Execute"] # <<>> /\ answers["Resume"] # <<>> => answers["Execute"] = answers["Resume"]

\* What the REE runs with success EXECUTE does too, with the same output, if it has no
\* imports, its output is within the limit of the TA and both readers of stdout accept it;
\* and the other way round if its digest, which the TA compares in the verified mode only,
\* and its signature, which it does not check, are right.  A request that was suspended
\* for host I/O ends like one that was not, if its response fits RESUME's buffer.
SucceedsAlike ==
    /\ answers["Linux"] # <<>> /\ answers["Execute"] # <<>> /\ ~app.imports
          /\ app.len <= TaOutputMax /\ app.stdout \notin {"float", "long"}
       => /\ answers["Linux"][1] = "ok" => answers["Linux"] = answers["Execute"]
          /\ answers["Execute"][1] = "ok" /\ app.digest /\ app.signed => answers["Linux"][1] = "ok"
    /\ ResponseLen <= ResumeCap => ResumedAlike

\* The same without a word on signatures and on what is beside stdout: does not hold
\* (AnyAlike.cfg).
AnyAlike ==
    answers["Linux"] # <<>> /\ answers["Execute"] # <<>> /\ ~app.imports /\ app.len <= TaOutputMax
       => (answers["Linux"][1] = "ok" <=> answers["Execute"][1] = "ok")

\* The nonzero return value of an application that was run reaches the client.
CodeReported ==
    \A f \in DOMAIN answers :
       answers[f] # <<>> /\ app.main = "code" /\ app.digest /\ app.signed /\ app.wasm /\ ~app.imports /\ app.abi = "one"
       => answers[f] = <<"app", app.code>>

\* Every request ends, an application that loops included.
RequestEnds == pc # "idle" ~> pc = "idle"

----------------------------------------------------------------------------
(* The inductive strengthening.                                            *)

Running == pc \in {"step", "call", "read"}

\* The steps the runner has done.
Done == {Steps(runner)[i] : i \in 1..(n - 1)}

\* What must still be there when y is released.
After(y) == Needs(y) \cup (IF y = "module" THEN {"wamr"} ELSE {})
Ordered(list) == \A i, j \in DOMAIN list : list[i] \in After(list[j]) => j < i
Listed(list) == {list[i] : i \in DOMAIN list}

\* Which runner serves which request, and how far it is.
PlaceInv ==
    /\ request = "Linux" => runner \in {"reeAgent", "reeApp"} /\ ~verified
    /\ request \in {"Execute", "Resume"} => runner \in {"taAgent", "taApp"}
    /\ request = "Spike" => runner = "spike"
    /\ pc = "step" => n \in 1..Len(Steps(runner))
    /\ pc \in {"call", "read"} => n = Len(Steps(runner)) + 1

\* What the request itself holds, besides its runner.
CallerInv ==
    /\ pc = "idle" => held = {}
    /\ pc = "returned" => held \subseteq Caller
    /\ request \in {"Linux", "Spike"} => held \cap Caller = {}
    /\ runner = "taAgent" => "protected_app" \notin held
    /\ request = "Execute" /\ runner = "taApp" => "teep_output" \notin held
    /\ pc # "idle" /\ runner = "taApp" /\ verified => "protected_app" \in held

\* The runner holds what it has acquired, or has in its list to release.
RunnerInv ==
    /\ Running =>
          /\ held \subseteq Caller \cup Done
          /\ Done \cap {"bytes", "module", "inst", "env", "desc"} \subseteq held \cup kept
          /\ "wamr" \in Done => wamr
          /\ "natives" \in Done => natives
    /\ pc = "release" => held \subseteq Caller \cup {"key"} \cup Listed(todo) /\ Ordered(todo)

ReleaseInv == TypeOK /\ PlaceInv /\ CallerInv /\ RunnerInv /\ Released /\ Anchored

\* The application passes every check of r.
Runs(r) ==
    /\ app.wasm /\ app.abi = "one" /\ app.main # "missing"
    /\ IF r = "reeApp" THEN app.digest /\ app.signed ELSE ~app.imports

\* What r answers to a request in which no allocation fails.
Outcome(r, kind) ==
    CASE Runs(r) /\ app.main = "zero" -> ReadAppOutput(r, kind)
      [] Runs(r) /\ app.main = "code" /\ r = "reeApp" -> <<"app", app.code>>
      [] OTHER -> <<"fail">>

\* The application decides its answer.
AnswerInv ==
    /\ Running /\ runner \in {"reeApp", "taApp"} =>
          /\ "digest" \in Done => app.digest
          /\ "signature" \in Done => app.signed
          /\ "imports" \in Done => ~app.imports
          /\ "module" \in Done => app.wasm
          /\ "abi" \in Done => app.abi = "one"
          /\ "main" \in Done => app.main # "missing"
    /\ pc = "read" /\ runner \in {"reeApp", "taApp"} => app.main = "zero"
    /\ pc \in {"release", "returned"} /\ runner \in {"reeApp", "taApp"} /\ ~faulty =>
          result = Outcome(runner, request)
    /\ answers["Linux"] \in {<<>>, Outcome("reeApp", "Linux")}
    /\ answers["Execute"] \in {<<>>, Outcome("taApp", "Execute")}
    /\ answers["Resume"] \in {<<>>, Outcome("taApp", "Resume")}
=============================================================================
