------------------------- MODULE HostIoContinuation -------------------------
(***************************************************************************)
(* The TA's sessions.  An Agent that needs HTTP or Evidence is suspended:  *)
(* the session keeps the host I/O request it waits for (pending_host_io),  *)
(* the request to run again (pending_teep_live) and the loaded Agent       *)
(* (teep_agent_live_session).  All sessions share the quota of HTTP        *)
(* transcripts and one WAMR runtime, both kept by counters.                *)
(*                                                                         *)
(* OP-TEE serializes the commands of the single-instance TA, so a command  *)
(* is one action; the commands of the sessions interleave.  What the Agent *)
(* does in a run is a choice: ask for host I/O, return, or fail.           *)
(***************************************************************************)
EXTENDS Naturals, FiniteSetsExt

CONSTANTS
    Sessions,       \* client sessions of the TA
    Requests,       \* request ids
    Agents,         \* TEEP Agent binaries with a valid code signature
    Bodies,         \* host I/O request bodies, each with the input it is for
    Size,           \* their sizes
    NoRequest, NoAgent, NoBody,
    CountMax,       \* TEEP_AGENT_TRANSCRIPT_COUNT_MAX
    TranscriptMax,  \* TEEP_AGENT_TRANSCRIPT_SIZE_MAX
    AggregateMax,   \* TEEP_AGENT_TRANSCRIPT_AGGREGATE_SIZE_MAX
    HistoryMax      \* TEEP_AGENT_HOST_IO_HISTORY_MAX

ASSUME SessionsAssumption == IsFiniteSet(Sessions)
ASSUME SizeAssumption == Size \in [Bodies -> Nat]
ASSUME LimitsAssumption ==
    CountMax \in Nat /\ TranscriptMax \in Nat /\ AggregateMax \in Nat /\ HistoryMax \in Nat
ASSUME NamesAssumption ==
    NoRequest \notin Requests /\ NoAgent \notin Agents /\ NoBody \notin Bodies

VARIABLES
    open,      \* sessions with a context
    pending,   \* the host I/O request each session waits for
    live,      \* the suspended TEEP request of each session
    module,    \* the Agent each session keeps loaded
    count,     \* g_pending_http_transcript_count
    bytes,     \* g_pending_http_transcript_bytes
    modules,   \* g_teep_agent_live_session_count
    wamr,      \* g_wamr_runtime_initialized
    natives,   \* g_teep_agent_natives_registered
    ran        \* the binary the last completed run executed, and the one measured

session == <<pending, live, module>>
quota == <<count, bytes>>
runtime == <<wamr, natives>>
vars == <<open, session, quota, modules, runtime, ran>>

----------------------------------------------------------------------------
HostIo == [http : BOOLEAN, body : Bodies]

Pending == [active : BOOLEAN, http : BOOLEAN, req : Requests \cup {NoRequest},
            body : Bodies \cup {NoBody}]
NoPending == [active |-> FALSE, http |-> FALSE, req |-> NoRequest, body |-> NoBody]

NoLive == [active |-> FALSE, req |-> NoRequest, agent |-> NoAgent, answers |-> 0]
Live == {NoLive} \cup
        [active : {TRUE}, req : Requests, agent : Agents, answers : 0..HistoryMax]

NoRun == [executed |-> NoAgent, measured |-> NoAgent]

TypeOK ==
    /\ open \subseteq Sessions
    /\ pending \in [Sessions -> Pending]
    /\ \A s \in Sessions : pending[s].http => pending[s].body \in Bodies
    /\ live \in [Sessions -> Live]
    /\ module \in [Sessions -> Agents \cup {NoAgent}]
    /\ count \in Nat /\ bytes \in Nat /\ modules \in Nat
    /\ wamr \in BOOLEAN /\ natives \in BOOLEAN
    /\ ran \in [executed : Agents \cup {NoAgent}, measured : Agents \cup {NoAgent}]

Init ==
    /\ open = {}
    /\ pending = [s \in Sessions |-> NoPending]
    /\ live = [s \in Sessions |-> NoLive]
    /\ module = [s \in Sessions |-> NoAgent]
    /\ count = 0 /\ bytes = 0 /\ modules = 0
    /\ wamr = FALSE /\ natives = FALSE
    /\ ran = NoRun

----------------------------------------------------------------------------
(* pending_host_io_clear and save_pending_host_io_request.                 *)

\* The two counters after a session has given its transcript back.
ClearedCount(p) == IF p.http /\ count > 0 THEN count - 1 ELSE count

MutKeepsBytes(p) == bytes

ClearedBytes(p) ==
    IF ~ p.http THEN bytes
    ELSE IF bytes >= Size[p.body] THEN bytes - Size[p.body] ELSE 0

ClearPending(s) ==
    /\ pending' = [pending EXCEPT ![s] = NoPending]
    /\ count' = ClearedCount(pending[s])
    /\ bytes' = ClearedBytes(pending[s])

MutNoCountLimit(s, io) ==
    io.http =>
        /\ Size[io.body] <= TranscriptMax
        /\ ClearedBytes(pending[s]) + Size[io.body] <= AggregateMax

\* The session's own transcript is released before the limits are checked.
Fits(s, io) ==
    io.http =>
        /\ Size[io.body] <= TranscriptMax
        /\ ClearedCount(pending[s]) < CountMax
        /\ ClearedBytes(pending[s]) <= AggregateMax
        /\ Size[io.body] <= AggregateMax - ClearedBytes(pending[s])

MutOneForAll(s, req, io) ==
    /\ Fits(s, io)
    /\ pending' = [t \in Sessions |->
           [active |-> TRUE, http |-> io.http, req |-> req, body |-> io.body]]
    /\ count' = ClearedCount(pending[s]) + (IF io.http THEN 1 ELSE 0)
    /\ bytes' = ClearedBytes(pending[s]) + (IF io.http THEN Size[io.body] ELSE 0)

SavePending(s, req, io) ==
    /\ Fits(s, io)
    /\ pending' = [pending EXCEPT ![s] =
           [active |-> TRUE, http |-> io.http, req |-> req, body |-> io.body]]
    /\ count' = ClearedCount(pending[s]) + (IF io.http THEN 1 ELSE 0)
    /\ bytes' = ClearedBytes(pending[s]) + (IF io.http THEN Size[io.body] ELSE 0)

----------------------------------------------------------------------------
(* The live module, WAMR, and the abort of a suspended request.            *)

ReleasedModules(s) ==
    IF module[s] # NoAgent /\ modules > 0 THEN modules - 1 ELSE modules

ReleaseModule(s) ==
    /\ module' = [module EXCEPT ![s] = NoAgent]
    /\ modules' = ReleasedModules(s)

Abort(s) ==
    /\ ClearPending(s)
    /\ ReleaseModule(s)
    /\ live' = [live EXCEPT ![s] = NoLive]

MutAlwaysDestroys(n, registered) == wamr' = FALSE /\ natives' = FALSE

\* End of execute_teep_agent_resolve: WAMR, initialized at its start, is
\* destroyed unless some session keeps a module in it.
LeaveRuntime(n, registered) ==
    /\ wamr' = (n > 0)
    /\ natives' = (n > 0 /\ registered)

MutSharedModule(s, agent) ==
    LET kept == {module[t] : t \in Sessions} \ {NoAgent} IN
    ran' = [executed |-> IF kept = {} THEN agent ELSE CHOOSE m \in kept : TRUE,
            measured |-> agent]

\* The Agent is instantiated from the module the session keeps, if any.
RunAgent(s, agent) ==
    ran' = [executed |-> IF module[s] = NoAgent THEN agent ELSE module[s],
            measured |-> agent]

\* A suspended session keeps the module it has just loaded.
KeepModule(s, agent) ==
    IF module[s] = NoAgent
    THEN module' = [module EXCEPT ![s] = agent] /\ modules' = modules + 1
    ELSE UNCHANGED <<module, modules>>

----------------------------------------------------------------------------
Open(s) ==
    /\ s \notin open
    /\ open' = open \cup {s}
    /\ UNCHANGED <<session, quota, modules, runtime, ran>>

\* OP-TEE destroys the instance when its last session is closed.
Close(s) ==
    /\ s \in open
    /\ open' = open \ {s}
    /\ pending' = [pending EXCEPT ![s] = NoPending]
    /\ live' = [live EXCEPT ![s] = NoLive]
    /\ module' = [module EXCEPT ![s] = NoAgent]
    /\ IF open = {s}
       THEN count' = 0 /\ bytes' = 0 /\ modules' = 0 /\ wamr' = FALSE /\ natives' = FALSE
       ELSE /\ count' = ClearedCount(pending[s])
            /\ bytes' = ClearedBytes(pending[s])
            /\ modules' = ReleasedModules(s)
            /\ UNCHANGED runtime
    /\ UNCHANGED ran

\* A panic kills the instance with all its sessions.
Panic ==
    /\ open # {}
    /\ open' = {}
    /\ pending' = [s \in Sessions |-> NoPending]
    /\ live' = [s \in Sessions |-> NoLive]
    /\ module' = [s \in Sessions |-> NoAgent]
    /\ count' = 0 /\ bytes' = 0 /\ modules' = 0
    /\ wamr' = FALSE /\ natives' = FALSE
    /\ UNCHANGED ran

----------------------------------------------------------------------------
(* EXECUTE of the probe commands, which ask for host I/O without an Agent. *)

Probe(s, req, io) ==
    /\ s \in open
    /\ SavePending(s, req, io)
    /\ UNCHANGED <<open, live, module, modules, runtime, ran>>

\* Over a limit, no memory, or no room for the answer.
ProbeFails(s) ==
    /\ s \in open
    /\ ClearPending(s)
    /\ UNCHANGED <<open, live, module, modules, runtime, ran>>

----------------------------------------------------------------------------
(* EXECUTE of a command that runs the Agent.                               *)

\* The input, the signature or the mode is refused, or WAMR does not start.
ExecuteRejected(s) ==
    /\ s \in open
    /\ Abort(s)
    /\ UNCHANGED <<open, runtime, ran>>

\* The run fails or its host I/O request is over a limit; or the request to
\* resume cannot be saved, when the module just kept has spared WAMR.
ExecuteFails(s) ==
    /\ s \in open
    /\ Abort(s)
    /\ \/ \E registered \in {natives, TRUE} : LeaveRuntime(modules, registered)
       \/ LeaveRuntime(modules + 1, TRUE)
    /\ UNCHANGED <<open, ran>>

ExecuteAsks(s, req, agent, io) ==
    /\ s \in open
    /\ SavePending(s, req, io)
    /\ live' = [live EXCEPT ![s] =
           [active |-> TRUE, req |-> req, agent |-> agent, answers |-> 0]]
    /\ KeepModule(s, agent)
    /\ LeaveRuntime(modules', TRUE)
    /\ RunAgent(s, agent)
    /\ UNCHANGED open

\* The Agent returns a result or an error; a commit hostcall in the run has
\* consumed the transcript.  WAMR stays initialized when an application runs.
ExecuteReturns(s, agent, commits, app) ==
    /\ s \in open
    /\ IF commits THEN ClearPending(s) ELSE UNCHANGED <<pending, quota>>
    /\ wamr' = (app \/ modules > 0)
    /\ natives' = (modules > 0)
    /\ RunAgent(s, agent)
    /\ UNCHANGED <<open, live, module, modules>>

\* EXECUTE of an application without resolution.
ExecuteApp(s) ==
    /\ s \in open
    /\ wamr' = TRUE
    /\ UNCHANGED <<open, session, quota, modules, natives, ran>>

\* WAMR_SPIKE_EXEC.
Spike(s) ==
    /\ s \in open
    /\ LeaveRuntime(modules, natives)
    /\ UNCHANGED <<open, session, quota, modules, ran>>

----------------------------------------------------------------------------
(* RESUME_HOST_IO with a result that matches the pending request in every  *)
(* field; any other result is refused and changes nothing.                 *)

Resumable(s) ==
    /\ s \in open
    /\ live[s].active /\ pending[s].active
    /\ pending[s].req = live[s].req

\* The answer is recorded, the Agent runs from its entry and asks again.
ResumeAsks(s, io) ==
    /\ Resumable(s)
    /\ live[s].answers < HistoryMax
    /\ SavePending(s, live[s].req, io)
    /\ live' = [live EXCEPT ![s].answers = @ + 1]
    /\ KeepModule(s, live[s].agent)
    /\ LeaveRuntime(modules', TRUE)
    /\ RunAgent(s, live[s].agent)
    /\ UNCHANGED open

\* The request ends: a result, an error, a full history or any failure.
ResumeEnds(s) ==
    /\ Resumable(s)
    /\ Abort(s)
    /\ LeaveRuntime(modules, TRUE)
    /\ UNCHANGED <<open, ran>>

ResumeProbe(s) ==
    /\ s \in open
    /\ ~ live[s].active /\ pending[s].active
    /\ ClearPending(s)
    /\ UNCHANGED <<open, live, module, modules, runtime, ran>>

----------------------------------------------------------------------------
Command(s) ==
    \/ \E req \in Requests, io \in HostIo :
         \/ Probe(s, req, io)
         \/ \E agent \in Agents : ExecuteAsks(s, req, agent, io)
    \/ \E agent \in Agents, commits, app \in BOOLEAN :
         ExecuteReturns(s, agent, commits, app)
    \/ ProbeFails(s) \/ ExecuteRejected(s) \/ ExecuteFails(s)
    \/ ExecuteApp(s) \/ Spike(s)
    \/ \E io \in HostIo : ResumeAsks(s, io)
    \/ ResumeEnds(s) \/ ResumeProbe(s)

Next ==
    \/ \E s \in Sessions : Open(s) \/ Close(s) \/ Command(s)
    \/ Panic

Spec == Init /\ [][Next]_vars

----------------------------------------------------------------------------
Transcripts == {s \in Sessions : pending[s].http}
Loaded == {s \in Sessions : module[s] # NoAgent}

\* The bytes of the transcripts that sessions S have pending.
TotalSize(pnd, S) == MapThenSumSet(LAMBDA s : Size[pnd[s].body], S)

(***************************************************************************)
(* g_pending_http_transcript_count is the number of HTTP transcripts the   *)
(* sessions hold, however requests end, and never exceeds the limit: an    *)
(* abandoned or failed request gives its share of the quota back.          *)
(***************************************************************************)
TranscriptsCounted ==
    count = Cardinality(Transcripts) /\ count <= CountMax

(***************************************************************************)
(* g_pending_http_transcript_bytes is the size of those transcripts, and   *)
(* within the aggregate limit.                                             *)
(***************************************************************************)
BytesCounted ==
    /\ bytes = TotalSize(pending, Transcripts)
    /\ bytes <= AggregateMax

(***************************************************************************)
(* A session keeps an Agent module exactly while it has a suspended        *)
(* request, the counter of such sessions is exact, and WAMR and the Agent  *)
(* natives are there as long as one of them is: no module is used or       *)
(* unloaded after wasm_runtime_destroy.                                    *)
(***************************************************************************)
ModulesAlive ==
    /\ modules = Cardinality(Loaded)
    /\ Loaded # {} => wamr /\ natives
    /\ \A s \in Sessions : live[s].active <=> s \in Loaded
    /\ natives => wamr

\* A session that is not open holds nothing of the TA.
ClosedHoldsNothing ==
    \A s \in Sessions \ open :
        pending[s] = NoPending /\ live[s] = NoLive /\ module[s] = NoAgent

(***************************************************************************)
(* The Agent that runs is the one whose measurement the TA reports to it   *)
(* (teep_host_teep_agent_measurement_sha256).                              *)
(***************************************************************************)
MeasuredAgentRuns == ran.executed = ran.measured

=============================================================================
