---------------------------- MODULE OpteeExecute ----------------------------
(***************************************************************************)
(* twep_wr_optee_execute, the TA's client: one TA session per request, an  *)
(* EXECUTE, then a RESUME_HOST_IO per host I/O request, in at most         *)
(* MaxRounds commands, and the session is closed on every path.  Several   *)
(* processes may execute at a time, each with a session of its own.        *)
(***************************************************************************)
EXTENDS HostIoContinuation

CONSTANT MaxRounds  \* TWEP_WR_OPTEE_HOST_IO_MAX_ROUNDS

ASSUME RoundsAssumption == MaxRounds \in Nat \ {0}

VARIABLE client  \* the execute in progress on each session

clientVars == <<vars, client>>

Client == [at : {"idle", "invoke", "host_io", "close"}, round : 0..MaxRounds,
           need : HostIo \cup {NoBody}]
Idle == [at |-> "idle", round |-> 0, need |-> NoBody]

ClientTypeOK == TypeOK /\ client \in [Sessions -> Client]

ClientInit == Init /\ client = [s \in Sessions |-> Idle]

----------------------------------------------------------------------------
Goto(s, at) == client' = [client EXCEPT ![s].at = at]

OpenSession(s) ==
    /\ client[s].at = "idle"
    /\ Open(s)
    /\ Goto(s, "invoke")

\* EXECUTE in round 0, RESUME_HOST_IO with the answer to need after that.
\* The TA asks for host I/O:
InvokeNeedsIo(s) ==
    /\ client[s].at = "invoke"
    /\ \E io \in HostIo :
         /\ IF client[s].round = 0
            THEN \E req \in Requests, agent \in Agents : ExecuteAsks(s, req, agent, io)
            ELSE ResumeAsks(s, io)
         /\ client' = [client EXCEPT ![s].at = "host_io", ![s].need = io]

MutRetries(s) ==
    /\ client[s].at = "invoke"
    /\ IF client[s].round = 0 THEN ExecuteRejected(s) \/ ExecuteFails(s)
       ELSE ResumeEnds(s)
    /\ client' = [client EXCEPT ![s].round = 0]

\* or it answers or returns an error, early on without any effect.
InvokeEnds(s) ==
    /\ client[s].at = "invoke"
    /\ IF client[s].round = 0
       THEN \/ UNCHANGED vars
            \/ ExecuteRejected(s) \/ ExecuteFails(s)
            \/ \E agent \in Agents, commits, app \in BOOLEAN :
                 ExecuteReturns(s, agent, commits, app)
       ELSE UNCHANGED vars \/ ResumeEnds(s)
    /\ Goto(s, "close")

MutCountsOnce(s) ==
    /\ client[s].at = "host_io"
    /\ UNCHANGED vars
    /\ \/ client' = [client EXCEPT ![s].at = "invoke", ![s].round = 1]
       \/ Goto(s, "close")

\* The last round's host I/O is still performed; its answer is not sent.
PerformHostIo(s) ==
    /\ client[s].at = "host_io"
    /\ UNCHANGED vars
    /\ \/ client' = [client EXCEPT
              ![s].at = IF client[s].round + 1 < MaxRounds THEN "invoke" ELSE "close",
              ![s].round = @ + 1]
       \/ Goto(s, "close")

CloseSession(s) ==
    /\ client[s].at = "close"
    /\ Close(s)
    /\ client' = [client EXCEPT ![s] = Idle]

\* The process dies and the kernel closes its session.
ProcessDies(s) ==
    /\ client[s].at # "idle"
    /\ Close(s)
    /\ client' = [client EXCEPT ![s] = Idle]

\* The TA panics: every session's next call fails, and the client gives up.
InstanceDies ==
    /\ Panic
    /\ client' = [s \in Sessions |-> Idle]

Step(s) ==
    \/ InvokeNeedsIo(s) \/ InvokeEnds(s)
    \/ PerformHostIo(s) \/ CloseSession(s)

ClientNext ==
    \/ \E s \in Sessions : OpenSession(s) \/ Step(s) \/ ProcessDies(s)
    \/ InstanceDies

\* A process that has opened a session goes on: TA commands are bounded by
\* the instruction budget, HTTP by the broker's timeout.
ClientFairness == \A s \in Sessions : WF_clientVars(Step(s))

ClientSpec == ClientInit /\ [][ClientNext]_clientVars /\ ClientFairness

----------------------------------------------------------------------------
(***************************************************************************)
(* Whatever the other sessions do meanwhile, the host I/O that a client    *)
(* performs is the one its session of the TA still waits for, so that the  *)
(* answer is never refused as a mismatch.                                  *)
(***************************************************************************)
AnswerIsAwaited ==
    \A s \in Sessions :
        \/ client[s].at = "host_io"
        \/ client[s].at = "invoke" /\ client[s].round > 0
        => /\ Resumable(s)
           /\ pending[s].http = client[s].need.http
           /\ pending[s].body = client[s].need.body

(***************************************************************************)
(* The client's rounds end before the TA's history of answers is full, so  *)
(* the TA never drops a request for lack of room in it.                    *)
(***************************************************************************)
HistoryHasRoom ==
    \A s \in Sessions :
        client[s].at = "invoke" /\ client[s].round > 0 => live[s].answers < HistoryMax

(***************************************************************************)
(* Every request ends and its session is closed, whatever the Agent asks   *)
(* for and however often: twep_wr_optee_execute gives up after MaxRounds.  *)
(***************************************************************************)
RequestEnds ==
    \A s \in Sessions : client[s].at # "idle" ~> client[s].at = "idle"

----------------------------------------------------------------------------
(* The inductive strengthening of the client's invariants.                 *)

\* The answers the TA has recorded are the rounds the client has been through, a session
\* runs the Agent it was suspended with, and a first EXECUTE finds an empty session.
ExecuteInv(s) ==
    /\ IF client[s].at = "idle" THEN client[s] = Idle /\ s \notin open ELSE s \in open
    /\ client[s].at \in {"invoke", "host_io"} => client[s].round < MaxRounds
    /\ client[s].at = "invoke" /\ client[s].round = 0 => live[s] = NoLive /\ module[s] = NoAgent
    /\ client[s].at = "host_io" => live[s].answers = client[s].round
    /\ client[s].at = "invoke" /\ client[s].round > 0 => live[s].answers + 1 = client[s].round
    /\ live[s].active => module[s] = live[s].agent

ClientInv ==
    /\ client \in [Sessions -> Client]
    /\ AnswerIsAwaited /\ MeasuredAgentRuns
    /\ \A s \in Sessions : ExecuteInv(s)

=============================================================================
