---------------------------- MODULE HostIoProofs ----------------------------
(***************************************************************************)
(* The counters of HostIoContinuation are exact for any number of sessions *)
(* and any limits.  The inductive invariant adds that a closed session     *)
(* holds nothing, which the close of the last session needs: it resets the *)
(* counters without looking at the other contexts.                         *)
(*                                                                         *)
(* The last part is about the clients of OpteeExecute, for any number of   *)
(* clients and rounds: what a client and its session of the TA know of the *)
(* request between them agrees.                                            *)
(***************************************************************************)
EXTENDS OpteeExecute, FiniteSetTheorems, WellFoundedInduction, TLAPS

SessionInv == TypeOK /\ TranscriptsCounted /\ ModulesAlive /\ ClosedHoldsNothing

----------------------------------------------------------------------------
(* What a session holds can be taken off the counters and added to them.   *)

\* Removing one element of a finite set lowers its cardinality by one.
LEMMA CountOthers ==
    ASSUME NEW S, IsFiniteSet(S), NEW s
    PROVE  /\ IsFiniteSet(S \ {s})
           /\ Cardinality(S) \in Nat
           /\ Cardinality(S \ {s}) =
                (IF s \in S /\ Cardinality(S) > 0 THEN Cardinality(S) - 1 ELSE Cardinality(S))
           /\ Cardinality((S \ {s}) \cup {s}) = Cardinality(S \ {s}) + 1
<1>1. Cardinality(S) \in Nat
  BY FS_CardinalityType
<1>2. IsFiniteSet(S \ {s}) /\ Cardinality(S \ {s}) =
         (IF s \in S THEN Cardinality(S) - 1 ELSE Cardinality(S))
  BY FS_RemoveElement
<1>3. s \in S => Cardinality(S) > 0
  BY <1>1, FS_EmptySet
<1>4. Cardinality((S \ {s}) \cup {s}) = Cardinality(S \ {s}) + 1
  BY <1>2, FS_AddElement
<1>. QED BY <1>1, <1>2, <1>3, <1>4

\* The sets that the counters count are finite.
LEMMA FiniteHolders == IsFiniteSet(Transcripts) /\ IsFiniteSet(Loaded)
<1>1. Transcripts \subseteq Sessions /\ Loaded \subseteq Sessions
  BY DEF Transcripts, Loaded
<1>. QED BY <1>1, FS_Subset, SessionsAssumption

\* pending_host_io_clear leaves the count of the other sessions' transcripts.
LEMMA ClearedCountIsOthers ==
    ASSUME TypeOK, TranscriptsCounted, NEW s \in Sessions
    PROVE  /\ ClearedCount(pending[s]) = Cardinality(Transcripts \ {s})
           /\ ClearedCount(pending[s]) \in Nat
           /\ ClearedCount(pending[s]) <= CountMax
<1>1. s \in Transcripts <=> pending[s].http
  BY DEF Transcripts
<1>2. ClearedCount(pending[s]) = Cardinality(Transcripts \ {s})
  BY <1>1, CountOthers, FiniteHolders DEF ClearedCount, TranscriptsCounted
<1>. QED BY <1>2, LimitsAssumption DEF ClearedCount, TypeOK, TranscriptsCounted

\* teep_agent_live_session_release leaves the count of the other sessions.
LEMMA ReleasedModulesIsOthers ==
    ASSUME modules = Cardinality(Loaded), NEW s \in Sessions
    PROVE  /\ ReleasedModules(s) = Cardinality(Loaded \ {s})
           /\ ReleasedModules(s) \in Nat
<1>1. s \in Loaded <=> module[s] # NoAgent
  BY DEF Loaded
<1>2. ReleasedModules(s) = Cardinality(Loaded \ {s})
  BY <1>1, CountOthers, FiniteHolders DEF ReleasedModules
<1>3. IsFiniteSet(Loaded \ {s})
  BY CountOthers, FiniteHolders
<1>. QED BY <1>2, <1>3, FS_CardinalityType

----------------------------------------------------------------------------
(* The transcript counter through the two operations on pending requests.  *)

\* Clearing keeps the count exact and the bytes a natural number.
LEMMA ClearKeepsCount ==
    ASSUME TypeOK, TranscriptsCounted, NEW s \in Sessions, ClearPending(s)
    PROVE  /\ TranscriptsCounted'
           /\ pending' \in [Sessions -> Pending]
           /\ \A t \in Sessions : pending'[t].http => pending'[t].body \in Bodies
           /\ count' \in Nat /\ bytes' \in Nat
<1>1. Transcripts' = Transcripts \ {s}
  BY DEF Transcripts, ClearPending, TypeOK, NoPending
<1>2. TranscriptsCounted' /\ count' \in Nat
  BY <1>1, ClearedCountIsOthers DEF ClearPending, TranscriptsCounted
<1>3. NoPending \in Pending /\ ~ NoPending.http
  BY DEF NoPending, Pending
<1>4. ClearedBytes(pending[s]) \in Nat
  BY SizeAssumption DEF ClearedBytes, TypeOK
<1>. QED BY <1>2, <1>3, <1>4 DEF ClearPending, TypeOK

\* Saving a request keeps it exact and within the limit.
LEMMA SaveKeepsCount ==
    ASSUME TypeOK, TranscriptsCounted, NEW s \in Sessions,
           NEW req \in Requests, NEW io \in HostIo, SavePending(s, req, io)
    PROVE  /\ TranscriptsCounted'
           /\ pending' \in [Sessions -> Pending]
           /\ \A t \in Sessions : pending'[t].http => pending'[t].body \in Bodies
           /\ count' \in Nat /\ bytes' \in Nat
<1>1. io.http \in BOOLEAN /\ io.body \in Bodies
  BY DEF HostIo
<1>. DEFINE saved == [active |-> TRUE, http |-> io.http, req |-> req, body |-> io.body]
<1>2. saved \in Pending
  BY <1>1 DEF Pending
<1>3. pending' = [pending EXCEPT ![s] = saved]
  BY DEF SavePending
<1>4. ClearedBytes(pending[s]) \in Nat
  BY SizeAssumption DEF ClearedBytes, TypeOK
<1>5. bytes' \in Nat
  BY <1>1, <1>4, SizeAssumption DEF SavePending
<1>6. TranscriptsCounted' /\ count' \in Nat
  <2>1. CASE io.http
    <3>1. Transcripts' = (Transcripts \ {s}) \cup {s}
      BY <1>3, <2>1 DEF Transcripts, TypeOK
    <3>2. count' = Cardinality(Transcripts \ {s}) + 1 /\ count' <= CountMax /\ count' \in Nat
      BY <2>1, ClearedCountIsOthers, LimitsAssumption DEF SavePending, Fits
    <3>. QED BY <3>1, <3>2, CountOthers, FiniteHolders DEF TranscriptsCounted
  <2>2. CASE ~ io.http
    <3>1. Transcripts' = Transcripts \ {s}
      BY <1>3, <2>2 DEF Transcripts, TypeOK
    <3>. QED BY <2>2, <3>1, ClearedCountIsOthers DEF SavePending, TranscriptsCounted
  <2>. QED BY <2>1, <2>2
<1>7. \A t \in Sessions : pending'[t].http => pending'[t].body \in Bodies
  BY <1>1, <1>3 DEF TypeOK
<1>. QED BY <1>2, <1>3, <1>5, <1>6, <1>7 DEF TypeOK

----------------------------------------------------------------------------
(* The module counter.                                                     *)

\* Releasing the module of a session.
LEMMA ReleaseKeepsModules ==
    ASSUME TypeOK, modules = Cardinality(Loaded), NEW s \in Sessions, ReleaseModule(s)
    PROVE  /\ modules' = Cardinality(Loaded') /\ modules' \in Nat
           /\ Loaded' = Loaded \ {s}
           /\ module' \in [Sessions -> Agents \cup {NoAgent}]
<1>1. Loaded' = Loaded \ {s}
  BY DEF Loaded, ReleaseModule, TypeOK
<1>. QED BY <1>1, ReleasedModulesIsOthers DEF ReleaseModule, TypeOK

\* A suspended session has a module.
LEMMA KeepKeepsModules ==
    ASSUME TypeOK, modules = Cardinality(Loaded), NEW s \in Sessions,
           NEW agent \in Agents, KeepModule(s, agent)
    PROVE  /\ modules' = Cardinality(Loaded') /\ modules' \in Nat
           /\ modules' > 0
           /\ Loaded' = Loaded \cup {s}
           /\ module' \in [Sessions -> Agents \cup {NoAgent}]
<1>1. CASE module[s] = NoAgent
  <2>1. Loaded' = Loaded \cup {s} /\ s \notin Loaded
    BY <1>1, NamesAssumption DEF Loaded, KeepModule, TypeOK
  <2>2. Cardinality(Loaded \cup {s}) = Cardinality(Loaded) + 1 /\ Cardinality(Loaded) \in Nat
    BY <2>1, FiniteHolders, FS_AddElement, FS_CardinalityType
  <2>. QED BY <1>1, <2>1, <2>2 DEF KeepModule, TypeOK
<1>2. CASE module[s] # NoAgent
  <2>1. Loaded' = Loaded /\ s \in Loaded
    BY <1>2 DEF Loaded, KeepModule
  <2>2. Cardinality(Loaded) # 0 /\ Cardinality(Loaded) \in Nat
    BY <2>1, FiniteHolders, FS_EmptySet, FS_CardinalityType
  <2>. QED BY <1>2, <2>1, <2>2 DEF KeepModule, TypeOK
<1>. QED BY <1>1, <1>2

----------------------------------------------------------------------------
(* Steps of a session that leave the other sessions alone.                 *)

\* The part of the invariant about modules, for a session that gives its up.
LEMMA AbortKeepsModules ==
    ASSUME SessionInv, NEW s \in Sessions, ReleaseModule(s),
           live' = [live EXCEPT ![s] = NoLive],
           wamr' \in BOOLEAN, natives' \in BOOLEAN,
           natives' => wamr', modules > 0 /\ wamr /\ natives => wamr' /\ natives'
    PROVE  ModulesAlive' /\ live' \in [Sessions -> Live] /\ modules' \in Nat
           /\ module' \in [Sessions -> Agents \cup {NoAgent}]
<1>1. TypeOK /\ ModulesAlive
  BY DEF SessionInv
<1>2. /\ modules' = Cardinality(Loaded') /\ modules' \in Nat
      /\ Loaded' = Loaded \ {s}
      /\ module' \in [Sessions -> Agents \cup {NoAgent}]
  BY <1>1, ReleaseKeepsModules DEF ModulesAlive
<1>3. Loaded # {} => modules > 0
  BY <1>1, FiniteHolders, FS_EmptySet, FS_CardinalityType DEF ModulesAlive
<1>4. Loaded' # {} => wamr' /\ natives'
  BY <1>1, <1>2, <1>3 DEF ModulesAlive
<1>5. NoLive \in Live /\ ~ NoLive.active
  BY LimitsAssumption DEF NoLive, Live
<1>6. live' \in [Sessions -> Live]
  BY <1>1, <1>5 DEF TypeOK
<1>7. \A t \in Sessions : live'[t].active <=> t \in Loaded'
  BY <1>1, <1>2, <1>5 DEF TypeOK, ModulesAlive
<1>. QED BY <1>2, <1>4, <1>6, <1>7 DEF ModulesAlive

\* The same for a session that is suspended.
LEMMA AskKeepsModules ==
    ASSUME SessionInv, NEW s \in Sessions, NEW agent \in Agents,
           KeepModule(s, agent), LeaveRuntime(modules', TRUE),
           NEW l \in Live, l.active, live' = [live EXCEPT ![s] = l]
    PROVE  ModulesAlive' /\ live' \in [Sessions -> Live] /\ modules' \in Nat
           /\ module' \in [Sessions -> Agents \cup {NoAgent}]
           /\ wamr' \in BOOLEAN /\ natives' \in BOOLEAN
<1>1. TypeOK /\ ModulesAlive
  BY DEF SessionInv
<1>2. /\ modules' = Cardinality(Loaded') /\ modules' \in Nat /\ modules' > 0
      /\ Loaded' = Loaded \cup {s}
      /\ module' \in [Sessions -> Agents \cup {NoAgent}]
  BY <1>1, KeepKeepsModules DEF ModulesAlive
<1>3. wamr' = TRUE /\ natives' = TRUE
  BY <1>2 DEF LeaveRuntime
<1>4. live' \in [Sessions -> Live]
  BY <1>1 DEF TypeOK
<1>5. \A t \in Sessions : live'[t].active <=> t \in Loaded'
  BY <1>1, <1>2 DEF TypeOK, ModulesAlive
<1>. QED BY <1>2, <1>3, <1>4, <1>5 DEF ModulesAlive

\* The same for a step that touches no module, and WAMR only when idle.
LEMMA RunKeepsModules ==
    ASSUME SessionInv, UNCHANGED <<live, module, modules>>,
           wamr' \in BOOLEAN, natives' \in BOOLEAN,
           natives' => wamr', modules > 0 /\ wamr /\ natives => wamr' /\ natives'
    PROVE  ModulesAlive' /\ live' \in [Sessions -> Live] /\ modules' \in Nat
           /\ module' \in [Sessions -> Agents \cup {NoAgent}]
<1>1. TypeOK /\ ModulesAlive
  BY DEF SessionInv
<1>2. Loaded' = Loaded
  BY DEF Loaded
<1>3. Loaded # {} => modules > 0
  BY <1>1, FiniteHolders, FS_EmptySet, FS_CardinalityType DEF ModulesAlive
<1>. QED BY <1>1, <1>2, <1>3 DEF ModulesAlive, TypeOK

\* Transcripts that a step does not touch stay counted.
LEMMA SameKeepsCount ==
    ASSUME SessionInv, UNCHANGED <<pending, quota>>
    PROVE  /\ TranscriptsCounted'
           /\ pending' \in [Sessions -> Pending]
           /\ \A t \in Sessions : pending'[t].http => pending'[t].body \in Bodies
           /\ count' \in Nat /\ bytes' \in Nat
<1>1. Transcripts' = Transcripts
  BY DEF Transcripts
<1>. QED BY <1>1 DEF SessionInv, TypeOK, TranscriptsCounted, quota

\* The run of an Agent is recorded with binaries of the right kind.
LEMMA RunType ==
    ASSUME TypeOK, NEW s \in Sessions, NEW agent \in Agents, RunAgent(s, agent)
    PROVE  ran' \in [executed : Agents \cup {NoAgent}, measured : Agents \cup {NoAgent}]
BY DEF TypeOK, RunAgent

\* A command of an open session keeps the closed ones empty.
LEMMA OthersStayClosed ==
    ASSUME SessionInv, NEW s \in open, open' = open,
           \A t \in Sessions \ {s} :
               pending'[t] = pending[t] /\ live'[t] = live[t] /\ module'[t] = module[t]
    PROVE  ClosedHoldsNothing'
BY DEF SessionInv, ClosedHoldsNothing

----------------------------------------------------------------------------
(* The commands of a session.                                              *)

\* WAMR after a run is there if a module is.
LEMMA LeaveRuntimeFacts ==
    ASSUME NEW n \in Nat, NEW registered \in BOOLEAN, LeaveRuntime(n, registered)
    PROVE  /\ wamr' \in BOOLEAN /\ natives' \in BOOLEAN
           /\ natives' => wamr'
           /\ n > 0 => wamr'
           /\ n > 0 /\ registered => natives'
<1>. DEFINE b == n > 0
<1>1. b \in BOOLEAN
  OBVIOUS
<1>2. wamr' = b /\ natives' = (b /\ registered)
  BY DEF LeaveRuntime
<1>3. (n > 0) = b
  OBVIOUS
<1>. HIDE DEF b
<1>. QED BY <1>1, <1>2, <1>3, Zenon

\* EXECUTE of a probe, answered or refused, and its resumption.
LEMMA ProbeKeepsInv ==
    ASSUME SessionInv, NEW s \in Sessions, NEW req \in Requests, NEW io \in HostIo,
           Probe(s, req, io) \/ ProbeFails(s) \/ ResumeProbe(s)
    PROVE  SessionInv'
<1>1. TypeOK /\ TranscriptsCounted
  BY DEF SessionInv
<1>2. /\ s \in open /\ UNCHANGED <<open, live, module, modules, runtime, ran>>
      /\ SavePending(s, req, io) \/ ClearPending(s)
  BY DEF Probe, ProbeFails, ResumeProbe
<1>3. /\ TranscriptsCounted'
      /\ pending' \in [Sessions -> Pending]
      /\ \A t \in Sessions : pending'[t].http => pending'[t].body \in Bodies
      /\ count' \in Nat /\ bytes' \in Nat
  BY <1>1, <1>2, SaveKeepsCount, ClearKeepsCount
<1>4. ModulesAlive' /\ live' \in [Sessions -> Live] /\ modules' \in Nat
      /\ module' \in [Sessions -> Agents \cup {NoAgent}]
  BY <1>1, <1>2, RunKeepsModules DEF SessionInv, ModulesAlive, TypeOK, runtime
<1>5. \A t \in Sessions \ {s} : pending'[t] = pending[t]
  BY <1>1, <1>2 DEF SavePending, ClearPending, TypeOK
<1>6. ClosedHoldsNothing'
  BY <1>2, <1>5, OthersStayClosed
<1>7. TypeOK'
  BY <1>1, <1>2, <1>3, <1>4 DEF TypeOK, runtime
<1>. QED BY <1>3, <1>4, <1>6, <1>7 DEF SessionInv

\* The commands that end a request with all that the session held.
LEMMA AbortKeepsInv ==
    ASSUME SessionInv, NEW s \in Sessions,
           ExecuteRejected(s) \/ ExecuteFails(s) \/ ResumeEnds(s)
    PROVE  SessionInv'
<1>1. TypeOK /\ TranscriptsCounted /\ ModulesAlive
  BY DEF SessionInv
<1>2. s \in open /\ open' = open /\ ran' = ran /\ Abort(s)
  BY DEF ExecuteRejected, ExecuteFails, ResumeEnds, Resumable
<1>3. ClearPending(s) /\ ReleaseModule(s) /\ live' = [live EXCEPT ![s] = NoLive]
  BY <1>2 DEF Abort
<1>4. /\ wamr' \in BOOLEAN /\ natives' \in BOOLEAN
      /\ natives' => wamr'
      /\ modules > 0 /\ wamr /\ natives => wamr' /\ natives'
  <2>1. CASE ExecuteRejected(s)
    BY <1>1, <2>1 DEF ExecuteRejected, runtime, TypeOK, ModulesAlive
  <2>2. CASE ExecuteFails(s)
    <3>1. CASE \E registered \in {natives, TRUE} : LeaveRuntime(modules, registered)
      <4>1. PICK registered \in {natives, TRUE} : LeaveRuntime(modules, registered)
        BY <3>1
      <4>2. modules \in Nat /\ registered \in BOOLEAN /\ (natives => registered)
        BY <1>1, <4>1 DEF TypeOK
      <4>. QED BY <4>1, <4>2, LeaveRuntimeFacts
    <3>2. CASE LeaveRuntime(modules + 1, TRUE)
      <4>1. modules + 1 \in Nat /\ modules + 1 > 0
        BY <1>1 DEF TypeOK
      <4>. QED BY <3>2, <4>1, LeaveRuntimeFacts
    <3>. QED BY <2>2, <3>1, <3>2 DEF ExecuteFails
  <2>3. CASE ResumeEnds(s)
    BY <1>1, <2>3, LeaveRuntimeFacts DEF ResumeEnds, TypeOK
  <2>. QED BY <2>1, <2>2, <2>3
<1>5. /\ TranscriptsCounted'
      /\ pending' \in [Sessions -> Pending]
      /\ \A t \in Sessions : pending'[t].http => pending'[t].body \in Bodies
      /\ count' \in Nat /\ bytes' \in Nat
  BY <1>1, <1>3, ClearKeepsCount
<1>6. ModulesAlive' /\ live' \in [Sessions -> Live] /\ modules' \in Nat
      /\ module' \in [Sessions -> Agents \cup {NoAgent}]
  BY <1>3, <1>4, AbortKeepsModules
<1>7. \A t \in Sessions \ {s} :
         pending'[t] = pending[t] /\ live'[t] = live[t] /\ module'[t] = module[t]
  BY <1>1, <1>3 DEF ClearPending, ReleaseModule, TypeOK
<1>8. ClosedHoldsNothing'
  BY <1>2, <1>7, OthersStayClosed
<1>9. TypeOK'
  BY <1>1, <1>2, <1>4, <1>5, <1>6 DEF TypeOK
<1>. QED BY <1>5, <1>6, <1>8, <1>9 DEF SessionInv

\* The commands that suspend a request, for the first time or again.
LEMMA AskKeepsInv ==
    ASSUME SessionInv, NEW s \in open, NEW req \in Requests, NEW agent \in Agents,
           NEW io \in HostIo, NEW l \in Live, l.active,
           SavePending(s, req, io), live' = [live EXCEPT ![s] = l],
           KeepModule(s, agent), LeaveRuntime(modules', TRUE), RunAgent(s, agent),
           open' = open
    PROVE  SessionInv'
<1>1. TypeOK /\ TranscriptsCounted /\ ModulesAlive /\ s \in Sessions
  BY DEF SessionInv, TypeOK
<1>2. /\ TranscriptsCounted'
      /\ pending' \in [Sessions -> Pending]
      /\ \A t \in Sessions : pending'[t].http => pending'[t].body \in Bodies
      /\ count' \in Nat /\ bytes' \in Nat
  BY <1>1, SaveKeepsCount
<1>3. /\ ModulesAlive' /\ live' \in [Sessions -> Live] /\ modules' \in Nat
      /\ module' \in [Sessions -> Agents \cup {NoAgent}]
      /\ wamr' \in BOOLEAN /\ natives' \in BOOLEAN
  BY <1>1, AskKeepsModules
<1>4. \A t \in Sessions \ {s} :
         pending'[t] = pending[t] /\ live'[t] = live[t] /\ module'[t] = module[t]
  BY <1>1 DEF SavePending, KeepModule, TypeOK
<1>5. ClosedHoldsNothing'
  BY <1>4, OthersStayClosed
<1>6. TypeOK'
  BY <1>1, <1>2, <1>3, RunType DEF TypeOK
<1>. QED BY <1>2, <1>3, <1>5, <1>6 DEF SessionInv

\* The commands that leave the suspended request of the session alone.
LEMMA RunKeepsInv ==
    ASSUME SessionInv, NEW s \in Sessions, NEW agent \in Agents,
           NEW commits \in BOOLEAN, NEW app \in BOOLEAN,
           ExecuteReturns(s, agent, commits, app) \/ ExecuteApp(s) \/ Spike(s)
    PROVE  SessionInv'
<1>1. TypeOK /\ TranscriptsCounted /\ ModulesAlive
  BY DEF SessionInv
<1>2. /\ s \in open /\ UNCHANGED <<open, live, module, modules>>
      /\ ClearPending(s) \/ UNCHANGED <<pending, quota>>
      /\ RunAgent(s, agent) \/ ran' = ran
  BY DEF ExecuteReturns, ExecuteApp, Spike, session
<1>3. /\ wamr' \in BOOLEAN /\ natives' \in BOOLEAN
      /\ natives' => wamr'
      /\ modules > 0 /\ wamr /\ natives => wamr' /\ natives'
  <2>1. CASE ExecuteReturns(s, agent, commits, app)
    <3>. DEFINE b == modules > 0
    <3>1. b \in BOOLEAN /\ (modules > 0) = b
      OBVIOUS
    <3>2. wamr' = (app \/ b) /\ natives' = b
      BY <2>1 DEF ExecuteReturns
    <3>. HIDE DEF b
    <3>. QED BY <3>1, <3>2, Zenon
  <2>2. CASE ExecuteApp(s)
    BY <1>1, <2>2 DEF ExecuteApp, TypeOK
  <2>3. CASE Spike(s)
    BY <1>1, <2>3, LeaveRuntimeFacts DEF Spike, TypeOK
  <2>. QED BY <2>1, <2>2, <2>3
<1>4. /\ TranscriptsCounted'
      /\ pending' \in [Sessions -> Pending]
      /\ \A t \in Sessions : pending'[t].http => pending'[t].body \in Bodies
      /\ count' \in Nat /\ bytes' \in Nat
  BY <1>1, <1>2, ClearKeepsCount, SameKeepsCount
<1>5. ModulesAlive' /\ live' \in [Sessions -> Live] /\ modules' \in Nat
      /\ module' \in [Sessions -> Agents \cup {NoAgent}]
  BY <1>2, <1>3, RunKeepsModules
<1>6. \A t \in Sessions \ {s} : pending'[t] = pending[t]
  BY <1>1, <1>2 DEF ClearPending, TypeOK
<1>7. ClosedHoldsNothing'
  BY <1>2, <1>6, OthersStayClosed
<1>8. ran' \in [executed : Agents \cup {NoAgent}, measured : Agents \cup {NoAgent}]
  BY <1>1, <1>2, RunType DEF TypeOK
<1>9. TypeOK'
  BY <1>1, <1>2, <1>3, <1>4, <1>5, <1>8 DEF TypeOK
<1>. QED BY <1>4, <1>5, <1>7, <1>9 DEF SessionInv

----------------------------------------------------------------------------
(* Sessions come and go.                                                   *)

\* A new session holds nothing.
LEMMA OpenKeepsInv ==
    ASSUME SessionInv, NEW s \in Sessions, Open(s)
    PROVE  SessionInv'
<1>1. UNCHANGED <<session, quota, modules, runtime, ran>> /\ open' = open \cup {s}
  BY DEF Open
<1>2. Transcripts' = Transcripts /\ Loaded' = Loaded
  BY <1>1 DEF Transcripts, Loaded, session
<1>. QED BY <1>1, <1>2 DEF SessionInv, TypeOK, TranscriptsCounted, ModulesAlive,
            ClosedHoldsNothing, session, quota, runtime

\* An instance without sessions holds nothing, whatever it held before.
LEMMA EmptyInv ==
    ASSUME TypeOK, open' = {}, ran' = ran,
           \A t \in Sessions : pending'[t] = NoPending /\ live'[t] = NoLive /\ module'[t] = NoAgent,
           pending' \in [Sessions -> Pending], live' \in [Sessions -> Live],
           module' \in [Sessions -> Agents \cup {NoAgent}],
           count' = 0, bytes' = 0, modules' = 0, wamr' = FALSE, natives' = FALSE
    PROVE  SessionInv'
<1>1. Transcripts' = {} /\ Loaded' = {}
  BY DEF Transcripts, Loaded, NoPending
<1>2. Cardinality(Transcripts') = 0 /\ Cardinality(Loaded') = 0
  BY <1>1, FS_EmptySet
<1>3. TypeOK'
  <2>1. \A t \in Sessions : pending'[t].http => pending'[t].body \in Bodies
    BY DEF NoPending
  <2>. QED BY <2>1 DEF TypeOK
<1>4. \A t \in Sessions : ~ live'[t].active
  BY DEF NoLive
<1>. QED BY <1>1, <1>2, <1>3, <1>4, LimitsAssumption
         DEF SessionInv, TranscriptsCounted, ModulesAlive, ClosedHoldsNothing

\* The typed values of an empty session.
LEMMA EmptyTypes == NoPending \in Pending /\ NoLive \in Live
BY LimitsAssumption DEF NoPending, Pending, NoLive, Live

\* A closed session has given everything back; the last one resets the rest.
LEMMA CloseKeepsInv ==
    ASSUME SessionInv, NEW s \in Sessions, Close(s)
    PROVE  SessionInv'
<1>1. TypeOK /\ TranscriptsCounted /\ ModulesAlive /\ ClosedHoldsNothing
  BY DEF SessionInv
<1>2. /\ s \in open /\ open' = open \ {s} /\ ran' = ran
      /\ pending' = [pending EXCEPT ![s] = NoPending]
      /\ live' = [live EXCEPT ![s] = NoLive]
      /\ module' = [module EXCEPT ![s] = NoAgent]
  BY DEF Close
<1>3. CASE open = {s}
  <2>1. count' = 0 /\ bytes' = 0 /\ modules' = 0 /\ wamr' = FALSE /\ natives' = FALSE
    BY <1>3 DEF Close
  <2>2. \A t \in Sessions : pending'[t] = NoPending /\ live'[t] = NoLive /\ module'[t] = NoAgent
    BY <1>1, <1>2, <1>3 DEF ClosedHoldsNothing, TypeOK
  <2>3. /\ pending' \in [Sessions -> Pending] /\ live' \in [Sessions -> Live]
        /\ module' \in [Sessions -> Agents \cup {NoAgent}]
    BY <1>1, <1>2, EmptyTypes DEF TypeOK
  <2>4. open' = {}
    BY <1>2, <1>3
  <2>. QED BY <1>1, <1>2, <2>1, <2>2, <2>3, <2>4, EmptyInv
<1>4. CASE open # {s}
  <2>1. ClearPending(s) /\ ReleaseModule(s) /\ UNCHANGED <<wamr, natives>>
    BY <1>4, <1>2 DEF Close, ClearPending, ReleaseModule, runtime
  <2>2. /\ TranscriptsCounted'
        /\ pending' \in [Sessions -> Pending]
        /\ \A t \in Sessions : pending'[t].http => pending'[t].body \in Bodies
        /\ count' \in Nat /\ bytes' \in Nat
    BY <1>1, <2>1, ClearKeepsCount
  <2>3. /\ wamr' \in BOOLEAN /\ natives' \in BOOLEAN
        /\ natives' => wamr'
        /\ modules > 0 /\ wamr /\ natives => wamr' /\ natives'
    BY <1>1, <2>1 DEF TypeOK, ModulesAlive
  <2>4. ModulesAlive' /\ live' \in [Sessions -> Live] /\ modules' \in Nat
        /\ module' \in [Sessions -> Agents \cup {NoAgent}]
    BY <1>2, <2>1, <2>3, AbortKeepsModules
  <2>5. ClosedHoldsNothing'
    BY <1>1, <1>2 DEF ClosedHoldsNothing, TypeOK
  <2>6. TypeOK'
    BY <1>1, <1>2, <2>2, <2>3, <2>4 DEF TypeOK
  <2>. QED BY <2>2, <2>4, <2>5, <2>6 DEF SessionInv
<1>. QED BY <1>3, <1>4

\* So does a panic.
LEMMA PanicKeepsInv ==
    ASSUME SessionInv, Panic
    PROVE  SessionInv'
<1>1. TypeOK
  BY DEF SessionInv
<1>2. /\ open' = {} /\ ran' = ran
      /\ count' = 0 /\ bytes' = 0 /\ modules' = 0 /\ wamr' = FALSE /\ natives' = FALSE
      /\ pending' = [s \in Sessions |-> NoPending]
      /\ live' = [s \in Sessions |-> NoLive]
      /\ module' = [s \in Sessions |-> NoAgent]
  BY DEF Panic
<1>. QED BY <1>1, <1>2, EmptyTypes, EmptyInv

\* Recording an answer keeps the suspended request well formed.
LEMMA AnsweredLive ==
    ASSUME NEW old \in [active : {TRUE}, req : Requests, agent : Agents,
                        answers : 0..HistoryMax],
           old.answers < HistoryMax
    PROVE  [old EXCEPT !.answers = @ + 1] \in
               [active : {TRUE}, req : Requests, agent : Agents, answers : 0..HistoryMax]
<1>1. old.answers \in 0..HistoryMax
  OBVIOUS
<1>2. old.answers + 1 \in 0..HistoryMax
  BY <1>1, LimitsAssumption
<1>. QED BY <1>2

----------------------------------------------------------------------------
\* Every step of the TA keeps the invariant.
LEMMA NextKeepsInv ==
    ASSUME SessionInv, [Next]_vars
    PROVE  SessionInv'
<1>1. ASSUME NEW s \in Sessions, Command(s)
      PROVE  SessionInv'
  <2>1. CASE \E req \in Requests, io \in HostIo : Probe(s, req, io)
    BY <2>1, ProbeKeepsInv
  <2>2. CASE ProbeFails(s) \/ ResumeProbe(s)
    <3>1. /\ s \in open /\ UNCHANGED <<open, live, module, modules, runtime, ran>>
          /\ ClearPending(s)
      BY <2>2 DEF ProbeFails, ResumeProbe
    <3>2. TypeOK /\ TranscriptsCounted /\ ModulesAlive
      BY DEF SessionInv
    <3>3. /\ TranscriptsCounted'
          /\ pending' \in [Sessions -> Pending]
          /\ \A t \in Sessions : pending'[t].http => pending'[t].body \in Bodies
          /\ count' \in Nat /\ bytes' \in Nat
      BY <3>1, <3>2, ClearKeepsCount
    <3>4. ModulesAlive' /\ live' \in [Sessions -> Live] /\ modules' \in Nat
          /\ module' \in [Sessions -> Agents \cup {NoAgent}]
      BY <3>1, <3>2, RunKeepsModules DEF ModulesAlive, TypeOK, runtime
    <3>5. \A t \in Sessions \ {s} : pending'[t] = pending[t]
      BY <3>1, <3>2 DEF ClearPending, TypeOK
    <3>6. ClosedHoldsNothing'
      BY <3>1, <3>5, OthersStayClosed
    <3>7. TypeOK'
      BY <3>1, <3>2, <3>3, <3>4 DEF TypeOK, runtime
    <3>. QED BY <3>3, <3>4, <3>6, <3>7 DEF SessionInv
  <2>3. CASE \E req \in Requests, io \in HostIo, agent \in Agents :
               ExecuteAsks(s, req, agent, io)
    <3>1. PICK req \in Requests, io \in HostIo, agent \in Agents :
             ExecuteAsks(s, req, agent, io)
      BY <2>3
    <3>. DEFINE l == [active |-> TRUE, req |-> req, agent |-> agent, answers |-> 0]
    <3>2. l \in Live /\ l.active
      BY LimitsAssumption DEF Live
    <3>3. /\ s \in open /\ open' = open /\ SavePending(s, req, io)
          /\ live' = [live EXCEPT ![s] = l]
          /\ KeepModule(s, agent) /\ LeaveRuntime(modules', TRUE) /\ RunAgent(s, agent)
      BY <3>1 DEF ExecuteAsks
    <3>. HIDE DEF l
    <3>. QED BY <3>2, <3>3, AskKeepsInv
  <2>4. CASE \E agent \in Agents, commits, app \in BOOLEAN :
               ExecuteReturns(s, agent, commits, app)
    BY <2>4, RunKeepsInv
  <2>5. CASE ExecuteRejected(s) \/ ExecuteFails(s) \/ ResumeEnds(s)
    BY <2>5, AbortKeepsInv
  <2>6. CASE ExecuteApp(s) \/ Spike(s)
    <3>1. /\ s \in open /\ UNCHANGED <<open, session, quota, modules, ran>>
      BY <2>6 DEF ExecuteApp, Spike
    <3>2. TypeOK /\ TranscriptsCounted /\ ModulesAlive
      BY DEF SessionInv
    <3>3. /\ wamr' \in BOOLEAN /\ natives' \in BOOLEAN
          /\ natives' => wamr'
          /\ modules > 0 /\ wamr /\ natives => wamr' /\ natives'
      <4>1. CASE ExecuteApp(s)
        BY <3>2, <4>1 DEF ExecuteApp, TypeOK
      <4>2. CASE Spike(s)
        BY <3>2, <4>2, LeaveRuntimeFacts DEF Spike, TypeOK
      <4>. QED BY <2>6, <4>1, <4>2
    <3>4. /\ TranscriptsCounted'
          /\ pending' \in [Sessions -> Pending]
          /\ \A t \in Sessions : pending'[t].http => pending'[t].body \in Bodies
          /\ count' \in Nat /\ bytes' \in Nat
      BY <3>1, SameKeepsCount DEF session
    <3>5. ModulesAlive' /\ live' \in [Sessions -> Live] /\ modules' \in Nat
          /\ module' \in [Sessions -> Agents \cup {NoAgent}]
      BY <3>1, <3>3, RunKeepsModules DEF session
    <3>6. ClosedHoldsNothing'
      BY <3>1, OthersStayClosed DEF session
    <3>7. TypeOK'
      BY <3>1, <3>2, <3>3, <3>4, <3>5 DEF TypeOK
    <3>. QED BY <3>4, <3>5, <3>6, <3>7 DEF SessionInv
  <2>7. CASE \E io \in HostIo : ResumeAsks(s, io)
    <3>1. PICK io \in HostIo : ResumeAsks(s, io)
      BY <2>7
    <3>2. /\ TypeOK /\ ModulesAlive
          /\ live[s] \in Live /\ live[s].active /\ live[s].answers < HistoryMax
          /\ pending[s].req = live[s].req
      BY <3>1 DEF SessionInv, ResumeAsks, Resumable, TypeOK
    <3>. DEFINE l == [live[s] EXCEPT !.answers = @ + 1]
                LiveActive == [active : {TRUE}, req : Requests, agent : Agents,
                               answers : 0..HistoryMax]
    <3>31. live[s] \in LiveActive
      <4>1. ~ NoLive.active
        BY DEF NoLive
      <4>. QED BY <3>2, <4>1 DEF Live
    <3>32. l \in LiveActive
      <4>. HIDE DEF l
      <4>1. l = [live[s] EXCEPT !.answers = @ + 1]
        BY DEF l
      <4>. QED BY <3>31, <3>2, <4>1, AnsweredLive
    <3>3. l \in Live /\ l.active
      BY <3>32 DEF Live
    <3>4. /\ s \in open /\ open' = open /\ SavePending(s, live[s].req, io)
          /\ live' = [live EXCEPT ![s] = l]
          /\ KeepModule(s, live[s].agent) /\ LeaveRuntime(modules', TRUE)
          /\ RunAgent(s, live[s].agent)
      BY <3>1 DEF ResumeAsks, Resumable
    <3>5. live[s].req \in Requests /\ live[s].agent \in Agents
      BY <3>31
    <3>. HIDE DEF l
    <3>. QED BY <3>3, <3>4, <3>5, AskKeepsInv
  <2>. QED BY <1>1, <2>1, <2>2, <2>3, <2>4, <2>5, <2>6, <2>7 DEF Command
<1>2. CASE \E s \in Sessions : Open(s) \/ Close(s)
  BY <1>2, OpenKeepsInv, CloseKeepsInv
<1>3. CASE Panic
  BY <1>3, PanicKeepsInv
<1>4. CASE UNCHANGED vars
  <2>1. Transcripts' = Transcripts /\ Loaded' = Loaded
    BY <1>4 DEF vars, session, Transcripts, Loaded
  <2>. QED BY <1>4, <2>1 DEF SessionInv, TypeOK, TranscriptsCounted, ModulesAlive,
              ClosedHoldsNothing, vars, session, quota, runtime
<1>. QED BY <1>1, <1>2, <1>3, <1>4 DEF Next

\* The empty instance satisfies it.
LEMMA InitInv == Init => SessionInv
<1>. SUFFICES ASSUME Init PROVE SessionInv
  OBVIOUS
<1>1. Transcripts = {} /\ Loaded = {}
  BY DEF Init, Transcripts, Loaded, NoPending
<1>2. Cardinality(Transcripts) = 0 /\ Cardinality(Loaded) = 0
  BY <1>1, FS_EmptySet
<1>3. TypeOK
  BY EmptyTypes DEF Init, TypeOK, NoRun, NoPending
<1>4. \A t \in Sessions : ~ live[t].active
  BY DEF Init, NoLive
<1>. QED BY <1>1, <1>2, <1>3, <1>4, LimitsAssumption
         DEF Init, SessionInv, TranscriptsCounted, ModulesAlive, ClosedHoldsNothing

(***************************************************************************)
(* The invariant of the TA's sessions holds in every reachable state, for  *)
(* any number of sessions, any limits and any client.                      *)
(***************************************************************************)
THEOREM SessionsCorrect == Spec => []SessionInv
<1>1. Init => SessionInv
  BY InitInv
<1>2. SessionInv /\ [Next]_vars => SessionInv'
  BY NextKeepsInv
<1>. QED BY <1>1, <1>2, PTL DEF Spec

(***************************************************************************)
(* g_pending_http_transcript_count is exact and within its limit: however  *)
(* requests end, no share of the transcript quota is lost.                 *)
(***************************************************************************)
THEOREM TranscriptsCorrect == Spec => []TranscriptsCounted
<1>1. SessionInv => TranscriptsCounted
  BY DEF SessionInv
<1>. QED BY <1>1, SessionsCorrect, PTL

(***************************************************************************)
(* No Agent module outlives the WAMR runtime it was loaded into, and the   *)
(* counter that decides on wasm_runtime_destroy is exact.                  *)
(***************************************************************************)
THEOREM ModulesCorrect == Spec => []ModulesAlive
<1>1. SessionInv => ModulesAlive
  BY DEF SessionInv
<1>. QED BY <1>1, SessionsCorrect, PTL

----------------------------------------------------------------------------
(***************************************************************************)
(* What a sum over a finite set is.  MapThenSumSet takes the elements in   *)
(* the order that CHOOSE takes them; the code adds and subtracts them in   *)
(* the order of the requests.  Both sums are the same: by induction over   *)
(* the finite subsets, through their least counterexample.                 *)
(***************************************************************************)
\* A set of numbers has a least one.
LEMMA NatMin ==
    ASSUME NEW T \in SUBSET Nat, T # {}
    PROVE  \E n \in T : \A m \in T : n <= m
<1> DEFINE R == {ss \in Nat \X Nat : ss[1] < ss[2]}
<1>1. IsWellFoundedOn(R, Nat)
  BY NatLessThanWellFounded DEF OpToRel
<1> HIDE DEF R
<1>2. PICK n \in T : \A m \in T : ~ (<<m, n>> \in R)
  BY <1>1, WFMin
<1>3. \A m \in T : ~ (m < n)
  BY <1>2 DEF R
<1> QED BY <1>3

\* A set of parts of a finite set has one that contains no other: what induction over
\* finite sets comes to without an operator as a parameter.
LEMMA SmallestSubset ==
    ASSUME NEW S, IsFiniteSet(S), NEW B \in SUBSET (SUBSET S), B # {}
    PROVE  \E s \in B : \A t \in B : t \subseteq s => t = s
<1> DEFINE T == {Cardinality(s) : s \in B}
<1>1. \A s \in B : IsFiniteSet(s) /\ Cardinality(s) \in Nat
  BY FS_Subset, FS_CardinalityType
<1>2. T \in SUBSET Nat /\ T # {}
  BY <1>1
<1> HIDE DEF T
<1>3. PICK n \in T : \A m \in T : n <= m
  BY <1>2, NatMin
<1>4. PICK s \in B : n = Cardinality(s)
  BY <1>3 DEF T
<1>5. ASSUME NEW t \in B, t \subseteq s PROVE t = s
  <2>1. Cardinality(s) <= Cardinality(t)
    BY <1>3, <1>4 DEF T
  <2>2. Cardinality(t) <= Cardinality(s) /\ (Cardinality(s) = Cardinality(t) => s = t)
    BY <1>1, <1>5, FS_Subset
  <2> QED BY <1>1, <2>1, <2>2
<1> QED BY <1>4, <1>5

\* The function that MapThenSumSet defines: the sum of w over every part of S.
Member(s) == CHOOSE x \in s : TRUE

Sums(g, w, S) ==
    g = [s \in SUBSET S |-> IF s = {} THEN 0 ELSE w[Member(s)] + g[s \ {Member(s)}]]

\* The element taken first is an element.
LEMMA MemberIn == ASSUME NEW s, s # {} PROVE Member(s) \in s
BY DEF Member

\* Two functions that compute sums agree.
LEMMA SumsAgree ==
    ASSUME NEW S, IsFiniteSet(S), NEW w, NEW g, NEW h, Sums(g, w, S), Sums(h, w, S)
    PROVE  \A s \in SUBSET S : g[s] = h[s]
<1> DEFINE B == {s \in SUBSET S : g[s] # h[s]}
<1> SUFFICES ASSUME B # {} PROVE FALSE
  OBVIOUS
<1>0. B \in SUBSET (SUBSET S)
  OBVIOUS
<1> HIDE DEF B
<1>1. PICK s \in B : \A t \in B : t \subseteq s => t = s
  BY <1>0, SmallestSubset
<1>2. s \in SUBSET S /\ g[s] # h[s]
  BY <1>1 DEF B
<1>3. s # {}
  BY <1>2 DEF Sums
<1>4. Member(s) \in s /\ s \ {Member(s)} \in SUBSET S
  BY <1>2, <1>3, MemberIn
<1>5. s \ {Member(s)} \notin B
  BY <1>1, <1>4
<1>6. g[s \ {Member(s)}] = h[s \ {Member(s)}]
  BY <1>4, <1>5 DEF B
<1> QED BY <1>2, <1>3, <1>6 DEF Sums

\* A function that computes sums does so for every part of the set.
LEMMA SumsRestrict ==
    ASSUME NEW S, NEW U \in SUBSET S, NEW w, NEW g, Sums(g, w, S)
    PROVE  \E h : Sums(h, w, U) /\ \A s \in SUBSET U : h[s] = g[s]
<1> DEFINE h == [s \in SUBSET U |-> g[s]]
           k == [s \in SUBSET U |->
                   IF s = {} THEN 0 ELSE w[Member(s)] + h[s \ {Member(s)}]]
<1>1. ASSUME NEW s \in SUBSET U PROVE h[s] = k[s]
  <2>1. s \in SUBSET S
    OBVIOUS
  <2>2. g[s] = IF s = {} THEN 0 ELSE w[Member(s)] + g[s \ {Member(s)}]
    BY <2>1 DEF Sums
  <2>3. CASE s = {}
    BY <2>2, <2>3
  <2>4. CASE s # {}
    <3>1. h[s \ {Member(s)}] = g[s \ {Member(s)}]
      OBVIOUS
    <3> QED BY <2>2, <2>4, <3>1
  <2> QED BY <2>3, <2>4
<1>2. h = k
  BY <1>1
<1>3. Sums(h, w, U) /\ \A s \in SUBSET U : h[s] = g[s]
  BY <1>2 DEF Sums
<1> HIDE DEF h
<1> QED BY <1>3

\* There is such a function for every finite set.
LEMMA SumsExist ==
    ASSUME NEW S, IsFiniteSet(S), NEW w, \A x \in S : w[x] \in Nat
    PROVE  \E g \in [SUBSET S -> Nat] : Sums(g, w, S)
<1> DEFINE Summed(U) == \E g \in [SUBSET U -> Nat] : Sums(g, w, U)
           B == {U \in SUBSET S : ~ Summed(U)}
<1>1. B = {}
  <2> SUFFICES ASSUME B # {} PROVE FALSE
    OBVIOUS
  <2>1. B \in SUBSET (SUBSET S)
    OBVIOUS
  <2> HIDE DEF B
  <2>2. PICK U \in B : \A t \in B : t \subseteq U => t = U
    BY <2>1, SmallestSubset
  <2>3. U \in SUBSET S /\ ~ Summed(U)
    BY <2>2 DEF B
  <2>4. \A t \in SUBSET U : t # U => Summed(t)
    BY <2>2, <2>3 DEF B
  <2> DEFINE f(t) == CHOOSE g : g \in [SUBSET t -> Nat] /\ Sums(g, w, t)
             v(t) == f(t)[t]
             k == [s \in SUBSET U |->
                     IF s = {} THEN 0 ELSE w[Member(s)] + v(s \ {Member(s)})]
  <2>5. ASSUME NEW t \in SUBSET U, t # U
        PROVE  f(t) \in [SUBSET t -> Nat] /\ Sums(f(t), w, t)
    <3>1. \E g : g \in [SUBSET t -> Nat] /\ Sums(g, w, t)
      BY <2>4, <2>5
    <3> QED BY <3>1
  <2> HIDE DEF Summed, f
  <2>6. ASSUME NEW t \in SUBSET U, t # U PROVE k[t] = v(t) /\ v(t) \in Nat
    <3>1. f(t) \in [SUBSET t -> Nat] /\ Sums(f(t), w, t)
      BY <2>5, <2>6
    <3>2. t \in SUBSET t /\ v(t) = f(t)[t]
      OBVIOUS
    <3>3. v(t) \in Nat
      BY <3>1, <3>2
    <3>4. f(t)[t] = IF t = {} THEN 0 ELSE w[Member(t)] + f(t)[t \ {Member(t)}]
      BY <3>1, <3>2 DEF Sums
    <3>5. CASE t = {}
      BY <3>3, <3>4, <3>5
    <3>6. CASE t # {}
      <4> DEFINE r == t \ {Member(t)}
      <4>1. Member(t) \in t
        BY <3>6, MemberIn
      <4>2. r \in SUBSET t /\ r \in SUBSET U /\ r # U /\ r \in SUBSET r
        BY <4>1
      <4>3. IsFiniteSet(r)
        BY <2>3, <4>2, FS_Subset
      <4> HIDE DEF r
      <4>4. Sums(f(r), w, r)
        BY <2>5, <4>2
      <4>5. PICK h : Sums(h, w, r) /\ \A s \in SUBSET r : h[s] = f(t)[s]
        BY <3>1, <4>2, SumsRestrict
      <4>6. h[r] = f(r)[r]
        BY <4>2, <4>3, <4>4, <4>5, SumsAgree
      <4>7. f(t)[r] = v(r)
        BY <4>2, <4>5, <4>6 DEF v
      <4> QED BY <3>2, <3>3, <3>4, <3>6, <4>7 DEF r
    <3> QED BY <3>5, <3>6
  <2> HIDE DEF v
  <2>7. ASSUME NEW s \in SUBSET U, s # {}
        PROVE  k[s \ {Member(s)}] = v(s \ {Member(s)}) /\ v(s \ {Member(s)}) \in Nat
    <3>1. Member(s) \in s
      BY <2>7, MemberIn
    <3>2. s \ {Member(s)} \in SUBSET U /\ s \ {Member(s)} # U
      BY <3>1
    <3> QED BY <2>6, <3>2
  <2>8. ASSUME NEW s \in SUBSET U, s # {} PROVE w[Member(s)] \in Nat
    BY <2>8, <2>3, MemberIn
  <2>9. k \in [SUBSET U -> Nat]
    <3>1. ASSUME NEW s \in SUBSET U, s # {}
          PROVE  w[Member(s)] + v(s \ {Member(s)}) \in Nat
      <4>1. w[Member(s)] \in Nat /\ v(s \ {Member(s)}) \in Nat
        BY <2>7, <2>8, <3>1
      <4> QED BY <4>1
    <3> QED BY <3>1
  <2>10. Sums(k, w, U)
    BY <2>7 DEF Sums
  <2> QED BY <2>3, <2>9, <2>10 DEF Summed
<1>2. S \notin B
  BY <1>1
<1> QED BY <1>2

\* What MapThenSumSet returns is what such a function returns.
LEMMA TotalIs ==
    ASSUME NEW S, IsFiniteSet(S), NEW w, \A x \in S : w[x] \in Nat,
           NEW g, Sums(g, w, S),
           NEW U \in SUBSET S, NEW pnd, \A x \in U : Size[pnd[x].body] = w[x]
    PROVE  TotalSize(pnd, U) = g[U]
<1> DEFINE Is(h) == h = [s \in SUBSET U |->
                          IF s = {} THEN 0
                          ELSE Size[pnd[Member(s)].body] + h[s \ {Member(s)}]]
           i == CHOOSE h : Is(h)
<1>1. TotalSize(pnd, U) = i[U]
  BY DEF TotalSize, MapThenSumSet, MapThenFoldSet, Member
<1>2. PICK r : Sums(r, w, U) /\ \A s \in SUBSET U : r[s] = g[s]
  BY SumsRestrict
<1>3. ASSUME NEW h PROVE Is(h) <=> Sums(h, w, U)
  <2>1. \A s \in SUBSET U : s # {} => Size[pnd[Member(s)].body] = w[Member(s)]
    BY MemberIn
  <2> QED BY <2>1 DEF Sums
<1> HIDE DEF Is
<1>4. Is(i)
  BY <1>2, <1>3
<1> HIDE DEF i
<1>5. Sums(i, w, U) /\ IsFiniteSet(U) /\ U \in SUBSET U
  BY <1>3, <1>4, FS_Subset
<1>6. i[U] = r[U]
  BY <1>2, <1>5, SumsAgree
<1> QED BY <1>1, <1>2, <1>6

\* The order of summation does not matter.
LEMMA SumsAny ==
    ASSUME NEW S, IsFiniteSet(S), NEW w, \A x \in S : w[x] \in Nat,
           NEW g \in [SUBSET S -> Nat], Sums(g, w, S)
    PROVE  \A s \in SUBSET S : \A x \in s : g[s] = w[x] + g[s \ {x}]
<1> DEFINE B == {s \in SUBSET S : \E x \in s : g[s] # w[x] + g[s \ {x}]}
<1> SUFFICES ASSUME B # {} PROVE FALSE
  OBVIOUS
<1>1. B \in SUBSET (SUBSET S)
  OBVIOUS
<1> HIDE DEF B
<1>2. PICK s \in B : \A t \in B : t \subseteq s => t = s
  BY <1>1, SmallestSubset
<1>3. PICK x \in s : g[s] # w[x] + g[s \ {x}]
  BY <1>2 DEF B
<1>4. s \in SUBSET S
  BY <1>2 DEF B
<1> DEFINE y == Member(s)
<1>5. y \in s
  BY <1>3, MemberIn
<1> HIDE DEF y
<1>6. g[s] = w[y] + g[s \ {y}]
  BY <1>3, <1>4 DEF Sums, y
<1>7. x # y
  BY <1>3, <1>6
<1>8. /\ s \ {y} \in SUBSET S /\ s \ {y} \notin B /\ x \in s \ {y}
      /\ s \ {x} \in SUBSET S /\ s \ {x} \notin B /\ y \in s \ {x}
  BY <1>2, <1>3, <1>4, <1>5, <1>7
<1>9. /\ g[s \ {y}] = w[x] + g[(s \ {y}) \ {x}]
      /\ g[s \ {x}] = w[y] + g[(s \ {x}) \ {y}]
  BY <1>8 DEF B
<1>10. (s \ {y}) \ {x} = (s \ {x}) \ {y} /\ (s \ {x}) \ {y} \in SUBSET S
  BY <1>4
<1>11. w[x] \in Nat /\ w[y] \in Nat /\ g[(s \ {x}) \ {y}] \in Nat
  BY <1>3, <1>4, <1>5, <1>10
<1>12. g[s] = w[y] + (w[x] + g[(s \ {x}) \ {y}])
  BY <1>6, <1>9, <1>10
<1>13. w[x] + g[s \ {x}] = w[x] + (w[y] + g[(s \ {x}) \ {y}])
  BY <1>9
<1> QED BY <1>3, <1>11, <1>12, <1>13

\* A sum is its term for any one session and the sum for the others.
LEMMA TotalSizeParts ==
    ASSUME NEW S, IsFiniteSet(S), NEW pnd, \A x \in S : Size[pnd[x].body] \in Nat
    PROVE  /\ TotalSize(pnd, S) \in Nat
           /\ \A x \in S : TotalSize(pnd, S) = Size[pnd[x].body] + TotalSize(pnd, S \ {x})
           /\ S = {} => TotalSize(pnd, S) = 0
<1> DEFINE w == [x \in S |-> Size[pnd[x].body]]
<1>1. \A x \in S : w[x] \in Nat /\ Size[pnd[x].body] = w[x]
  OBVIOUS
<1> HIDE DEF w
<1>2. PICK g \in [SUBSET S -> Nat] : Sums(g, w, S)
  BY <1>1, SumsExist
<1>3. \A U \in SUBSET S : TotalSize(pnd, U) = g[U]
  BY <1>1, <1>2, TotalIs
<1>4. \A x \in S : g[S] = w[x] + g[S \ {x}]
  <2>1. S \in SUBSET S
    OBVIOUS
  <2> QED BY <1>1, <1>2, <2>1, SumsAny
<1>5. S = {} => g[S] = 0
  BY <1>2 DEF Sums
<1>6. \A x \in S : S \ {x} \in SUBSET S
  OBVIOUS
<1> QED BY <1>1, <1>2, <1>3, <1>4, <1>5, <1>6

\* It depends on the transcripts counted only.
LEMMA TotalSizeSame ==
    ASSUME NEW S, IsFiniteSet(S), NEW pnd, NEW new,
           \A x \in S : Size[pnd[x].body] \in Nat /\ new[x] = pnd[x]
    PROVE  TotalSize(new, S) = TotalSize(pnd, S)
<1> DEFINE w == [x \in S |-> Size[pnd[x].body]]
<1>1. \A x \in S : w[x] \in Nat
  OBVIOUS
<1>4. \A x \in S : Size[pnd[x].body] = w[x]
  OBVIOUS
<1>5. \A x \in S : Size[new[x].body] = w[x]
  OBVIOUS
<1> HIDE DEF w
<1>2. PICK g \in [SUBSET S -> Nat] : Sums(g, w, S)
  BY <1>1, SumsExist
<1>3. S \in SUBSET S
  OBVIOUS
<1>6. TotalSize(pnd, S) = g[S]
  BY <1>1, <1>2, <1>3, <1>4, TotalIs
<1>7. TotalSize(new, S) = g[S]
  BY <1>1, <1>2, <1>3, <1>5, TotalIs
<1> QED BY <1>6, <1>7

----------------------------------------------------------------------------
(* The bytes of the pending transcripts.                                   *)

BytesInv == SessionInv /\ BytesCounted

\* Every transcript has a size.
LEMMA Sized ==
    ASSUME TypeOK
    PROVE  \A t \in Transcripts : Size[pending[t].body] \in Nat
BY SizeAssumption DEF TypeOK, Transcripts

\* pending_host_io_clear leaves the bytes of the other sessions' transcripts: the
\* subtraction is never cut off at 0.
LEMMA ClearedBytesIsOthers ==
    ASSUME BytesInv, NEW s \in Sessions
    PROVE  /\ ClearedBytes(pending[s]) = TotalSize(pending, Transcripts \ {s})
           /\ ClearedBytes(pending[s]) \in Nat
           /\ ClearedBytes(pending[s]) <= AggregateMax
<1>1. /\ TypeOK /\ bytes = TotalSize(pending, Transcripts) /\ bytes <= AggregateMax
      /\ bytes \in Nat /\ AggregateMax \in Nat
  BY LimitsAssumption DEF BytesInv, SessionInv, BytesCounted, TypeOK
<1>2. IsFiniteSet(Transcripts) /\ IsFiniteSet(Transcripts \ {s})
  BY FiniteHolders, CountOthers
<1>3. \A t \in Transcripts : Size[pending[t].body] \in Nat
  BY <1>1, Sized
<1>4. TotalSize(pending, Transcripts \ {s}) \in Nat
  <2>1. \A t \in Transcripts \ {s} : Size[pending[t].body] \in Nat
    BY <1>3
  <2> QED BY <1>2, <2>1, TotalSizeParts
<1>5. CASE pending[s].http
  <2>1. s \in Transcripts
    BY <1>5 DEF Transcripts
  <2>2. bytes = Size[pending[s].body] + TotalSize(pending, Transcripts \ {s})
    BY <1>1, <1>2, <1>3, <2>1, TotalSizeParts
  <2>3. Size[pending[s].body] \in Nat
    BY <1>3, <2>1
  <2>4. ClearedBytes(pending[s]) = bytes - Size[pending[s].body]
    BY <1>1, <1>4, <1>5, <2>2, <2>3 DEF ClearedBytes
  <2> QED BY <1>1, <1>4, <2>2, <2>3, <2>4
<1>6. CASE ~ pending[s].http
  <2>1. Transcripts \ {s} = Transcripts
    BY <1>6 DEF Transcripts
  <2>2. ClearedBytes(pending[s]) = bytes
    BY <1>6 DEF ClearedBytes
  <2> QED BY <1>1, <2>1, <2>2
<1> QED BY <1>5, <1>6

\* Clearing keeps the bytes exact.
LEMMA ClearKeepsBytes ==
    ASSUME BytesInv, NEW s \in Sessions, ClearPending(s)
    PROVE  BytesCounted'
<1>1. TypeOK
  BY DEF BytesInv, SessionInv
<1>2. Transcripts' = Transcripts \ {s}
  BY <1>1 DEF Transcripts, ClearPending, TypeOK, NoPending
<1>3. IsFiniteSet(Transcripts \ {s})
  BY FiniteHolders, CountOthers
<1>4. \A t \in Transcripts \ {s} :
         Size[pending[t].body] \in Nat /\ pending'[t] = pending[t]
  BY <1>1, Sized DEF ClearPending, TypeOK, Transcripts
<1>5. TotalSize(pending', Transcripts \ {s}) = TotalSize(pending, Transcripts \ {s})
  BY <1>3, <1>4, TotalSizeSame
<1>6. bytes' = ClearedBytes(pending[s])
  BY DEF ClearPending
<1> QED BY <1>2, <1>5, <1>6, ClearedBytesIsOthers DEF BytesCounted

\* Saving a request keeps them exact and within the aggregate limit.
LEMMA SaveKeepsBytes ==
    ASSUME BytesInv, NEW s \in Sessions, NEW req, NEW io \in HostIo,
           SavePending(s, req, io)
    PROVE  BytesCounted'
<1>1. TypeOK /\ io.http \in BOOLEAN /\ io.body \in Bodies
  BY DEF BytesInv, SessionInv, HostIo
<1> DEFINE saved == [active |-> TRUE, http |-> io.http, req |-> req, body |-> io.body]
           Others == Transcripts \ {s}
<1>2. pending' = [pending EXCEPT ![s] = saved]
  BY DEF SavePending
<1>3. pending'[s] = saved /\ saved.http = io.http /\ saved.body = io.body
  BY <1>1, <1>2 DEF TypeOK
<1> HIDE DEF saved
<1>4. IsFiniteSet(Others)
  BY FiniteHolders, CountOthers
<1>5. \A t \in Others : Size[pending[t].body] \in Nat /\ pending'[t] = pending[t]
  BY <1>1, <1>2, Sized DEF TypeOK, Transcripts
<1>6. TotalSize(pending', Others) = TotalSize(pending, Others)
  BY <1>4, <1>5, TotalSizeSame
<1>7. /\ ClearedBytes(pending[s]) = TotalSize(pending, Others)
      /\ ClearedBytes(pending[s]) \in Nat /\ ClearedBytes(pending[s]) <= AggregateMax
  BY ClearedBytesIsOthers
<1>8. Size[io.body] \in Nat /\ AggregateMax \in Nat
  BY <1>1, SizeAssumption, LimitsAssumption
<1>9. CASE io.http
  <2>1. Transcripts' = Others \cup {s}
    BY <1>1, <1>2, <1>3, <1>9 DEF Transcripts, TypeOK
  <2>2. bytes' = ClearedBytes(pending[s]) + Size[io.body]
    BY <1>9 DEF SavePending
  <2>3. bytes' <= AggregateMax
    BY <1>7, <1>8, <1>9, <2>2 DEF SavePending, Fits
  <2>4. IsFiniteSet(Others \cup {s}) /\ (Others \cup {s}) \ {s} = Others
    BY <1>4, FS_AddElement
  <2>5. \A t \in Others \cup {s} : Size[pending'[t].body] \in Nat
    BY <1>3, <1>5, <1>8
  <2>6. TotalSize(pending', Others \cup {s}) =
          Size[pending'[s].body] + TotalSize(pending', (Others \cup {s}) \ {s})
    <3>1. s \in Others \cup {s}
      OBVIOUS
    <3> QED BY <2>4, <2>5, <3>1, TotalSizeParts
  <2>7. bytes' = TotalSize(pending', Transcripts')
    BY <1>3, <1>6, <1>7, <1>8, <2>1, <2>2, <2>4, <2>6
  <2> QED BY <2>3, <2>7 DEF BytesCounted
<1>10. CASE ~ io.http
  <2>1. Transcripts' = Others
    BY <1>1, <1>2, <1>3, <1>10 DEF Transcripts, TypeOK
  <2>2. bytes' = ClearedBytes(pending[s])
    BY <1>7, <1>10 DEF SavePending
  <2> QED BY <1>6, <1>7, <2>1, <2>2 DEF BytesCounted
<1> QED BY <1>1, <1>9, <1>10

\* What a step does to the transcripts.
LEMMA TranscriptSteps ==
    ASSUME SessionInv, [Next]_vars
    PROVE  \/ UNCHANGED <<pending, quota>>
           \/ \E s \in Sessions : ClearPending(s)
           \/ \E s \in Sessions, io \in HostIo : \E req : SavePending(s, req, io)
           \/ bytes' = 0 /\ \A t \in Sessions : pending'[t] = NoPending
<1>1. ASSUME NEW s \in Sessions, Command(s)
      PROVE  \/ UNCHANGED <<pending, quota>>
             \/ ClearPending(s)
             \/ \E io \in HostIo : \E req : SavePending(s, req, io)
  <2>1. CASE \E req \in Requests, io \in HostIo :
               \/ Probe(s, req, io)
               \/ \E agent \in Agents : ExecuteAsks(s, req, agent, io)
    BY <2>1 DEF Probe, ExecuteAsks
  <2>2. CASE \E agent \in Agents, commits, app \in BOOLEAN :
               ExecuteReturns(s, agent, commits, app)
    BY <2>2 DEF ExecuteReturns
  <2>3. CASE ProbeFails(s) \/ ResumeProbe(s)
    BY <2>3 DEF ProbeFails, ResumeProbe
  <2>4. CASE ExecuteRejected(s) \/ ExecuteFails(s) \/ ResumeEnds(s)
    BY <2>4 DEF ExecuteRejected, ExecuteFails, ResumeEnds, Abort
  <2>5. CASE ExecuteApp(s) \/ Spike(s)
    BY <2>5 DEF ExecuteApp, Spike, session
  <2>6. CASE \E io \in HostIo : ResumeAsks(s, io)
    BY <2>6 DEF ResumeAsks
  <2> QED BY <1>1, <2>1, <2>2, <2>3, <2>4, <2>5, <2>6 DEF Command
<1>2. ASSUME NEW s \in Sessions, Close(s)
      PROVE  \/ ClearPending(s)
             \/ bytes' = 0 /\ \A t \in Sessions : pending'[t] = NoPending
  <2>1. CASE open = {s}
    BY <1>2, <2>1 DEF Close, SessionInv, TypeOK, ClosedHoldsNothing
  <2>2. CASE open # {s}
    BY <1>2, <2>2 DEF Close, ClearPending
  <2> QED BY <2>1, <2>2
<1>3. ASSUME NEW s \in Sessions, Open(s) PROVE UNCHANGED <<pending, quota>>
  BY <1>3 DEF Open, session
<1>4. CASE Panic
  BY <1>4 DEF Panic
<1>5. CASE UNCHANGED vars
  BY <1>5 DEF vars, session
<1> QED BY <1>1, <1>2, <1>3, <1>4, <1>5 DEF Next

\* Every step of the TA keeps the bytes exact.
LEMMA NextKeepsBytes ==
    ASSUME BytesInv, [Next]_vars
    PROVE  BytesCounted'
<1>1. SessionInv /\ TypeOK /\ BytesCounted
  BY DEF BytesInv, SessionInv
<1>2. CASE UNCHANGED <<pending, quota>>
  <2>1. Transcripts' = Transcripts /\ pending' = pending /\ bytes' = bytes
    BY <1>2 DEF Transcripts, quota
  <2> QED BY <1>1, <2>1 DEF BytesCounted
<1>3. CASE bytes' = 0 /\ \A t \in Sessions : pending'[t] = NoPending
  <2>1. Transcripts' = {}
    BY <1>3 DEF Transcripts, NoPending
  <2>2. TotalSize(pending', {}) = 0
    BY FS_EmptySet, TotalSizeParts
  <2> QED BY <1>3, <2>1, <2>2, LimitsAssumption DEF BytesCounted
<1>4. CASE \E s \in Sessions : ClearPending(s)
  BY <1>4, ClearKeepsBytes
<1>5. CASE \E s \in Sessions, io \in HostIo : \E req : SavePending(s, req, io)
  BY <1>5, SaveKeepsBytes
<1> QED BY <1>1, <1>2, <1>3, <1>4, <1>5, TranscriptSteps

(***************************************************************************)
(* g_pending_http_transcript_bytes is the size of the transcripts that the *)
(* sessions hold and within the aggregate limit, for any number of         *)
(* sessions, sizes and limits: pending_host_io_clear gives back what       *)
(* save_pending_host_io_request has taken, in whatever order.              *)
(***************************************************************************)
THEOREM BytesCorrect == Spec => []BytesCounted
<1>1. Init => BytesInv
  <2> SUFFICES ASSUME Init PROVE BytesCounted
    BY InitInv DEF BytesInv
  <2>1. Transcripts = {} /\ bytes = 0
    BY DEF Init, Transcripts, NoPending
  <2>2. TotalSize(pending, {}) = 0
    BY FS_EmptySet, TotalSizeParts
  <2> QED BY <2>1, <2>2, LimitsAssumption DEF BytesCounted
<1>2. BytesInv /\ [Next]_vars => BytesInv'
  BY NextKeepsInv, NextKeepsBytes DEF BytesInv
<1>3. BytesInv => BytesCounted
  BY DEF BytesInv
<1> QED BY <1>1, <1>2, <1>3, PTL DEF Spec

----------------------------------------------------------------------------
(* The client: OpteeExecute over any number of sessions.                   *)

\* Nothing of session t changes.
Same(t) ==
    /\ pending'[t] = pending[t] /\ live'[t] = live[t] /\ module'[t] = module[t]
    /\ client'[t] = client[t] /\ (t \in open' <=> t \in open)

\* A client's session goes by its own state.
SessionOk(s) ==
    /\ ExecuteInv(s)
    /\ client[s].at = "host_io" \/ (client[s].at = "invoke" /\ client[s].round > 0)
       => /\ Resumable(s) /\ pending[s].http = client[s].need.http
          /\ pending[s].body = client[s].need.body

LEMMA ClientInvSplit ==
    ClientInv <=> /\ client \in [Sessions -> Client] /\ MeasuredAgentRuns
                  /\ \A s \in Sessions : SessionOk(s)
BY DEF ClientInv, SessionOk, AnswerIsAwaited

LEMMA ClientInvAfter ==
    ASSUME client' \in [Sessions -> Client], MeasuredAgentRuns', \A s \in Sessions : SessionOk(s)'
    PROVE  ClientInv'
BY DEF ClientInv, SessionOk, AnswerIsAwaited

LEMMA SameKeepsSession ==
    ASSUME NEW t \in Sessions, SessionOk(t), Same(t) PROVE SessionOk(t)'
BY DEF SessionOk, Same, ExecuteInv, Resumable, Idle, NoLive

\* The client takes a step of its own session.
LEMMA ClientMoves ==
    ASSUME client \in [Sessions -> Client], NEW s \in Sessions, NEW c \in Client,
           client' = [client EXCEPT ![s] = c]
    PROVE  /\ client' \in [Sessions -> Client] /\ client'[s] = c
           /\ \A t \in Sessions \ {s} : client'[t] = client[t]
OBVIOUS

LEMMA GotoMoves ==
    ASSUME client \in [Sessions -> Client], NEW s \in Sessions,
           NEW at \in {"idle", "invoke", "host_io", "close"}, Goto(s, at)
    PROVE  /\ client' \in [Sessions -> Client] /\ client'[s].at = at
           /\ client'[s].round = client[s].round /\ client'[s].need = client[s].need
           /\ \A t \in Sessions \ {s} : client'[t] = client[t]
<1> DEFINE c == [client[s] EXCEPT !.at = at]
<1>1. c \in Client /\ c.at = at /\ c.round = client[s].round /\ c.need = client[s].need
  BY DEF Client
<1>2. client' = [client EXCEPT ![s] = c]
  BY DEF Goto
<1> HIDE DEF c
<1> QED BY <1>1, <1>2, ClientMoves

\* A command of session s leaves the others alone.
LEMMA OthersSame ==
    ASSUME SessionInv, ClientInv, NEW s \in Sessions,
           \A t \in Sessions \ {s} : client'[t] = client[t],
           \/ Open(s) \/ Close(s) \/ UNCHANGED vars
           \/ ExecuteRejected(s) \/ ExecuteFails(s) \/ ResumeEnds(s)
           \/ \E req \in Requests, agent \in Agents, io \in HostIo : ExecuteAsks(s, req, agent, io)
           \/ \E agent \in Agents, commits, app \in BOOLEAN : ExecuteReturns(s, agent, commits, app)
           \/ \E io \in HostIo : ResumeAsks(s, io)
    PROVE  \A t \in Sessions \ {s} : SessionOk(t)'
<1>1. /\ pending \in [Sessions -> Pending] /\ live \in [Sessions -> Live]
      /\ module \in [Sessions -> Agents \cup {NoAgent}]
  BY DEF SessionInv, TypeOK
<1>2. ASSUME NEW t \in Sessions, t # s PROVE Same(t)
  <2>1. CASE Open(s) \/ UNCHANGED vars
    BY <1>2, <2>1 DEF Same, Open, session, vars
  <2>2. CASE Close(s)
    BY <1>1, <1>2, <2>2 DEF Same, Close
  <2>3. CASE ExecuteRejected(s) \/ ExecuteFails(s) \/ ResumeEnds(s)
    BY <1>1, <1>2, <2>3 DEF Same, ExecuteRejected, ExecuteFails, ResumeEnds, Abort, ClearPending, ReleaseModule
  <2>4. CASE \E req \in Requests, agent \in Agents, io \in HostIo : ExecuteAsks(s, req, agent, io)
    BY <1>1, <1>2, <2>4 DEF Same, ExecuteAsks, SavePending, KeepModule
  <2>5. CASE \E agent \in Agents, commits, app \in BOOLEAN : ExecuteReturns(s, agent, commits, app)
    BY <1>1, <1>2, <2>5 DEF Same, ExecuteReturns, ClearPending
  <2>6. CASE \E io \in HostIo : ResumeAsks(s, io)
    BY <1>1, <1>2, <2>6 DEF Same, ResumeAsks, SavePending, KeepModule
  <2> QED BY <2>1, <2>2, <2>3, <2>4, <2>5, <2>6
<1> QED BY <1>2, ClientInvSplit, SameKeepsSession

\* A new session is empty, and so is one that is closed.
LEMMA OpenCloseClient ==
    ASSUME SessionInv, ClientInv, NEW s \in Sessions,
           OpenSession(s) \/ CloseSession(s) \/ ProcessDies(s)
    PROVE  ClientInv'
<1>1. /\ client \in [Sessions -> Client] /\ MeasuredAgentRuns /\ SessionOk(s)
      /\ pending \in [Sessions -> Pending] /\ live \in [Sessions -> Live]
      /\ module \in [Sessions -> Agents \cup {NoAgent}] /\ ClosedHoldsNothing
  BY ClientInvSplit DEF SessionInv, TypeOK
<1>2. CASE OpenSession(s)
  <2>1. Open(s) /\ Goto(s, "invoke") /\ client[s] = Idle
    BY <1>1, <1>2 DEF OpenSession, SessionOk, ExecuteInv
  <2>2. /\ client' \in [Sessions -> Client] /\ client'[s].at = "invoke" /\ client'[s].round = 0
        /\ \A t \in Sessions \ {s} : client'[t] = client[t]
    BY <1>1, <2>1, GotoMoves DEF Idle
  <2>3. /\ s \in open' /\ live'[s] = NoLive /\ module'[s] = NoAgent /\ ran' = ran
    BY <1>1, <2>1 DEF Open, session, ClosedHoldsNothing
  <2>4. 0 < MaxRounds /\ ~NoLive.active
    BY RoundsAssumption DEF NoLive
  <2>5. SessionOk(s)'
    BY <2>2, <2>3, <2>4 DEF SessionOk, ExecuteInv, NoLive
  <2>6. MeasuredAgentRuns'
    BY <1>1, <2>3 DEF MeasuredAgentRuns
  <2> QED BY <2>1, <2>2, <2>5, <2>6, OthersSame, ClientInvAfter
<1>3. CASE CloseSession(s) \/ ProcessDies(s)
  <2>1. Close(s) /\ client' = [client EXCEPT ![s] = Idle]
    BY <1>3 DEF CloseSession, ProcessDies
  <2>2. Idle \in Client
    BY RoundsAssumption DEF Idle, Client
  <2>3. /\ client' \in [Sessions -> Client] /\ client'[s] = Idle
        /\ \A t \in Sessions \ {s} : client'[t] = client[t]
    BY <1>1, <2>1, <2>2, ClientMoves
  <2>4. s \notin open' /\ live'[s] = NoLive /\ ran' = ran
    BY <1>1, <2>1 DEF Close
  <2>5. SessionOk(s)'
    BY <2>3, <2>4 DEF SessionOk, ExecuteInv, Idle, NoLive
  <2>6. MeasuredAgentRuns'
    BY <1>1, <2>4 DEF MeasuredAgentRuns
  <2> QED BY <2>1, <2>3, <2>5, <2>6, OthersSame, ClientInvAfter
<1> QED BY <1>2, <1>3

\* The host I/O that the client is to perform is the one the session waits for.
LEMMA AsksClient ==
    ASSUME SessionInv, ClientInv, NEW s \in Sessions, InvokeNeedsIo(s)
    PROVE  ClientInv'
<1>1. /\ client \in [Sessions -> Client] /\ MeasuredAgentRuns /\ SessionOk(s) /\ client[s] \in Client
      /\ pending \in [Sessions -> Pending] /\ live \in [Sessions -> Live]
      /\ module \in [Sessions -> Agents \cup {NoAgent}] /\ client[s].at = "invoke"
  BY ClientInvSplit DEF SessionInv, TypeOK, InvokeNeedsIo
<1>2. PICK io \in HostIo :
         /\ IF client[s].round = 0
            THEN \E req \in Requests, agent \in Agents : ExecuteAsks(s, req, agent, io)
            ELSE ResumeAsks(s, io)
         /\ client' = [client EXCEPT ![s].at = "host_io", ![s].need = io]
  BY DEF InvokeNeedsIo
<1> DEFINE c == [client[s] EXCEPT !.at = "host_io", !.need = io]
<1>3. c \in Client /\ c.at = "host_io" /\ c.need = io /\ c.round = client[s].round
  BY <1>1 DEF Client
<1>4. client' = [client EXCEPT ![s] = c]
  BY <1>1, <1>2
<1> HIDE DEF c
<1>5. /\ client' \in [Sessions -> Client] /\ client'[s] = c
      /\ \A t \in Sessions \ {s} : client'[t] = client[t]
  BY <1>1, <1>3, <1>4, ClientMoves
<1>6. client[s].round \in Nat /\ client[s].round < MaxRounds /\ s \in open
  BY <1>1, RoundsAssumption DEF Client, SessionOk, ExecuteInv
<1>7. CASE client[s].round = 0
  <2>1. PICK req \in Requests, agent \in Agents : ExecuteAsks(s, req, agent, io)
    BY <1>2, <1>7
  <2>2. module[s] = NoAgent
    BY <1>1, <1>7 DEF SessionOk, ExecuteInv
  <2>3. /\ pending'[s] = [active |-> TRUE, http |-> io.http, req |-> req, body |-> io.body]
        /\ live'[s] = [active |-> TRUE, req |-> req, agent |-> agent, answers |-> 0]
        /\ module'[s] = agent /\ open' = open
    BY <1>1, <2>1, <2>2 DEF ExecuteAsks, SavePending, KeepModule
  <2>4. MeasuredAgentRuns'
    BY <2>1, <2>2 DEF ExecuteAsks, RunAgent, MeasuredAgentRuns
  <2>5. SessionOk(s)'
    BY <1>3, <1>5, <1>6, <1>7, <2>3 DEF SessionOk, ExecuteInv, Resumable
  <2> QED BY <1>5, <2>1, <2>4, <2>5, OthersSame, ClientInvAfter
<1>8. CASE client[s].round # 0
  <2>1. ResumeAsks(s, io)
    BY <1>2, <1>8
  <2>2. client[s].round > 0
    BY <1>6, <1>8
  <2>3. live[s].active /\ live[s] \in Live
    BY <1>1, <2>1 DEF ResumeAsks, Resumable
  <2>4. live[s] \in [active : {TRUE}, req : Requests, agent : Agents, answers : 0..HistoryMax]
    <3>1. ~NoLive.active
      BY DEF NoLive
    <3> QED BY <2>3, <3>1 DEF Live
  <2>5. /\ live[s].answers + 1 = client[s].round /\ module[s] = live[s].agent
    BY <1>1, <2>2, <2>3 DEF SessionOk, ExecuteInv
  <2>6. module[s] # NoAgent
    BY <2>4, <2>5, NamesAssumption
  <2>7. /\ pending'[s] = [active |-> TRUE, http |-> io.http, req |-> live[s].req, body |-> io.body]
        /\ live'[s] = [live[s] EXCEPT !.answers = @ + 1]
        /\ module'[s] = module[s] /\ open' = open
    BY <1>1, <2>1, <2>6 DEF ResumeAsks, SavePending, KeepModule
  <2>8. /\ live'[s].active /\ live'[s].req = live[s].req /\ live'[s].agent = live[s].agent
        /\ live'[s].answers = client[s].round
    BY <2>3, <2>4, <2>5, <2>7
  <2>9. MeasuredAgentRuns'
    BY <2>1, <2>5, <2>6 DEF ResumeAsks, RunAgent, MeasuredAgentRuns
  <2>10. SessionOk(s)'
    BY <1>3, <1>5, <1>6, <2>5, <2>7, <2>8 DEF SessionOk, ExecuteInv, Resumable
  <2> QED BY <1>5, <2>1, <2>9, <2>10, OthersSame, ClientInvAfter
<1> QED BY <1>7, <1>8

\* The TA answers, or refuses: the client closes the session next.
LEMMA EndsClient ==
    ASSUME SessionInv, ClientInv, NEW s \in Sessions, InvokeEnds(s)
    PROVE  ClientInv'
<1>1. /\ client \in [Sessions -> Client] /\ MeasuredAgentRuns /\ SessionOk(s)
      /\ pending \in [Sessions -> Pending] /\ live \in [Sessions -> Live]
      /\ module \in [Sessions -> Agents \cup {NoAgent}] /\ client[s].at = "invoke"
  BY ClientInvSplit DEF SessionInv, TypeOK, InvokeEnds
<1>2. /\ client' \in [Sessions -> Client] /\ client'[s].at = "close"
      /\ \A t \in Sessions \ {s} : client'[t] = client[t]
  BY <1>1, GotoMoves DEF InvokeEnds
<1>3. s \in open /\ (live[s].active => module[s] = live[s].agent)
  BY <1>1 DEF SessionOk, ExecuteInv
<1>4. ASSUME s \in open', live'[s].active => module'[s] = live'[s].agent PROVE SessionOk(s)'
  BY <1>2, <1>4 DEF SessionOk, ExecuteInv
<1>5. CASE UNCHANGED vars
  <2>1. SessionOk(s)' /\ MeasuredAgentRuns'
    BY <1>1, <1>3, <1>4, <1>5 DEF vars, session, MeasuredAgentRuns
  <2> QED BY <1>2, <1>5, <2>1, OthersSame, ClientInvAfter
<1>6. CASE ExecuteRejected(s) \/ ExecuteFails(s) \/ ResumeEnds(s)
  <2>1. open' = open /\ ran' = ran /\ live'[s] = NoLive
    BY <1>1, <1>6 DEF ExecuteRejected, ExecuteFails, ResumeEnds, Abort
  <2>2. SessionOk(s)' /\ MeasuredAgentRuns'
    BY <1>1, <1>3, <1>4, <2>1 DEF NoLive, MeasuredAgentRuns
  <2> QED BY <1>2, <1>6, <2>2, OthersSame, ClientInvAfter
<1>7. CASE /\ client[s].round = 0
           /\ \E agent \in Agents, commits, app \in BOOLEAN : ExecuteReturns(s, agent, commits, app)
  <2>1. PICK agent \in Agents, commits \in BOOLEAN, app \in BOOLEAN : ExecuteReturns(s, agent, commits, app)
    BY <1>7
  <2>2. module[s] = NoAgent
    BY <1>1, <1>7 DEF SessionOk, ExecuteInv
  <2>3. MeasuredAgentRuns' /\ UNCHANGED <<open, live, module>>
    BY <2>1, <2>2 DEF ExecuteReturns, RunAgent, MeasuredAgentRuns
  <2>4. SessionOk(s)'
    BY <1>3, <1>4, <2>3
  <2> QED BY <1>2, <1>7, <2>3, <2>4, OthersSame, ClientInvAfter
<1> QED BY <1>5, <1>6, <1>7 DEF InvokeEnds

\* The answer is carried to the next round, or the client gives up.
LEMMA PerformClient ==
    ASSUME SessionInv, ClientInv, NEW s \in Sessions, PerformHostIo(s)
    PROVE  ClientInv'
<1>1. /\ client \in [Sessions -> Client] /\ MeasuredAgentRuns /\ SessionOk(s) /\ client[s] \in Client
      /\ client[s].at = "host_io" /\ UNCHANGED vars
  BY ClientInvSplit DEF PerformHostIo
<1>2. /\ s \in open /\ client[s].round \in Nat /\ client[s].round < MaxRounds /\ MaxRounds \in Nat
      /\ live[s].answers = client[s].round /\ (live[s].active => module[s] = live[s].agent)
      /\ Resumable(s) /\ pending[s].http = client[s].need.http /\ pending[s].body = client[s].need.body
  BY <1>1, RoundsAssumption DEF SessionOk, ExecuteInv, Client
<1>3. /\ s \in open' /\ live' = live /\ module' = module /\ pending' = pending /\ open' = open
      /\ MeasuredAgentRuns'
  BY <1>1, <1>2 DEF vars, session, MeasuredAgentRuns
<1>4. CASE Goto(s, "close")
  <2>1. /\ client' \in [Sessions -> Client] /\ client'[s].at = "close"
        /\ \A t \in Sessions \ {s} : client'[t] = client[t]
    BY <1>1, <1>4, GotoMoves
  <2>2. SessionOk(s)'
    BY <1>2, <1>3, <2>1 DEF SessionOk, ExecuteInv
  <2> QED BY <1>1, <1>3, <2>1, <2>2, OthersSame, ClientInvAfter
<1>5. CASE client' = [client EXCEPT
              ![s].at = IF client[s].round + 1 < MaxRounds THEN "invoke" ELSE "close",
              ![s].round = @ + 1]
  <2> DEFINE at == IF client[s].round + 1 < MaxRounds THEN "invoke" ELSE "close"
             c == [client[s] EXCEPT !.at = at, !.round = @ + 1]
  <2>1. client[s].round + 1 \in 0..MaxRounds /\ client[s].round + 1 > 0
    BY <1>2
  <2>2. at \in {"invoke", "close"} /\ (at = "invoke" => client[s].round + 1 < MaxRounds)
    OBVIOUS
  <2> HIDE DEF at
  <2>3. c \in Client /\ c.at = at /\ c.round = client[s].round + 1 /\ c.need = client[s].need
    BY <1>1, <2>1, <2>2 DEF Client
  <2>4. client' = [client EXCEPT ![s] = c]
    BY <1>1, <1>5 DEF at
  <2> HIDE DEF c
  <2>5. /\ client' \in [Sessions -> Client] /\ client'[s] = c
        /\ \A t \in Sessions \ {s} : client'[t] = client[t]
    BY <1>1, <2>3, <2>4, ClientMoves
  <2>6. Resumable(s)'
    BY <1>2, <1>3 DEF Resumable
  <2>7. SessionOk(s)'
    BY <1>2, <1>3, <2>1, <2>2, <2>3, <2>5, <2>6 DEF SessionOk, ExecuteInv
  <2> QED BY <1>1, <1>3, <2>5, <2>7, OthersSame, ClientInvAfter
<1> QED BY <1>4, <1>5 DEF PerformHostIo

LEMMA DiesClient ==
    ASSUME SessionInv, ClientInv, InstanceDies
    PROVE  ClientInv'
<1>1. /\ open' = {} /\ live' = [s \in Sessions |-> NoLive] /\ ran' = ran
      /\ client' = [s \in Sessions |-> Idle]
  BY DEF InstanceDies, Panic
<1>2. Idle \in Client
  BY RoundsAssumption DEF Idle, Client
<1>3. \A s \in Sessions : SessionOk(s)'
  BY <1>1 DEF SessionOk, ExecuteInv, Idle, NoLive
<1>4. MeasuredAgentRuns'
  BY <1>1 DEF ClientInv, MeasuredAgentRuns
<1>5. client' \in [Sessions -> Client]
  BY <1>1, <1>2
<1> QED BY <1>3, <1>4, <1>5, ClientInvAfter

\* The client's steps are steps of the TA, and keep both invariants.
LEMMA ClientNextKeepsInv ==
    ASSUME SessionInv, ClientInv, [ClientNext]_clientVars
    PROVE  SessionInv' /\ ClientInv'
<1>1. [Next]_vars
  BY DEF ClientNext, clientVars, Next, Command, OpenSession, Step, InvokeNeedsIo, InvokeEnds, PerformHostIo,
         CloseSession, ProcessDies, InstanceDies
<1>2. SessionInv'
  BY <1>1, NextKeepsInv
<1>3. CASE UNCHANGED clientVars
  <2>1. \A t \in Sessions : Same(t)
    BY <1>3 DEF Same, clientVars, vars, session
  <2>2. client' \in [Sessions -> Client] /\ MeasuredAgentRuns'
    BY <1>3 DEF clientVars, vars, ClientInv, MeasuredAgentRuns
  <2>3. \A t \in Sessions : SessionOk(t)'
    BY <2>1, ClientInvSplit, SameKeepsSession
  <2> QED BY <1>2, <2>2, <2>3, ClientInvAfter
<1> QED BY <1>2, <1>3, OpenCloseClient, AsksClient, EndsClient, PerformClient, DiesClient
    DEF ClientNext, Step

LEMMA ClientInitInv == ClientInit => SessionInv /\ ClientInv
<1> SUFFICES ASSUME ClientInit PROVE ClientInv
  BY InitInv DEF ClientInit
<1>1. /\ client = [s \in Sessions |-> Idle] /\ live = [s \in Sessions |-> NoLive] /\ open = {}
      /\ ran = NoRun
  BY DEF ClientInit, Init
<1>2. Idle \in Client
  BY RoundsAssumption DEF Idle, Client
<1>3. \A s \in Sessions : SessionOk(s)
  BY <1>1 DEF SessionOk, ExecuteInv, Idle, NoLive
<1>4. MeasuredAgentRuns
  BY <1>1 DEF MeasuredAgentRuns, NoRun
<1> QED BY <1>1, <1>2, <1>3, <1>4, ClientInvSplit

\* The invariant of twep_wr_optee_execute, for any number of clients and rounds: the TA has
\* recorded an answer per round, and a session runs the Agent it was suspended with.
THEOREM ClientCorrect == ClientSpec => [](SessionInv /\ ClientInv)
<1>1. SessionInv /\ ClientInv /\ [ClientNext]_clientVars => (SessionInv /\ ClientInv)'
  BY ClientNextKeepsInv
<1> QED BY ClientInitInv, <1>1, PTL DEF ClientSpec

\* The host I/O a client performs is the one its session of the TA still waits for, whatever
\* the other clients do meanwhile (resume_host_io_result_matches never fails for it).
THEOREM AwaitedCorrect == ClientSpec => []AnswerIsAwaited
<1>1. ClientInv => AnswerIsAwaited
  BY DEF ClientInv
<1> QED BY <1>1, ClientCorrect, PTL

\* The Agent that runs is the one the TA measures, as long as a client has one EXECUTE per
\* session (twep_wr_optee_execute, teep_host_teep_agent_measurement_sha256).
THEOREM MeasuredCorrect == ClientSpec => []MeasuredAgentRuns
<1>1. ClientInv => MeasuredAgentRuns
  BY DEF ClientInv
<1> QED BY <1>1, ClientCorrect, PTL

\* The history of answers never fills up when it holds all rounds but one, as it does in the
\* code, where both are eight.
THEOREM RoomCorrect ==
    ASSUME MaxRounds <= HistoryMax + 1 PROVE ClientSpec => []HistoryHasRoom
<1>1. SessionInv /\ ClientInv => HistoryHasRoom
  <2> SUFFICES ASSUME SessionInv, ClientInv, NEW s \in Sessions, client[s].at = "invoke", client[s].round > 0
               PROVE  live[s].answers < HistoryMax
    BY DEF HistoryHasRoom
  <2>1. /\ client[s].round < MaxRounds /\ live[s].answers + 1 = client[s].round
        /\ client[s].round \in Nat
    BY RoundsAssumption DEF ClientInv, ExecuteInv, Client
  <2>2. live[s].answers \in Nat
    <3>1. live[s] \in Live
      BY DEF SessionInv, TypeOK
    <3>2. NoLive.answers \in Nat /\ \A n \in 0..HistoryMax : n \in Nat
      BY LimitsAssumption DEF NoLive
    <3> QED BY <3>1, <3>2 DEF Live
  <2> QED BY <2>1, <2>2, RoundsAssumption, LimitsAssumption
<1> QED BY <1>1, ClientCorrect, PTL

=============================================================================
