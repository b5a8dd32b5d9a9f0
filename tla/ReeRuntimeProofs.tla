---------------------------- MODULE ReeRuntimeProofs ----------------------------
(***************************************************************************)
(* The state directory of the REE runtime.  For any number of processes:   *)
(* the types.  For one process, any crashes and failed writes, any         *)
(* commands and Updates: the order of the installs; and until something    *)
(* fails, no false alarm, and every recorded Update is installed.          *)
(***************************************************************************)
EXTENDS ReeRuntime, TLAPS

----------------------------------------------------------------------------
(* The shapes of a step.                                                   *)

Rests == {Fresh(cfg) : cfg \in Configs \cup {NoConfig}} \cup {Down}

\* A request is answered, or the process starts, stops or dies: the files stay.
Leaves(p, status) ==
    /\ \E s \in Rests : proc' = [proc EXCEPT ![p] = s]
    /\ answer' = [answer EXCEPT ![p] = status]
    /\ UNCHANGED <<file, tmp, history>>
    /\ faults' \in faults..MaxFaults

\* A request goes on without a write.
Goes(p, s) ==
    /\ proc[p].phase = "none" /\ s.phase = "none"
    /\ proc[p].step \notin Atomic
    /\ proc' = [proc EXCEPT ![p] = s]
    /\ UNCHANGED <<file, tmp, answer, ran, history, faults>>

LEMMA RestTypes ==
    \A s \in Rests : /\ s \in States /\ s.step \in {"down", "idle"} /\ s.phase = "none"
                     /\ s.command = NoCommand /\ s.again = FALSE
<1>1. NoValue \in Values /\ NoUpdate \in Updates \cup {NoUpdate}
  BY DEF Values
<1>2. \A cfg \in Configs \cup {NoConfig} : Fresh(cfg) \in States
  BY <1>1 DEF Fresh, States, Steps
<1>3. Down \in States
  BY <1>1 DEF Down, Fresh, States, Steps
<1>4. \A cfg : /\ Fresh(cfg).step = "idle" /\ Fresh(cfg).phase = "none"
                /\ Fresh(cfg).command = NoCommand /\ Fresh(cfg).again = FALSE
  BY DEF Fresh
<1>5. Down.step = "down" /\ Down.phase = "none" /\ Down.command = NoCommand /\ Down.again = FALSE
  BY DEF Down, Fresh
<1> QED BY <1>2, <1>3, <1>4, <1>5 DEF Rests

LEMMA Moved ==
    ASSUME TypeOK, NEW p \in Processes, NEW s \in States, proc' = [proc EXCEPT ![p] = s]
    PROVE  /\ proc' \in [Processes -> States] /\ proc'[p] = s
           /\ \A q \in Processes \ {p} : proc'[q] = proc[q]
BY DEF TypeOK

\* What another process is about depends on its own state alone, whatever becomes of the
\* name of the file it has open.
LEMMA OthersKeep ==
    ASSUME NEW q \in Processes, PlaceInv(q), exists("catalog") => exists("catalog")',
           \/ proc'[q] = proc[q]
           \/ /\ proc'[q].step = proc[q].step /\ proc'[q].phase = proc[q].phase
              /\ proc'[q].value = proc[q].value /\ proc'[q].command = proc[q].command
              /\ proc'[q].update = proc[q].update /\ proc'[q].config = proc[q].config
    PROVE  PlaceInv(q)'
<1>1. Target(q)' = Target(q) /\ Prepared(q)' = Prepared(q)
  BY DEF Target, Prepared
<1>2. ValueOf(Target(q))' = ValueOf(Target(q))
  BY <1>1 DEF ValueOf
<1> QED BY <1>1, <1>2 DEF PlaceInv

LEMMA LeavesTypes ==
    ASSUME TypeInv, NEW p \in Processes, NEW status \in Status, Leaves(p, status),
           ran' = ran \/ ran' \in [command : Commands \cup {NoCommand}, is : {"whole", "damaged"},
                                    build : Builds \cup {NoBuild}, entry : Builds \cup {NoBuild}]
    PROVE  TypeInv'
<1>1. PICK s \in Rests : proc' = [proc EXCEPT ![p] = s]
  BY DEF Leaves
<1>2. TypeOK /\ \A q \in Processes : PlaceInv(q)
  BY DEF TypeInv
<1>3. /\ proc' \in [Processes -> States] /\ proc'[p] = s
      /\ \A q \in Processes \ {p} : proc'[q] = proc[q]
  BY <1>1, <1>2, RestTypes, Moved
<1>4. TypeOK'
  <2>1. faults' \in 0..MaxFaults
    BY <1>2, UpdatesAssumption DEF Leaves, TypeOK
  <2>2. answer' \in [Processes -> Status]
    BY <1>2 DEF Leaves, TypeOK
  <2> QED BY <1>2, <1>3, <2>1, <2>2 DEF Leaves, TypeOK
<1>5. exists("catalog")' = exists("catalog")
  BY DEF Leaves, exists
<1>6. PlaceInv(p)'
  BY <1>3, RestTypes DEF PlaceInv, Prepared, Exchange
<1> QED BY <1>2, <1>3, <1>4, <1>5, <1>6, OthersKeep DEF TypeInv

LEMMA GoesTypes ==
    ASSUME TypeInv, NEW p \in Processes, NEW s \in States, Goes(p, s),
           s.step \notin {"down", "idle"} => s.command \in Commands,
           s.step \in Exchange => /\ s.update \in Updates /\ s.update.command = s.command
                                  /\ s.update.build \in Signed,
           s.config = proc[p].config,
           \/ Prepared(p) \/ exists("catalog") \/ s.step = "catalog"
           \/ s.step \in {"agent", "launch"} /\ s.config.mode = "attestam-verified"
    PROVE  TypeInv'
<1>1. TypeOK /\ \A q \in Processes : PlaceInv(q)
  BY DEF TypeInv
<1>2. /\ proc' \in [Processes -> States] /\ proc'[p] = s
      /\ \A q \in Processes \ {p} : proc'[q] = proc[q]
  BY <1>1, Moved DEF Goes
<1>3. TypeOK'
  BY <1>1, <1>2 DEF Goes, TypeOK
<1>4. exists("catalog")' = exists("catalog")
  BY DEF Goes, exists
<1>5. PlaceInv(p)'
  BY <1>1, <1>2, <1>4 DEF PlaceInv, Prepared, Exchange, Goes
<1> QED BY <1>1, <1>2, <1>3, <1>4, <1>5, OthersKeep DEF TypeInv

----------------------------------------------------------------------------
(* Which step has which shape.                                             *)

Alarms == {"SECURITY", "WASM_SIGNATURE"}

LEMMA Answering ==
    ASSUME TypeInv, NEW p \in Processes, NEW status \in Status, Answer(p, status),
           UNCHANGED <<file, tmp, history>>, faults' = faults \/ Fault
    PROVE  Leaves(p, status)
<1>1. proc[p].config \in Configs \cup {NoConfig}
  BY DEF TypeInv, TypeOK, States
<1>2. faults \in 0..MaxFaults /\ MaxFaults \in Nat
  BY UpdatesAssumption DEF TypeInv, TypeOK
<1>3. faults' \in faults..MaxFaults
  BY <1>2 DEF Fault
<1> QED BY <1>1, <1>3 DEF Answer, Leaves, Rests

LEMMA WriteErrors ==
    ASSUME TypeInv, NEW p \in Processes, proc[p].phase # "none"
    PROVE  WriteError[proc[p].step] \in Status \ Alarms
<1>1. proc[p].step \in InPlace \cup Atomic
  BY DEF TypeInv, PlaceInv
<1> QED BY <1>1 DEF WriteError, InPlace, Atomic, Status, Alarms

\* The steps that end a request without an alarm, whatever the files hold.
LEMMA Endings ==
    ASSUME TypeInv, NEW p \in Processes,
           \/ RequestRefused(p) \/ NoSource(p) \/ FreshnessUnreadable(p) \/ WriteFails(p)
           \/ RecordFails(p) \/ RenameFails(p) \/ SessionFails(p) \/ RunApp(p)
    PROVE  \E status \in Status \ Alarms : Leaves(p, status)
<1>1. \E status \in Status \ Alarms : Answer(p, status)
  <2>1. CASE RequestRefused(p) \/ NoSource(p) \/ FreshnessUnreadable(p) \/ RecordFails(p)
    BY <2>1 DEF RequestRefused, NoSource, FreshnessUnreadable, RecordFails, Status, Alarms
  <2>2. CASE WriteFails(p) \/ RenameFails(p)
    BY <2>2, WriteErrors DEF WriteFails, RenameFails
  <2>3. CASE SessionFails(p)
    BY <2>3 DEF SessionFails, Status, Alarms
  <2>4. CASE RunApp(p)
    BY <2>4 DEF RunApp, Status, Alarms
  <2> QED BY <2>1, <2>2, <2>3, <2>4
<1>2. UNCHANGED <<file, tmp, history>> /\ (faults' = faults \/ Fault)
  BY DEF RequestRefused, NoSource, FreshnessUnreadable, WriteFails, RecordFails, RenameFails,
         SessionFails, RunApp
<1> QED BY <1>1, <1>2, Answering

LEMMA Restarts ==
    ASSUME TypeInv, NEW p \in Processes, twep_wr_init(p) \/ twep_wr_shutdown(p) \/ Crash(p)
    PROVE  answer[p] \in Status /\ Leaves(p, answer[p])
<1>1. answer \in [Processes -> Status] /\ faults \in 0..MaxFaults /\ MaxFaults \in Nat
  BY UpdatesAssumption DEF TypeInv, TypeOK
<1>2. faults' \in faults..MaxFaults
  BY <1>1 DEF twep_wr_init, twep_wr_shutdown, Crash, Fault
<1>3. \E s \in Rests : proc' = [proc EXCEPT ![p] = s]
  BY DEF twep_wr_init, twep_wr_shutdown, Crash, Rests
<1>4. UNCHANGED <<file, tmp, history, answer>>
  BY DEF twep_wr_init, twep_wr_shutdown, Crash
<1>5. answer' = [answer EXCEPT ![p] = answer[p]]
  BY <1>1, <1>4
<1> QED BY <1>1, <1>2, <1>3, <1>4, <1>5 DEF Leaves

\* A step outside of the writing ones has no file open.
LEMMA NotWriting ==
    ASSUME TypeInv, NEW p \in Processes, proc[p].step \notin InPlace \cup Atomic
    PROVE  proc[p].phase = "none"
BY DEF TypeInv, PlaceInv

LEMMA RequestGoes ==
    ASSUME TypeInv, NEW p \in Processes, Request(p)
    PROVE  \E s \in States :
              /\ Goes(p, s) /\ s.config = proc[p].config /\ s.command \in Commands
              /\ s.step = IF s.config.mode = "attestam-verified" THEN "agent" ELSE "catalog"
              /\ s.again = proc[p].again /\ proc[p].step = "idle"
<1>1. PICK c \in Commands :
        proc' = [proc EXCEPT ![p].command = c,
            ![p].step = IF proc[p].config.mode = "attestam-verified" THEN "agent" ELSE "catalog"]
  BY DEF Request
<1>2. proc \in [Processes -> States] /\ proc[p] \in States /\ proc[p].step = "idle"
  BY DEF TypeInv, TypeOK, Request
<1>3. proc[p].phase = "none"
  BY <1>2, NotWriting DEF InPlace, Atomic
<1> DEFINE s == [proc[p] EXCEPT !.command = c,
            !.step = IF proc[p].config.mode = "attestam-verified" THEN "agent" ELSE "catalog"]
<1>4. proc' = [proc EXCEPT ![p] = s]
  BY <1>1, <1>2
<1>5. s \in States
  BY <1>2, ZenonT(40) DEF States, Steps, InPlace
<1>6. /\ s.config = proc[p].config /\ s.command = c /\ s.again = proc[p].again /\ s.phase = proc[p].phase
      /\ s.step = IF s.config.mode = "attestam-verified" THEN "agent" ELSE "catalog"
  BY <1>2 DEF States
<1>7. Goes(p, s)
  BY <1>2, <1>3, <1>4, <1>6 DEF Goes, Request, Atomic
<1> QED BY <1>2, <1>5, <1>6, <1>7

\* Only the step changes.
Same(p, s) ==
    /\ s.config = proc[p].config /\ s.command = proc[p].command /\ s.again = proc[p].again
    /\ s.entry = proc[p].entry /\ s.update = proc[p].update

LEMMA GotoGoes ==
    ASSUME TypeInv, NEW p \in Processes, NEW st \in Steps, Goto(p, st),
           proc[p].phase = "none", proc[p].step \notin Atomic,
           UNCHANGED <<file, tmp, answer, ran, history, faults>>
    PROVE  \E s \in States : Goes(p, s) /\ s.step = st /\ Same(p, s)
<1> DEFINE s == [proc[p] EXCEPT !.step = st]
<1>1. proc \in [Processes -> States] /\ proc[p] \in States
  BY DEF TypeInv, TypeOK
<1>2. s \in States
  BY <1>1 DEF States
<1>3. proc' = [proc EXCEPT ![p] = s]
  BY <1>1 DEF Goto
<1>4. /\ s.step = st /\ s.config = proc[p].config /\ s.phase = proc[p].phase
      /\ s.command = proc[p].command /\ s.again = proc[p].again
      /\ s.entry = proc[p].entry /\ s.update = proc[p].update
  BY <1>1 DEF States
<1> QED BY <1>2, <1>3, <1>4 DEF Goes, Same

LEMMA SkipCopyGoes ==
    ASSUME TypeInv, NEW p \in Processes, SkipCopy(p)
    PROVE  \E s \in States :
              /\ Goes(p, s) /\ s.step = Following[proc[p].step] /\ s.config = proc[p].config
              /\ s.command = proc[p].command /\ s.again = (proc[p].again \/ proc[p].step = "app")
              /\ s.entry = proc[p].entry
<1> DEFINE s == [proc[p] EXCEPT !.step = Following[@], !.again = (@ \/ proc[p].step = "app")]
<1>1. proc \in [Processes -> States] /\ proc[p] \in States /\ proc[p].step \in InPlace
      /\ proc[p].phase = "none"
  BY DEF TypeInv, TypeOK, SkipCopy
<1>2. Following[proc[p].step] \in Steps
  BY <1>1 DEF Following, InPlace, Atomic, Steps
<1>3. s \in States
  BY <1>1, <1>2 DEF States
<1>4. proc' = [proc EXCEPT ![p] = s]
  BY <1>1 DEF SkipCopy
<1>5. /\ s.step = Following[proc[p].step] /\ s.config = proc[p].config /\ s.phase = proc[p].phase
      /\ s.command = proc[p].command /\ s.again = (proc[p].again \/ proc[p].step = "app")
      /\ s.entry = proc[p].entry
  BY <1>1 DEF States
<1>6. Goes(p, s)
  BY <1>1, <1>4, <1>5 DEF Goes, SkipCopy, InPlace, Atomic
<1> QED BY <1>3, <1>5, <1>6

LEMMA UpdateGoes ==
    ASSUME TypeInv, NEW p \in Processes, UpdateAccepted(p)
    PROVE  \E u \in Updates, s \in States :
              /\ u.command = proc[p].command /\ u.build \in Signed /\ dev_sequence_is_fresh(u)
              /\ Goes(p, s) /\ s.step = "post" /\ s.update = u /\ s.config = proc[p].config
              /\ s.command = proc[p].command /\ s.again = proc[p].again
<1>1. PICK u \in Updates :
        /\ u.command = proc[p].command /\ u.build \in Signed /\ dev_sequence_is_fresh(u)
        /\ proc' = [proc EXCEPT ![p].step = "post", ![p].update = u]
  BY DEF UpdateAccepted
<1> DEFINE s == [proc[p] EXCEPT !.step = "post", !.update = u]
<1>2. proc \in [Processes -> States] /\ proc[p] \in States /\ proc[p].step = "session"
  BY DEF TypeInv, TypeOK, UpdateAccepted
<1>3. proc[p].phase = "none"
  BY <1>2, NotWriting DEF InPlace, Atomic
<1>4. s \in States
  BY <1>2 DEF States, Steps
<1>5. proc' = [proc EXCEPT ![p] = s]
  BY <1>1, <1>2
<1>6. /\ s.step = "post" /\ s.update = u /\ s.config = proc[p].config /\ s.phase = proc[p].phase
      /\ s.command = proc[p].command /\ s.again = proc[p].again
  BY <1>2 DEF States
<1>7. Goes(p, s)
  BY <1>2, <1>3, <1>5, <1>6 DEF Goes, UpdateAccepted, Atomic
<1> QED BY <1>1, <1>4, <1>6, <1>7

\* resolve_catalog finds an entry, or answers.
LEMMA ResolveGoes ==
    ASSUME TypeInv, NEW p \in Processes, resolve_catalog(p)
    PROVE  \/ \E status \in Status \ Alarms : Leaves(p, status)
           \/ \E s \in States :
                 /\ Goes(p, s) /\ s.step = "verify" /\ s.config = proc[p].config
                 /\ s.command = proc[p].command /\ s.again = proc[p].again
                 /\ s.entry = file["catalog"].value[proc[p].command] /\ s.entry # NoBuild
<1> DEFINE entry == file["catalog"].value[proc[p].command]
           s == [proc[p] EXCEPT !.step = "verify", !.entry = entry]
<1>1. /\ proc \in [Processes -> States] /\ proc[p] \in States /\ proc[p].step = "resolve"
      /\ UNCHANGED <<file, tmp, ran, history, faults>>
  BY DEF TypeInv, TypeOK, resolve_catalog
<1>2. proc[p].phase = "none"
  BY <1>1, NotWriting DEF InPlace, Atomic
<1>3. CASE \E status \in {"CATALOG", "TEEP"} : Answer(p, status)
  BY <1>1, <1>3, Answering DEF Status, Alarms
<1>4. CASE entry # NoBuild /\ proc' = [proc EXCEPT ![p].step = "verify", ![p].entry = entry]
           /\ UNCHANGED answer
  <2>1. proc[p].command \in Commands /\ exists("catalog")
    BY <1>1 DEF TypeInv, PlaceInv, Prepared
  <2>2. file["catalog"] \in Content("catalog")
    BY DEF TypeInv, TypeOK, Files
  <2>3. file["catalog"].value \in Catalogs
    BY <2>1, <2>2 DEF Content, ValueOf, exists, NoFile
  <2>4. entry \in Builds \cup {NoBuild}
    BY <2>1, <2>3 DEF Catalogs
  <2> HIDE DEF entry
  <2>5. s \in States
    BY <1>1, <2>4 DEF States, Steps
  <2>6. proc' = [proc EXCEPT ![p] = s]
    BY <1>1, <1>4
  <2>7. /\ s.step = "verify" /\ s.entry = entry /\ s.config = proc[p].config
        /\ s.phase = proc[p].phase /\ s.command = proc[p].command /\ s.again = proc[p].again
    BY <1>1 DEF States
  <2>8. Goes(p, s)
    BY <1>1, <1>2, <1>4, <2>6, <2>7 DEF Goes, Atomic
  <2> QED BY <1>4, <2>5, <2>7, <2>8 DEF entry
<1> QED BY <1>3, <1>4 DEF resolve_catalog

LEMMA LaunchGoes ==
    ASSUME TypeInv, NEW p \in Processes, Launch(p)
    PROVE  \/ \E status \in Status :
                 Leaves(p, status) /\ (status \in Alarms => file["agent"] # Whole(AgentImage))
           \/ /\ proc[p].config.mode # "attestam-verified"
              /\ \E s \in States : Goes(p, s) /\ s.step \in {"session", "resolve"} /\ Same(p, s)
<1>1. proc[p].step = "launch" /\ UNCHANGED <<file, tmp, ran, history, faults>>
  BY DEF Launch
<1>2. proc[p].phase = "none"
  BY <1>1, NotWriting DEF InPlace, Atomic
<1>3. CASE file["agent"] # Whole(AgentImage)
  <2>1. PICK status \in {"TEEP", "WASM_SIGNATURE"} : Answer(p, status)
    BY <1>3 DEF Launch
  <2>2. status \in Status
    BY DEF Status
  <2> QED BY <1>1, <1>3, <2>1, <2>2, Answering
<1>4. CASE file["agent"] = Whole(AgentImage) /\ proc[p].config.mode = "attestam-verified"
  <2>1. Answer(p, "TEEP") /\ "TEEP" \in Status \ Alarms
    BY <1>4 DEF Launch, Status, Alarms
  <2> QED BY <1>1, <2>1, Answering
<1>5. CASE file["agent"] = Whole(AgentImage) /\ proc[p].config.mode # "attestam-verified"
  <2>1. PICK st \in {"session", "resolve"} : Goto(p, st) /\ UNCHANGED answer
    BY <1>5 DEF Launch
  <2>2. st \in Steps
    BY DEF Steps
  <2> QED BY <1>1, <1>2, <1>5, <2>1, <2>2, GotoGoes DEF Atomic
<1> QED BY <1>3, <1>4, <1>5

LEMMA SuccessGoes ==
    ASSUME TypeInv, NEW p \in Processes, SuccessAnswered(p)
    PROVE  \/ \E status \in Status \ Alarms : Leaves(p, status)
           \/ \E s \in States : Goes(p, s) /\ s.step = "fresh" /\ Same(p, s)
<1>1. proc[p].step = "post" /\ UNCHANGED <<file, tmp, ran, history, faults>>
  BY DEF SuccessAnswered
<1>2. proc[p].phase = "none"
  BY <1>1, NotWriting DEF InPlace, Atomic
<1>3. CASE \E status \in {"TEEP", "TEEP_NETWORK"} : Answer(p, status)
  BY <1>1, <1>3, Answering DEF Status, Alarms
<1>4. CASE Goto(p, "fresh") /\ UNCHANGED answer
  <2>1. "fresh" \in Steps
    BY DEF Steps, Atomic
  <2> QED BY <1>1, <1>2, <1>4, <2>1, GotoGoes DEF Atomic
<1> QED BY <1>3, <1>4 DEF SuccessAnswered

LEMMA VerifyGoes ==
    ASSUME TypeInv, NEW p \in Processes, verify_app_file(p)
    PROVE  \/ /\ file[proc[p].command] \notin {NoFile, Whole(proc[p].entry)}
              /\ \E status \in Status : Leaves(p, status)
           \/ /\ file[proc[p].command] \in {NoFile, Whole(proc[p].entry)}
              /\ \E s \in States : /\ Goes(p, s) /\ Same(p, s)
                                   /\ s.step = IF proc[p].again THEN "load" ELSE "exists"
<1>1. proc[p].step = "verify" /\ UNCHANGED <<file, tmp, ran, history, faults>>
  BY DEF verify_app_file
<1>2. proc[p].phase = "none"
  BY <1>1, NotWriting DEF InPlace, Atomic
<1>3. CASE file[proc[p].command] \notin {NoFile, Whole(proc[p].entry)}
  <2>1. PICK status \in {"SECURITY", "TEEP"} : Answer(p, status)
    BY <1>3 DEF verify_app_file
  <2>2. status \in Status
    BY DEF Status
  <2> QED BY <1>1, <1>3, <2>1, <2>2, Answering
<1>4. CASE file[proc[p].command] \in {NoFile, Whole(proc[p].entry)}
  <2>1. Goto(p, IF proc[p].again THEN "load" ELSE "exists") /\ UNCHANGED answer
    BY <1>4 DEF verify_app_file
  <2>2. (IF proc[p].again THEN "load" ELSE "exists") \in Steps
    BY DEF Steps
  <2> QED BY <1>1, <1>2, <1>4, <2>1, <2>2, GotoGoes DEF Atomic
<1> QED BY <1>3, <1>4

LEMMA EmptyGoes ==
    ASSUME TypeInv, NEW p \in Processes, SessionEmpty(p)
    PROVE  \E s \in States : Goes(p, s) /\ s.step = "resolve" /\ Same(p, s)
<1>1. proc[p].step = "session" /\ Goto(p, "resolve")
      /\ UNCHANGED <<file, tmp, answer, ran, history, faults>>
  BY DEF SessionEmpty
<1>2. proc[p].phase = "none" /\ "resolve" \in Steps
  BY <1>1, NotWriting DEF InPlace, Atomic, Steps
<1> QED BY <1>1, <1>2, GotoGoes DEF Atomic

LEMMA ExistsGoes ==
    ASSUME TypeInv, NEW p \in Processes, AppExists(p)
    PROVE  \E s \in States : /\ Goes(p, s) /\ Same(p, s)
                             /\ s.step = IF exists(proc[p].command) THEN "load" ELSE "app"
<1>1. proc[p].step = "exists" /\ Goto(p, IF exists(proc[p].command) THEN "load" ELSE "app")
      /\ UNCHANGED <<file, tmp, answer, ran, history, faults>>
  BY DEF AppExists
<1>2. proc[p].phase = "none" /\ (IF exists(proc[p].command) THEN "load" ELSE "app") \in Steps
  BY <1>1, NotWriting DEF InPlace, Atomic, Steps
<1> QED BY <1>1, <1>2, GotoGoes DEF Atomic

LEMMA RefusedLeaves ==
    ASSUME TypeInv, NEW p \in Processes, AppRefused(p)
    PROVE  /\ ~Executable(p, file[proc[p].command])
           /\ \E status \in Status : Leaves(p, status)
<1>1. ~Executable(p, file[proc[p].command]) /\ UNCHANGED <<file, tmp, ran, history, faults>>
  BY DEF AppRefused
<1>2. \E status \in Status : Answer(p, status)
  BY DEF AppRefused, Status
<1> QED BY <1>1, <1>2, Answering

----------------------------------------------------------------------------
(* Types, for any number of processes.                                     *)

\* The steps that leave the files alone.
LEMMA QuietTypes ==
    ASSUME TypeInv, NEW p \in Processes,
           \/ twep_wr_init(p) \/ twep_wr_shutdown(p) \/ RequestRefused(p) \/ Request(p)
           \/ SkipCopy(p) \/ NoSource(p) \/ FreshnessUnreadable(p) \/ RenameFails(p)
           \/ Agent(p) \/ AppExists(p) \/ RunApp(p) \/ AppRefused(p)
           \/ WriteFails(p) \/ RecordFails(p) \/ Crash(p)
    PROVE  TypeInv'
<1>0. PlaceInv(p) /\ proc[p] \in States
  BY DEF TypeInv, TypeOK
<1>1. CASE RunApp(p)
  <2>1. /\ file[proc[p].command] = Whole(proc[p].entry)
        /\ ran' = [command |-> proc[p].command, is |-> file[proc[p].command].is,
                   build |-> file[proc[p].command].value, entry |-> proc[p].entry]
    BY <1>1 DEF RunApp, Executable
  <2>2. ran' \in [command : Commands \cup {NoCommand}, is : {"whole", "damaged"},
                  build : Builds \cup {NoBuild}, entry : Builds \cup {NoBuild}]
    BY <1>0, <2>1 DEF Whole, States
  <2> QED BY <1>1, <2>2, Endings, LeavesTypes
<1>2. CASE \/ RequestRefused(p) \/ NoSource(p) \/ FreshnessUnreadable(p) \/ WriteFails(p)
           \/ RecordFails(p) \/ RenameFails(p) \/ SessionFails(p)
  <2>1. ran' = ran
    BY <1>2 DEF RequestRefused, NoSource, FreshnessUnreadable, WriteFails, RecordFails, RenameFails,
                SessionFails
  <2> QED BY <1>2, <2>1, Endings, LeavesTypes
<1>3. CASE twep_wr_init(p) \/ twep_wr_shutdown(p) \/ Crash(p)
  <2>1. ran' = ran
    BY <1>3 DEF twep_wr_init, twep_wr_shutdown, Crash
  <2> QED BY <1>3, <2>1, Restarts, LeavesTypes
<1>4. CASE Request(p)
  <2>1. PICK s \in States :
              /\ Goes(p, s) /\ s.config = proc[p].config /\ s.command \in Commands
              /\ s.step = IF s.config.mode = "attestam-verified" THEN "agent" ELSE "catalog"
    BY <1>4, RequestGoes
  <2> QED BY <2>1, GoesTypes DEF Exchange
<1>5. CASE SkipCopy(p)
  <2>1. PICK s \in States :
              /\ Goes(p, s) /\ s.step = Following[proc[p].step] /\ s.config = proc[p].config
              /\ s.command = proc[p].command
    BY <1>5, SkipCopyGoes
  <2>2. proc[p].step \in InPlace /\ proc[p].command \in Commands
    BY <1>0, <1>5 DEF SkipCopy, PlaceInv, InPlace
  <2>3. s.step \in {"json", "override", "agent", "launch"}
    BY <2>1, <2>2 DEF Following, InPlace
  <2>4. \/ Prepared(p) \/ exists("catalog")
        \/ s.step \in {"agent", "launch"} /\ s.config.mode = "attestam-verified"
    <3>1. CASE proc[p].step = "catalog"
      BY <1>5, <3>1 DEF SkipCopy, Target
    <3>2. CASE proc[p].step = "agent"
      <4>1. s.step = "launch" /\ s.config = proc[p].config
        BY <2>1, <3>2 DEF Following
      <4> QED BY <3>2, <4>1 DEF Prepared
    <3>3. CASE proc[p].step \in {"json", "override", "app"}
      BY <3>3 DEF Prepared
    <3> QED BY <2>2, <3>1, <3>2, <3>3 DEF InPlace
  <2> QED BY <2>1, <2>2, <2>3, <2>4, GoesTypes DEF Exchange
<1>6. CASE Launch(p)
  <2>1. ran' = ran /\ proc[p].step = "launch"
    BY <1>6 DEF Launch
  <2>2. CASE \E status \in Status : Leaves(p, status)
    BY <2>1, <2>2, LeavesTypes
  <2>3. ASSUME proc[p].config.mode # "attestam-verified", NEW s \in States, Goes(p, s),
               s.step \in {"session", "resolve"}, Same(p, s)
        PROVE  TypeInv'
    BY <1>0, <2>1, <2>3, GoesTypes DEF Same, PlaceInv, Prepared, Exchange
  <2> QED BY <1>6, <2>2, <2>3, LaunchGoes
<1>7. CASE SessionEmpty(p)
  <2>1. proc[p].step = "session"
    BY <1>7 DEF SessionEmpty
  <2> QED BY <1>0, <1>7, <2>1, EmptyGoes, GoesTypes DEF Same, PlaceInv, Prepared, Exchange
<1>8. CASE UpdateAccepted(p)
  <2>1. proc[p].step = "session"
    BY <1>8 DEF UpdateAccepted
  <2>2. PICK u \in Updates, s \in States :
              /\ u.command = proc[p].command /\ u.build \in Signed
              /\ Goes(p, s) /\ s.step = "post" /\ s.update = u /\ s.config = proc[p].config
              /\ s.command = proc[p].command
    BY <1>8, UpdateGoes
  <2> QED BY <1>0, <2>1, <2>2, GoesTypes DEF PlaceInv, Prepared
<1>9. CASE SuccessAnswered(p)
  <2>1. ran' = ran /\ proc[p].step = "post"
    BY <1>9 DEF SuccessAnswered
  <2>2. CASE \E status \in Status : Leaves(p, status)
    BY <2>1, <2>2, LeavesTypes
  <2>3. ASSUME NEW s \in States, Goes(p, s), s.step = "fresh", Same(p, s) PROVE TypeInv'
    BY <1>0, <2>1, <2>3, GoesTypes DEF Same, PlaceInv, Prepared, Exchange
  <2> QED BY <1>9, <2>2, <2>3, SuccessGoes
<1>10. CASE resolve_catalog(p)
  <2>1. ran' = ran /\ proc[p].step = "resolve"
    BY <1>10 DEF resolve_catalog
  <2>2. CASE \E status \in Status : Leaves(p, status)
    BY <2>1, <2>2, LeavesTypes
  <2>3. ASSUME NEW s \in States, Goes(p, s), s.step = "verify", s.config = proc[p].config,
               s.command = proc[p].command
        PROVE  TypeInv'
    BY <1>0, <2>1, <2>3, GoesTypes DEF PlaceInv, Prepared, Exchange
  <2> QED BY <1>10, <2>2, <2>3, ResolveGoes
<1>11. CASE verify_app_file(p)
  <2>1. ran' = ran /\ proc[p].step = "verify"
    BY <1>11 DEF verify_app_file
  <2>2. CASE \E status \in Status : Leaves(p, status)
    BY <2>1, <2>2, LeavesTypes
  <2>3. ASSUME NEW s \in States, Goes(p, s), s.step \in {"load", "exists"}, Same(p, s) PROVE TypeInv'
    BY <1>0, <2>1, <2>3, GoesTypes DEF Same, PlaceInv, Prepared, Exchange
  <2> QED BY <1>11, <2>2, <2>3, VerifyGoes
<1>12. CASE AppExists(p)
  <2>1. proc[p].step = "exists"
    BY <1>12 DEF AppExists
  <2>2. ASSUME NEW s \in States, Goes(p, s), s.step \in {"load", "app"}, Same(p, s) PROVE TypeInv'
    BY <1>0, <2>1, <2>2, GoesTypes DEF Same, PlaceInv, Prepared, Exchange
  <2> QED BY <1>12, <2>2, ExistsGoes
<1>13. CASE AppRefused(p)
  <2>1. ran' = ran
    BY <1>13 DEF AppRefused
  <2> QED BY <1>13, <2>1, RefusedLeaves, LeavesTypes
<1> QED BY <1>1, <1>2, <1>3, <1>4, <1>5, <1>6, <1>7, <1>8, <1>9, <1>10, <1>11, <1>12, <1>13 DEF Agent

LEMMA ValueTypes ==
    /\ ValueOf("catalog") = Catalogs /\ ValueOf("json") = {JsonCatalog}
    /\ ValueOf("agent") = {AgentImage} /\ ValueOf("fresh") = Freshness
    /\ \A c \in Commands : ValueOf(c) = Builds
    /\ \A f \in Files : ValueOf(f) \subseteq Values
<1>1. /\ ValueOf("catalog") = Catalogs /\ ValueOf("json") = {JsonCatalog}
      /\ ValueOf("agent") = {AgentImage} /\ ValueOf("fresh") = Freshness
  BY DEF ValueOf
<1>2. \A c \in Commands : ValueOf(c) = Builds
  BY NoneAssumption DEF ValueOf
<1> QED BY <1>1, <1>2 DEF Files, Values

LEMMA Targets ==
    ASSUME TypeInv, NEW p \in Processes
    PROVE  /\ proc[p].step \in {"catalog", "override", "promote"} => Target(p) = "catalog"
           /\ proc[p].step = "json" => Target(p) = "json"
           /\ proc[p].step = "agent" => Target(p) = "agent"
           /\ proc[p].step = "fresh" => Target(p) = "fresh"
           /\ proc[p].step \in {"app", "payload"} =>
                 Target(p) = proc[p].command /\ proc[p].command \in Commands
           /\ proc[p].step \in InPlace \cup Atomic => Target(p) \in Files
<1>1. proc[p].step \in {"app", "payload"} => proc[p].command \in Commands
  BY DEF TypeInv, PlaceInv
<1> QED BY <1>1 DEF Target, Files, InPlace, Atomic

LEMMA CopySources ==
    ASSUME TypeInv, NEW p \in Processes, proc[p].step \in InPlace,
           CopySource(p) \notin {NoValue, NoBuild}
    PROVE  CopySource(p) \in ValueOf(Target(p))
<1>1. CASE proc[p].step = "catalog"
  BY <1>1, Targets, ValueTypes, BuildAssumption DEF CopySource
<1>2. CASE proc[p].step = "json"
  BY <1>2, Targets, ValueTypes DEF CopySource
<1>3. CASE proc[p].step = "override"
  BY <1>3, Targets, ValueTypes, BuildAssumption DEF CopySource
<1>4. CASE proc[p].step = "agent"
  BY <1>4, Targets, ValueTypes DEF CopySource
<1>5. CASE proc[p].step = "app"
  <2>1. CopySource(p) = BuildApps[proc[p].command]
    BY <1>5 DEF CopySource
  <2>2. BuildApps \in [Commands -> Builds \cup {NoBuild}]
    BY BuildAssumption DEF Catalogs
  <2>3. CopySource(p) \in Builds
    BY <1>5, <2>1, <2>2, Targets
  <2> QED BY <1>5, <2>3, Targets, ValueTypes
<1> QED BY <1>1, <1>2, <1>3, <1>4, <1>5 DEF InPlace

LEMMA AtomicValues ==
    ASSUME TypeInv, NEW p \in Processes, proc[p].step \in Atomic
    PROVE  AtomicValue(p) \in ValueOf(Target(p))
<1>1. /\ proc[p].update \in Updates /\ proc[p].update.command \in Commands
      /\ proc[p].update.sequence \in 0..MaxSequence /\ proc[p].update.build \in Builds
  <2>1. proc[p].update \in Updates
    BY DEF TypeInv, PlaceInv, Atomic, Exchange
  <2>2. proc[p].update \in [command : Commands, sequence : 1..MaxSequence, build : Builds]
    BY <2>1, UpdatesAssumption
  <2>3. \A n \in 1..MaxSequence : n \in 0..MaxSequence
    BY UpdatesAssumption
  <2> QED BY <2>1, <2>2, <2>3
<1>2. CASE proc[p].step = "fresh"
  <2> DEFINE old == IF exists("fresh") THEN file["fresh"].value ELSE [c \in Commands |-> 0]
  <2>1. file["fresh"] \in Content("fresh")
    BY DEF TypeInv, TypeOK, Files
  <2>2. exists("fresh") => file["fresh"].value \in Freshness
    BY <2>1, ValueTypes DEF Content, exists, NoFile
  <2>3. 0 \in 0..MaxSequence
    BY UpdatesAssumption
  <2>4. old \in [Commands -> 0..MaxSequence]
    BY <2>2, <2>3 DEF Freshness
  <2>5. AtomicValue(p) = [old EXCEPT ![proc[p].update.command] = proc[p].update.sequence]
    BY <1>2 DEF AtomicValue
  <2> HIDE DEF old
  <2>6. AtomicValue(p) \in Freshness
    BY <1>1, <2>4, <2>5 DEF Freshness
  <2> QED BY <1>2, <2>6, Targets, ValueTypes
<1>3. CASE proc[p].step = "payload"
  BY <1>1, <1>3, Targets, ValueTypes DEF AtomicValue
<1>4. CASE proc[p].step = "promote"
  <2>1. AtomicValue(p) = [c \in Commands |-> IF c = proc[p].update.command
                                             THEN proc[p].update.build ELSE NoBuild]
    BY <1>4 DEF AtomicValue
  <2>2. AtomicValue(p) \in Catalogs
    BY <1>1, <2>1 DEF Catalogs
  <2> QED BY <1>4, <2>2, Targets, ValueTypes
<1> QED BY <1>2, <1>3, <1>4 DEF Atomic

LEMMA Contents ==
    ASSUME NEW f \in Files, NEW v \in ValueOf(f)
    PROVE  /\ Whole(v) \in Content(f) /\ Damaged(v) \in Content(f) /\ NoFile \in Content(f)
           /\ Whole(v).is = "whole" /\ Whole(v).value = v
           /\ Damaged(v).is = "damaged" /\ Damaged(v).value = v
BY DEF Whole, Damaged, Content

\* A write changes the content of one file, or of one temporary file, within its type.
LEMMA FileTypes ==
    ASSUME TypeOK, NEW f \in Files, NEW w \in Content(f), w.is # "absent",
           \/ file' = [file EXCEPT ![f] = w] /\ tmp' \in {tmp, [tmp EXCEPT ![f] = NoFile]}
           \/ tmp' = [tmp EXCEPT ![f] = w] /\ file' = file
           \/ UNCHANGED <<file, tmp>>
    PROVE  /\ DOMAIN file' = Files /\ DOMAIN tmp' = Files
           /\ \A g \in Files : file'[g] \in Content(g)' /\ tmp'[g] \in Content(g)'
           /\ \A g \in Files : exists(g) => exists(g)'
<1>1. \A g : Content(g)' = Content(g)
  BY DEF Content, ValueOf, NoFile
<1>2. NoFile \in Content(f)
  BY DEF Content
<1>3. DOMAIN file = Files /\ DOMAIN tmp = Files /\ \A g \in Files : file[g] \in Content(g) /\ tmp[g] \in Content(g)
  BY DEF TypeOK
<1>4. /\ DOMAIN file' = Files /\ DOMAIN tmp' = Files
      /\ \A g \in Files : file'[g] = file[g] \/ (g = f /\ file'[g] = w)
      /\ \A g \in Files : tmp'[g] = tmp[g] \/ (g = f /\ tmp'[g] \in {w, NoFile})
  BY <1>3
<1> QED BY <1>1, <1>2, <1>3, <1>4 DEF exists

LEMMA CopyOpensTypes ==
    ASSUME TypeInv, NEW p \in Processes, CopyOpens(p)
    PROVE  TypeInv'
<1> DEFINE v == CopySource(p)
           s == [proc[p] EXCEPT !.phase = "opened", !.at = "file", !.value = v]
<1>1. TypeOK /\ proc \in [Processes -> States] /\ proc[p] \in States /\ \A q \in Processes : PlaceInv(q)
  BY DEF TypeInv, TypeOK
<1>2. /\ proc[p].step \in InPlace /\ v \notin {NoValue, NoBuild}
      /\ file' = [file EXCEPT ![Target(p)] = Damaged(v)]
      /\ UNCHANGED <<tmp, answer, ran, history, faults>>
  BY DEF CopyOpens
<1>3. Target(p) \in Files /\ v \in ValueOf(Target(p))
  BY <1>2, Targets, CopySources
<1>4. v \in Values
  BY <1>3, ValueTypes
<1>5. proc' = [proc EXCEPT ![p] = s]
  BY <1>1 DEF CopyOpens
<1> HIDE DEF v
<1>6. s \in States
  BY <1>1, <1>4 DEF States
<1>7. /\ s.phase = "opened" /\ s.value = v /\ s.step = proc[p].step /\ s.command = proc[p].command
      /\ s.update = proc[p].update /\ s.config = proc[p].config
  BY <1>1 DEF States
<1> HIDE DEF s
<1>8. /\ proc' \in [Processes -> States] /\ proc'[p] = s
      /\ \A q \in Processes \ {p} : proc'[q] = proc[q]
  BY <1>1, <1>5, <1>6, Moved
<1>9. /\ DOMAIN file' = Files /\ DOMAIN tmp' = Files
      /\ \A g \in Files : file'[g] \in Content(g)' /\ tmp'[g] \in Content(g)'
      /\ \A g \in Files : exists(g) => exists(g)'
  BY <1>1, <1>2, <1>3, Contents, FileTypes
<1>10. TypeOK'
  BY <1>1, <1>2, <1>8, <1>9 DEF TypeOK
<1>11. exists("catalog") => exists("catalog")'
  BY <1>9 DEF Files
<1>12. proc[p].step = "catalog" => exists("catalog")'
  <2>1. proc[p].step = "catalog" => file'["catalog"] = Damaged(v)
    BY <1>1, <1>2, Targets DEF TypeOK, Files
  <2> QED BY <2>1 DEF exists, Damaged
<1>13. PlaceInv(p)'
  <2>1. Target(p)' = Target(p) /\ ValueOf(Target(p))' = ValueOf(Target(p))
    BY <1>7, <1>8 DEF Target, ValueOf
  <2>2. Prepared(p)' => Prepared(p) \/ proc[p].step = "catalog"
    BY <1>7, <1>8 DEF Prepared
  <2> QED BY <1>1, <1>2, <1>3, <1>7, <1>8, <1>11, <1>12, <2>1, <2>2 DEF PlaceInv
<1> QED BY <1>1, <1>8, <1>10, <1>11, <1>13, OthersKeep DEF TypeInv

LEMMA AtomicOpensTypes ==
    ASSUME TypeInv, NEW p \in Processes, AtomicOpens(p)
    PROVE  TypeInv'
<1> DEFINE v == AtomicValue(p)
           s == [proc[p] EXCEPT !.phase = "opened", !.at = "tmp", !.value = v]
<1>1. TypeOK /\ proc \in [Processes -> States] /\ proc[p] \in States /\ \A q \in Processes : PlaceInv(q)
  BY DEF TypeInv, TypeOK
<1>2. /\ proc[p].step \in Atomic /\ tmp' = [tmp EXCEPT ![Target(p)] = Damaged(v)]
      /\ UNCHANGED <<file, answer, ran, history, faults>>
  BY DEF AtomicOpens
<1>3. Target(p) \in Files /\ v \in ValueOf(Target(p))
  BY <1>2, Targets, AtomicValues
<1>4. v \in Values
  BY <1>3, ValueTypes
<1>5. proc' = [proc EXCEPT ![p] = s]
  BY <1>1 DEF AtomicOpens
<1> HIDE DEF v
<1>6. s \in States
  BY <1>1, <1>4 DEF States
<1>7. /\ s.phase = "opened" /\ s.value = v /\ s.step = proc[p].step /\ s.command = proc[p].command
      /\ s.update = proc[p].update /\ s.config = proc[p].config
  BY <1>1 DEF States
<1> HIDE DEF s
<1>8. /\ proc' \in [Processes -> States] /\ proc'[p] = s
      /\ \A q \in Processes \ {p} : proc'[q] = proc[q]
  BY <1>1, <1>5, <1>6, Moved
<1>9. /\ DOMAIN file' = Files /\ DOMAIN tmp' = Files
      /\ \A g \in Files : file'[g] \in Content(g)' /\ tmp'[g] \in Content(g)'
      /\ \A g \in Files : exists(g) => exists(g)'
  BY <1>1, <1>2, <1>3, Contents, FileTypes
<1>10. TypeOK'
  BY <1>1, <1>2, <1>8, <1>9 DEF TypeOK
<1>11. exists("catalog") => exists("catalog")'
  BY <1>9 DEF Files
<1>12. PlaceInv(p)'
  <2>1. Target(p)' = Target(p) /\ ValueOf(Target(p))' = ValueOf(Target(p))
    BY <1>7, <1>8 DEF Target, ValueOf
  <2>2. Prepared(p)' => Prepared(p)
    BY <1>2, <1>7, <1>8 DEF Prepared, Atomic
  <2> QED BY <1>1, <1>2, <1>3, <1>7, <1>8, <1>11, <2>1, <2>2 DEF PlaceInv
<1> QED BY <1>1, <1>8, <1>10, <1>11, <1>12, OthersKeep DEF TypeInv

\* The state of a process that closes its file.
Closed(p) ==
    [proc[p] EXCEPT !.at = "none",
                    !.phase = IF proc[p].step \in Atomic THEN "closed" ELSE "none",
                    !.step = IF proc[p].step \in Atomic THEN @ ELSE Following[@],
                    !.again = (@ \/ proc[p].step = "app"),
                    !.value = IF proc[p].step \in Atomic THEN @ ELSE NoValue]

LEMMA ClosedTypes ==
    ASSUME TypeInv, NEW p \in Processes, proc[p].phase = "opened"
    PROVE  /\ Closed(p) \in States
           /\ Closed(p).command = proc[p].command /\ Closed(p).update = proc[p].update
           /\ Closed(p).config = proc[p].config /\ Closed(p).entry = proc[p].entry
           /\ Closed(p).again = (proc[p].again \/ proc[p].step = "app")
           /\ proc[p].step \in Atomic => /\ Closed(p).step = proc[p].step /\ Closed(p).phase = "closed"
                                         /\ Closed(p).value = proc[p].value
           /\ proc[p].step \in InPlace => /\ Closed(p).step = Following[proc[p].step]
                                          /\ Closed(p).phase = "none"
<1>1. proc[p] \in States /\ proc[p].step \in InPlace \cup Atomic
  BY DEF TypeInv, TypeOK, PlaceInv
<1>2. NoValue \in Values
  BY DEF Values
<1>3. Following[proc[p].step] \in Steps /\ ~(proc[p].step \in InPlace /\ proc[p].step \in Atomic)
  BY <1>1 DEF Following, InPlace, Atomic, Steps
<1>4. Closed(p) \in States
  BY <1>1, <1>2, <1>3, ZenonT(40) DEF Closed, States
<1>5. /\ Closed(p).command = proc[p].command /\ Closed(p).update = proc[p].update
      /\ Closed(p).config = proc[p].config /\ Closed(p).entry = proc[p].entry
      /\ Closed(p).again = (proc[p].again \/ proc[p].step = "app")
      /\ Closed(p).step = IF proc[p].step \in Atomic THEN proc[p].step ELSE Following[proc[p].step]
      /\ Closed(p).phase = IF proc[p].step \in Atomic THEN "closed" ELSE "none"
      /\ Closed(p).value = IF proc[p].step \in Atomic THEN proc[p].value ELSE NoValue
  BY <1>1 DEF Closed, States
<1> QED BY <1>3, <1>4, <1>5

LEMMA WriteClosesTypes ==
    ASSUME TypeInv, NEW p \in Processes, WriteCloses(p)
    PROVE  TypeInv'
<1>1. TypeOK /\ proc \in [Processes -> States] /\ proc[p] \in States /\ \A q \in Processes : PlaceInv(q)
  BY DEF TypeInv, TypeOK
<1>2. proc[p].phase = "opened" /\ UNCHANGED <<answer, ran, history, faults>>
  BY DEF WriteCloses
<1>3. proc[p].step \in InPlace \cup Atomic /\ proc[p].value \in ValueOf(Target(p)) /\ Target(p) \in Files
  BY <1>1, <1>2, Targets DEF PlaceInv
<1>4. proc' = [proc EXCEPT ![p] = Closed(p)]
  BY <1>1 DEF WriteCloses, Closed
<1>5. /\ proc' \in [Processes -> States] /\ proc'[p] = Closed(p)
      /\ \A q \in Processes \ {p} : proc'[q] = proc[q]
  BY <1>1, <1>2, <1>4, ClosedTypes, Moved
<1>6. \A f, v : Written(p, f, v) \subseteq {Whole(v), Damaged(v)}
  BY DEF Written
<1>7. \E w \in {Whole(proc[p].value), Damaged(proc[p].value)} :
           \/ file' = [file EXCEPT ![Target(p)] = w] /\ tmp' = tmp
           \/ tmp' = [tmp EXCEPT ![Target(p)] = w] /\ file' = file
           \/ UNCHANGED <<file, tmp>>
  <2>1. CASE proc[p].at = "file"
    BY <1>6, <2>1 DEF WriteCloses
  <2>2. CASE proc[p].at = "tmp"
    BY <1>6, <2>2 DEF WriteCloses
  <2>3. CASE proc[p].at \notin {"file", "tmp"}
    BY <2>3 DEF WriteCloses
  <2> QED BY <2>1, <2>2, <2>3
<1>8. /\ DOMAIN file' = Files /\ DOMAIN tmp' = Files
      /\ \A g \in Files : file'[g] \in Content(g)' /\ tmp'[g] \in Content(g)'
      /\ \A g \in Files : exists(g) => exists(g)'
  <2>1. PICK w \in {Whole(proc[p].value), Damaged(proc[p].value)} :
           \/ file' = [file EXCEPT ![Target(p)] = w] /\ tmp' = tmp
           \/ tmp' = [tmp EXCEPT ![Target(p)] = w] /\ file' = file
           \/ UNCHANGED <<file, tmp>>
    BY <1>7
  <2>2. w \in Content(Target(p)) /\ w.is # "absent"
    BY <1>3, Contents
  <2> QED BY <1>1, <1>3, <2>1, <2>2, FileTypes
<1>9. TypeOK'
  BY <1>1, <1>2, <1>5, <1>8 DEF TypeOK
<1>10. exists("catalog") => exists("catalog")'
  BY <1>8 DEF Files
<1>11. PlaceInv(p)'
  <2>1. CASE proc[p].step \in Atomic
    <3>1. /\ proc'[p].step = proc[p].step /\ proc'[p].phase = "closed" /\ proc'[p].value = proc[p].value
          /\ proc'[p].command = proc[p].command /\ proc'[p].update = proc[p].update
          /\ proc'[p].config = proc[p].config
      BY <1>2, <1>5, <2>1, ClosedTypes
    <3>2. Target(p)' = Target(p) /\ ValueOf(Target(p))' = ValueOf(Target(p))
      BY <3>1 DEF Target, ValueOf
    <3>3. Prepared(p)' => Prepared(p)
      BY <2>1, <3>1 DEF Prepared, Atomic
    <3> QED BY <1>1, <1>2, <1>10, <2>1, <3>1, <3>2, <3>3 DEF PlaceInv
  <2>2. CASE proc[p].step \in InPlace
    <3>1. /\ proc'[p].step = Following[proc[p].step] /\ proc'[p].phase = "none"
          /\ proc'[p].command = proc[p].command /\ proc'[p].config = proc[p].config
      BY <1>2, <1>5, <2>2, ClosedTypes
    <3>2. proc'[p].step \in {"json", "override", "agent", "launch"}
      BY <2>2, <3>1 DEF Following, InPlace
    <3>3. proc[p].command \in Commands
      BY <1>1, <2>2 DEF PlaceInv, InPlace
    <3>4. Prepared(p)' => Prepared(p)
      <4>1. CASE proc[p].step = "agent"
        <5>1. proc'[p].step = "launch"
          BY <3>1, <4>1 DEF Following
        <5> QED BY <3>1, <4>1, <5>1 DEF Prepared, Exchange
      <4>2. CASE proc[p].step # "agent"
        BY <1>2, <2>2, <4>2 DEF Prepared, InPlace
      <4> QED BY <4>1, <4>2
    <3> QED BY <1>1, <1>10, <3>1, <3>2, <3>3, <3>4 DEF PlaceInv, Exchange
  <2> QED BY <1>3, <2>1, <2>2
<1> QED BY <1>1, <1>5, <1>9, <1>10, <1>11, OthersKeep DEF TypeInv

\* The state of a process that has renamed its temporary file.
Renamed(p) == [proc[p] EXCEPT !.phase = "none", !.value = NoValue, !.step = Following[@]]

LEMMA RenamedTypes ==
    ASSUME TypeInv, NEW p \in Processes, proc[p].phase = "closed"
    PROVE  /\ Renamed(p) \in States /\ Renamed(p).step = Following[proc[p].step]
           /\ Renamed(p).phase = "none" /\ Renamed(p).command = proc[p].command
           /\ Renamed(p).update = proc[p].update /\ Renamed(p).config = proc[p].config
           /\ Renamed(p).again = proc[p].again /\ Renamed(p).entry = proc[p].entry
           /\ proc[p].step \in Atomic
<1>1. proc[p] \in States /\ proc[p].step \in Atomic
  BY DEF TypeInv, TypeOK, PlaceInv
<1>2. NoValue \in Values /\ Following[proc[p].step] \in Steps
  BY <1>1 DEF Values, Following, InPlace, Atomic, Steps
<1>3. Renamed(p) \in States
  BY <1>1, <1>2 DEF Renamed, States
<1>4. /\ Renamed(p).step = Following[proc[p].step]
      /\ Renamed(p).phase = "none" /\ Renamed(p).command = proc[p].command
      /\ Renamed(p).update = proc[p].update /\ Renamed(p).config = proc[p].config
      /\ Renamed(p).again = proc[p].again /\ Renamed(p).entry = proc[p].entry
  BY <1>1 DEF Renamed, States
<1> QED BY <1>1, <1>3, <1>4

\* The others have the same file open, perhaps under another name.
LEMMA RenameOthers ==
    ASSUME TypeInv, NEW p \in Processes, Rename(p)
    PROVE  /\ proc' \in [Processes -> States] /\ proc'[p] = Renamed(p)
           /\ \A q \in Processes \ {p} :
                 /\ proc'[q].step = proc[q].step /\ proc'[q].phase = proc[q].phase
                 /\ proc'[q].value = proc[q].value /\ proc'[q].command = proc[q].command
                 /\ proc'[q].update = proc[q].update /\ proc'[q].config = proc[q].config
<1>1. proc \in [Processes -> States] /\ proc[p].phase = "closed"
  BY DEF TypeInv, TypeOK, Rename
<1> DEFINE M(q) == IF q # p /\ proc[q].phase = "opened" /\ Target(q) = Target(p)
                   THEN CASE proc[q].at = "tmp" -> "file"
                          [] proc[q].at = "file" -> "unlinked"
                          [] OTHER -> proc[q].at
                   ELSE proc[q].at
           Other(q) == [proc[q] EXCEPT !.at = M(q)]
<1>2. \A q \in Processes : M(q) \in {"none", "file", "tmp", "unlinked"}
  <2>1. \A q \in Processes : proc[q].at \in {"none", "file", "tmp", "unlinked"}
    BY <1>1 DEF States
  <2> QED BY <2>1
<1>3. proc' = [q \in Processes |-> IF q = p THEN Renamed(p) ELSE Other(q)]
  BY DEF Rename, Renamed
<1> HIDE DEF M
<1>4. \A q \in Processes :
         /\ Other(q) \in States
         /\ Other(q).step = proc[q].step /\ Other(q).phase = proc[q].phase
         /\ Other(q).value = proc[q].value /\ Other(q).command = proc[q].command
         /\ Other(q).update = proc[q].update /\ Other(q).config = proc[q].config
  <2> SUFFICES ASSUME NEW q \in Processes
               PROVE /\ Other(q) \in States
                     /\ Other(q).step = proc[q].step /\ Other(q).phase = proc[q].phase
                     /\ Other(q).value = proc[q].value /\ Other(q).command = proc[q].command
                     /\ Other(q).update = proc[q].update /\ Other(q).config = proc[q].config
    OBVIOUS
  <2>1. proc[q] \in States /\ M(q) \in {"none", "file", "tmp", "unlinked"}
    BY <1>1, <1>2
  <2> QED BY <2>1 DEF States
<1> HIDE DEF Other
<1>5. Renamed(p) \in States
  BY <1>1, RenamedTypes
<1> QED BY <1>3, <1>4, <1>5

\* The history of a command grows by a sequence number of its type.
LEMMA HistoryTypes ==
    ASSUME TypeInv, NEW p \in Processes, Rename(p)
    PROVE  history' \in [Commands -> Seq(1..MaxSequence)]
<1>1. history \in [Commands -> Seq(1..MaxSequence)] /\ proc[p].phase = "closed"
  BY DEF TypeInv, TypeOK, Rename
<1>2. CASE proc[p].step = "payload"
  <2>1. proc[p].command \in Commands /\ proc[p].update \in Updates
    BY <1>2 DEF TypeInv, PlaceInv, Exchange
  <2>2. proc[p].update.sequence \in 1..MaxSequence
    BY <2>1, UpdatesAssumption
  <2>3. history' = [history EXCEPT ![proc[p].command] = Append(@, proc[p].update.sequence)]
    BY <1>2 DEF Rename
  <2> DEFINE N == 1..MaxSequence
             n == proc[p].update.sequence
  <2>4. n \in N /\ history \in [Commands -> Seq(N)]
    BY <1>1, <2>2
  <2> HIDE DEF N, n
  <2>5. Append(history[proc[p].command], n) \in Seq(N)
    BY <2>1, <2>4
  <2>6. history' \in [Commands -> Seq(N)]
    BY <2>1, <2>3, <2>4, <2>5 DEF n
  <2> QED BY <2>6 DEF N
<1>3. CASE proc[p].step # "payload"
  BY <1>1, <1>3 DEF Rename
<1> QED BY <1>2, <1>3

LEMMA RenameTypes ==
    ASSUME TypeInv, NEW p \in Processes, Rename(p)
    PROVE  TypeInv'
<1>1. TypeOK /\ proc \in [Processes -> States] /\ proc[p] \in States /\ \A q \in Processes : PlaceInv(q)
  BY DEF TypeInv, TypeOK
<1>2. /\ proc[p].phase = "closed" /\ tmp[Target(p)].is # "absent"
      /\ file' = [file EXCEPT ![Target(p)] = tmp[Target(p)]]
      /\ tmp' = [tmp EXCEPT ![Target(p)] = NoFile]
      /\ UNCHANGED <<answer, ran, faults>>
  BY DEF Rename
<1>3. proc[p].step \in Atomic /\ Target(p) \in Files
  BY <1>1, <1>2, Targets DEF PlaceInv
<1>4. tmp[Target(p)] \in Content(Target(p))
  BY <1>1, <1>3 DEF TypeOK
<1>5. /\ DOMAIN file' = Files /\ DOMAIN tmp' = Files
      /\ \A g \in Files : file'[g] \in Content(g)' /\ tmp'[g] \in Content(g)'
      /\ \A g \in Files : exists(g) => exists(g)'
  BY <1>1, <1>2, <1>3, <1>4, FileTypes
<1>6. TypeOK'
  BY <1>1, <1>2, <1>5, RenameOthers, HistoryTypes DEF TypeOK
<1>7. exists("catalog") => exists("catalog")'
  BY <1>5 DEF Files
<1>8. PlaceInv(p)'
  <2>1. /\ proc'[p].step = Following[proc[p].step] /\ proc'[p].phase = "none"
        /\ proc'[p].command = proc[p].command /\ proc'[p].update = proc[p].update
    BY <1>2, RenameOthers, RenamedTypes
  <2>2. proc'[p].step \in {"payload", "promote", "resolve"}
    BY <1>3, <2>1 DEF Following, Atomic
  <2>3. exists("catalog") /\ proc[p].step \in Exchange /\ proc[p].command \in Commands
    BY <1>1, <1>3 DEF PlaceInv, Prepared, Exchange, Atomic
  <2> QED BY <1>1, <1>7, <2>1, <2>2, <2>3 DEF PlaceInv, Exchange
<1>9. ASSUME NEW q \in Processes, q # p PROVE PlaceInv(q)'
  BY <1>1, <1>7, <1>9, RenameOthers, OthersKeep
<1> QED BY <1>6, <1>8, <1>9 DEF TypeInv

LEMMA InitTypes == Init => TypeInv
<1> SUFFICES ASSUME Init PROVE TypeInv
  OBVIOUS
<1>1. /\ proc = [p \in Processes |-> Down] /\ file = [f \in Files |-> NoFile]
      /\ tmp = [f \in Files |-> NoFile] /\ answer = [p \in Processes |-> "OK"] /\ ran = NoRun
      /\ history = [c \in Commands |-> <<>>] /\ faults = 0
  BY DEF Init
<1>2. Down \in States /\ Down.step = "down" /\ Down.phase = "none"
  <2>1. Down \in Rests
    BY DEF Rests
  <2> QED BY <2>1, RestTypes DEF Down, Fresh
<1>3. /\ proc \in [Processes -> States] /\ answer \in [Processes -> Status]
      /\ DOMAIN file = Files /\ DOMAIN tmp = Files
  BY <1>1, <1>2 DEF Status
<1>4. \A f \in Files : file[f] \in Content(f) /\ tmp[f] \in Content(f)
  BY <1>1 DEF Content
<1>5. history \in [Commands -> Seq(1..MaxSequence)] /\ faults \in 0..MaxFaults
  BY <1>1, UpdatesAssumption
<1>6. ran \in [command : Commands \cup {NoCommand}, is : {"whole", "damaged"},
               build : Builds \cup {NoBuild}, entry : Builds \cup {NoBuild}]
  BY <1>1 DEF NoRun
<1>7. \A p \in Processes : PlaceInv(p)
  BY <1>1, <1>2 DEF PlaceInv, Prepared, Exchange
<1> QED BY <1>3, <1>4, <1>5, <1>6, <1>7 DEF TypeInv, TypeOK

LEMMA StutterTypes == TypeInv /\ UNCHANGED vars => TypeInv'
<1> SUFFICES ASSUME TypeInv, UNCHANGED vars PROVE TypeInv'
  OBVIOUS
<1>1. TypeOK'
  BY DEF TypeInv, TypeOK, vars, Content, ValueOf, NoFile
<1>2. \A p \in Processes : PlaceInv(p)'
  <2>1. exists("catalog") => exists("catalog")'
    BY DEF exists, vars
  <2> QED BY <2>1, OthersKeep DEF TypeInv, vars
<1> QED BY <1>1, <1>2 DEF TypeInv

LEMMA TypesInductive == TypeInv /\ [Next]_vars => TypeInv'
<1> SUFFICES ASSUME TypeInv, [Next]_vars PROVE TypeInv'
  OBVIOUS
<1>1. ASSUME NEW p \in Processes, CopyOpens(p) \/ AtomicOpens(p) \/ WriteCloses(p) \/ Rename(p)
      PROVE  TypeInv'
  BY <1>1, CopyOpensTypes, AtomicOpensTypes, WriteClosesTypes, RenameTypes
<1> QED BY <1>1, QuietTypes, StutterTypes DEF Next, Serve, Write

\* A process has a file open only in a step that writes one, what it writes is of the type of
\* that file, an Update being installed is signed and for the command asked for, and the Catalog
\* File is there once a request has gone past its copy: for any number of processes.
THEOREM TypesCorrect == Spec => []TypeInv
<1>1. TypeInv /\ [Next]_vars => TypeInv'
  BY TypesInductive
<1> QED BY InitTypes, <1>1, PTL DEF Spec

----------------------------------------------------------------------------
(* The steps of a process that nobody disturbs.                            *)

\* How a request goes on without a write.
Moves(p, s) ==
    \/ proc[p].step = "idle" /\ s.step \in {"agent", "catalog"} /\ s.again = proc[p].again
    \/ /\ proc[p].step \in InPlace /\ s.step = Following[proc[p].step]
       /\ proc[p].step = "override" \/ exists(Target(p))
       /\ s.command = proc[p].command /\ s.again = (proc[p].again \/ proc[p].step = "app")
    \/ /\ proc[p].step = "session" /\ s.step = "post"
       /\ s.command = proc[p].command /\ s.again = proc[p].again
       /\ s.update \in Updates /\ s.update.command = s.command /\ dev_sequence_is_fresh(s.update)
    \/ /\ proc[p].step = "resolve" /\ s.step = "verify"
       /\ s.command = proc[p].command /\ s.again = proc[p].again
       /\ s.entry = file["catalog"].value[proc[p].command] /\ s.entry # NoBuild
    \/ /\ Same(p, s)
       /\ \/ proc[p].step \in {"launch", "session"} /\ s.step \in {"session", "resolve"}
          \/ proc[p].step = "post" /\ s.step = "fresh"
          \/ /\ proc[p].step = "verify" /\ s.step = IF proc[p].again THEN "load" ELSE "exists"
             /\ file[proc[p].command] \in {NoFile, Whole(proc[p].entry)}
          \/ /\ proc[p].step = "exists"
             /\ s.step = IF exists(proc[p].command) THEN "load" ELSE "app"

\* What an alarm is about.
Alarming(p) ==
    \/ proc[p].step = "launch" /\ file["agent"] # Whole(AgentImage)
    \/ proc[p].step = "verify" /\ file[proc[p].command] \notin {NoFile, Whole(proc[p].entry)}
    \/ proc[p].step = "load" /\ ~Executable(p, file[proc[p].command])

\* In the middle of a write, or of an install.
Amid(p) == proc[p].phase # "none" \/ proc[p].step \in {"payload", "promote"}

Quits(p) ==
    /\ Amid(p) => faults' # 0
    /\ \E status \in Status : /\ Leaves(p, status)
                              /\ status \in Alarms => status = answer[p] \/ Alarming(p)

Quiet(p) ==
    \/ twep_wr_init(p) \/ twep_wr_shutdown(p) \/ RequestRefused(p) \/ Request(p)
    \/ SkipCopy(p) \/ NoSource(p) \/ FreshnessUnreadable(p) \/ RenameFails(p)
    \/ Agent(p) \/ AppExists(p) \/ RunApp(p) \/ AppRefused(p)
    \/ WriteFails(p) \/ RecordFails(p) \/ Crash(p)

\* A request that ends in the middle of a write or of an install ends by a fault: no rename
\* fails, for nobody else has renamed the temporary file.
LEMMA AmidFaults ==
    ASSUME TypeInv, NEW d \in Processes, WriteInv(d), Quiet(d), Amid(d)
    PROVE  faults' # 0
<1>1. faults \in Nat
  BY UpdatesAssumption DEF TypeInv, TypeOK
<1>2. CASE WriteFails(d) \/ RecordFails(d) \/ Crash(d)
  BY <1>1, <1>2 DEF WriteFails, RecordFails, Crash, Fault
<1>3. ~RenameFails(d)
  <2>1. proc[d].phase = "closed" => proc[d].step \in Atomic
    BY DEF TypeInv, PlaceInv
  <2> QED BY <2>1 DEF WriteInv, RenameFails
<1>4. ~FreshnessUnreadable(d)
  BY DEF FreshnessUnreadable, WriteInv
<1>5. CASE proc[d].step \in {"payload", "promote"}
  BY <1>2, <1>3, <1>4, <1>5 DEF Quiet, twep_wr_init, twep_wr_shutdown, RequestRefused, Request,
     SkipCopy, NoSource, Agent, Launch, SessionFails, SessionEmpty, UpdateAccepted,
     SuccessAnswered, resolve_catalog, verify_app_file, AppExists, RunApp, AppRefused, InPlace
<1>6. CASE proc[d].phase # "none"
  <2>1. proc[d].step \in InPlace \cup Atomic
    BY <1>6 DEF TypeInv, PlaceInv
  <2> QED BY <1>2, <1>3, <1>4, <1>6, <2>1 DEF Quiet, twep_wr_init, twep_wr_shutdown,
     RequestRefused, Request, SkipCopy, NoSource, Agent, Launch, SessionFails, SessionEmpty,
     UpdateAccepted, SuccessAnswered, resolve_catalog, verify_app_file, AppExists, RunApp,
     AppRefused, InPlace, Atomic
<1> QED BY <1>5, <1>6 DEF Amid

LEMMA QuietShape ==
    ASSUME TypeInv, NEW d \in Processes, WriteInv(d), Quiet(d)
    PROVE  Quits(d) \/ \E s \in States : Goes(d, s) /\ Moves(d, s)
<1>1. Amid(d) => faults' # 0
  BY AmidFaults
<1>2. ASSUME NEW status \in Status, Leaves(d, status), status \in Alarms => status = answer[d] \/ Alarming(d)
      PROVE  Quits(d)
  BY <1>1, <1>2 DEF Quits
<1>3. CASE \E status \in Status \ Alarms : Leaves(d, status)
  BY <1>2, <1>3
<1>4. CASE \/ RequestRefused(d) \/ NoSource(d) \/ FreshnessUnreadable(d) \/ WriteFails(d)
           \/ RecordFails(d) \/ RenameFails(d) \/ SessionFails(d) \/ RunApp(d)
  BY <1>3, <1>4, Endings
<1>5. CASE twep_wr_init(d) \/ twep_wr_shutdown(d) \/ Crash(d)
  BY <1>2, <1>5, Restarts
<1>6. CASE Request(d)
  BY <1>6, RequestGoes DEF Moves
<1>7. CASE SkipCopy(d)
  <2>1. proc[d].step \in InPlace /\ (proc[d].step = "override" \/ exists(Target(d)))
    BY <1>7 DEF SkipCopy
  <2> QED BY <1>7, <2>1, SkipCopyGoes DEF Moves
<1>8. CASE Launch(d)
  <2>1. proc[d].step = "launch"
    BY <1>8 DEF Launch
  <2>2. ASSUME NEW status \in Status, Leaves(d, status), status \in Alarms => file["agent"] # Whole(AgentImage)
        PROVE  Quits(d)
    BY <1>2, <2>1, <2>2 DEF Alarming
  <2>3. ASSUME NEW s \in States, Goes(d, s), s.step \in {"session", "resolve"}, Same(d, s)
        PROVE  Moves(d, s)
    BY <2>1, <2>3 DEF Moves
  <2> QED BY <1>8, <2>2, <2>3, LaunchGoes
<1>9. CASE SessionEmpty(d)
  <2>1. proc[d].step = "session"
    BY <1>9 DEF SessionEmpty
  <2> QED BY <1>9, <2>1, EmptyGoes DEF Moves
<1>10. CASE UpdateAccepted(d)
  <2>1. proc[d].step = "session"
    BY <1>10 DEF UpdateAccepted
  <2>2. PICK u \in Updates, s \in States :
              /\ u.command = proc[d].command /\ dev_sequence_is_fresh(u)
              /\ Goes(d, s) /\ s.step = "post" /\ s.update = u
              /\ s.command = proc[d].command /\ s.again = proc[d].again
    BY <1>10, UpdateGoes
  <2>3. Moves(d, s)
    BY <2>1, <2>2 DEF Moves
  <2> QED BY <2>2, <2>3
<1>11. CASE SuccessAnswered(d)
  <2>1. proc[d].step = "post"
    BY <1>11 DEF SuccessAnswered
  <2> QED BY <1>3, <1>11, <2>1, SuccessGoes DEF Moves
<1>12. CASE resolve_catalog(d)
  <2>1. proc[d].step = "resolve"
    BY <1>12 DEF resolve_catalog
  <2> QED BY <1>3, <1>12, <2>1, ResolveGoes DEF Moves
<1>13. CASE verify_app_file(d)
  <2>1. proc[d].step = "verify"
    BY <1>13 DEF verify_app_file
  <2> QED BY <1>2, <1>13, <2>1, VerifyGoes DEF Moves, Alarming
<1>14. CASE AppExists(d)
  <2>1. proc[d].step = "exists"
    BY <1>14 DEF AppExists
  <2> QED BY <1>14, <2>1, ExistsGoes DEF Moves
<1>15. CASE AppRefused(d)
  <2>1. proc[d].step = "load"
    BY <1>15 DEF AppRefused
  <2> QED BY <1>2, <1>15, <2>1, RefusedLeaves DEF Alarming
<1> QED BY <1>4, <1>5, <1>6, <1>7, <1>8, <1>9, <1>10, <1>11, <1>12, <1>13, <1>14, <1>15 DEF Quiet, Agent

----------------------------------------------------------------------------
(* What the writing steps do.                                              *)

\* The request is the same one.
Kept(p) ==
    /\ proc'[p].command = proc[p].command /\ proc'[p].update = proc[p].update
    /\ proc'[p].entry = proc[p].entry /\ UNCHANGED <<answer, faults>>

LEMMA CopyOpensEffect ==
    ASSUME TypeInv, NEW p \in Processes, CopyOpens(p)
    PROVE  /\ Kept(p) /\ proc'[p].again = proc[p].again /\ UNCHANGED <<tmp, history>>
           /\ proc[p].step \in InPlace /\ proc[p].phase = "none" /\ proc'[p].step = proc[p].step
           /\ proc'[p].phase = "opened" /\ proc'[p].at = "file" /\ proc'[p].value = CopySource(p)
           /\ CopySource(p) \in ValueOf(Target(p)) /\ CopySource(p) \notin {NoValue, NoBuild}
           /\ proc[p].step # "override" => ~exists(Target(p))
           /\ Target(p) \in Files /\ file'[Target(p)] = Damaged(CopySource(p))
           /\ \A f \in Files : f # Target(p) => file'[f] = file[f]
<1>1. proc \in [Processes -> States] /\ proc[p] \in States /\ DOMAIN file = Files
  BY DEF TypeInv, TypeOK
<1>2. /\ proc[p].step \in InPlace /\ proc[p].phase = "none"
      /\ proc[p].step # "override" => ~exists(Target(p))
      /\ CopySource(p) \notin {NoValue, NoBuild}
      /\ file' = [file EXCEPT ![Target(p)] = Damaged(CopySource(p))]
      /\ UNCHANGED <<tmp, answer, ran, history, faults>>
  BY DEF CopyOpens
<1>3. Target(p) \in Files /\ CopySource(p) \in ValueOf(Target(p))
  BY <1>2, Targets, CopySources
<1> DEFINE v == CopySource(p)
           s == [proc[p] EXCEPT !.phase = "opened", !.at = "file", !.value = v]
<1>4. proc'[p] = s
  BY <1>1 DEF CopyOpens
<1> HIDE DEF v
<1>5. /\ s.phase = "opened" /\ s.at = "file" /\ s.value = v /\ s.step = proc[p].step
      /\ s.command = proc[p].command /\ s.update = proc[p].update
      /\ s.entry = proc[p].entry /\ s.again = proc[p].again
  BY <1>1 DEF States
<1> HIDE DEF s
<1>6. file'[Target(p)] = Damaged(CopySource(p)) /\ \A f \in Files : f # Target(p) => file'[f] = file[f]
  BY <1>1, <1>2, <1>3
<1> QED BY <1>2, <1>3, <1>4, <1>5, <1>6 DEF Kept, v

LEMMA AtomicOpensEffect ==
    ASSUME TypeInv, NEW p \in Processes, AtomicOpens(p)
    PROVE  /\ Kept(p) /\ proc'[p].again = proc[p].again /\ UNCHANGED <<file, history>>
           /\ proc[p].step \in Atomic /\ proc[p].phase = "none" /\ proc'[p].step = proc[p].step
           /\ proc'[p].phase = "opened" /\ proc'[p].at = "tmp" /\ proc'[p].value = AtomicValue(p)
           /\ Target(p) \in Files /\ tmp'[Target(p)] = Damaged(AtomicValue(p))
<1>1. proc \in [Processes -> States] /\ proc[p] \in States /\ DOMAIN tmp = Files
  BY DEF TypeInv, TypeOK
<1>2. /\ proc[p].step \in Atomic /\ proc[p].phase = "none"
      /\ tmp' = [tmp EXCEPT ![Target(p)] = Damaged(AtomicValue(p))]
      /\ UNCHANGED <<file, answer, ran, history, faults>>
  BY DEF AtomicOpens
<1>3. Target(p) \in Files
  BY <1>2, Targets
<1> DEFINE v == AtomicValue(p)
           s == [proc[p] EXCEPT !.phase = "opened", !.at = "tmp", !.value = v]
<1>4. proc'[p] = s
  BY <1>1 DEF AtomicOpens
<1> HIDE DEF v
<1>5. /\ s.phase = "opened" /\ s.at = "tmp" /\ s.value = v /\ s.step = proc[p].step
      /\ s.command = proc[p].command /\ s.update = proc[p].update
      /\ s.entry = proc[p].entry /\ s.again = proc[p].again
  BY <1>1 DEF States
<1> HIDE DEF s
<1>6. tmp'[Target(p)] = Damaged(AtomicValue(p))
  BY <1>1, <1>2, <1>3
<1> QED BY <1>2, <1>3, <1>4, <1>5, <1>6 DEF Kept, v

\* Nobody shares the file that is open: the write leaves all of the value.
LEMMA WriteClosesEffect ==
    ASSUME TypeInv, NEW d, Processes = {d}, WriteInv(d), WriteCloses(d)
    PROVE  /\ Kept(d) /\ history' = history /\ proc[d].phase = "opened"
           /\ proc'[d].again = (proc[d].again \/ proc[d].step = "app")
           /\ proc[d].step \in InPlace \cup Atomic /\ Target(d) \in Files
           /\ proc[d].step \in InPlace =>
                 /\ proc'[d].step = Following[proc[d].step] /\ proc'[d].phase = "none"
                 /\ tmp' = tmp /\ file'[Target(d)] = Whole(CopySource(d))
                 /\ file[Target(d)] = Damaged(CopySource(d))
                 /\ CopySource(d) \in ValueOf(Target(d))
                 /\ \A f \in Files : f # Target(d) => file'[f] = file[f]
           /\ proc[d].step \in Atomic =>
                 /\ proc'[d].step = proc[d].step /\ proc'[d].phase = "closed"
                 /\ proc'[d].value = proc[d].value /\ proc[d].value = AtomicValue(d)
                 /\ file' = file /\ tmp'[Target(d)] = Whole(AtomicValue(d))
<1>1. /\ proc \in [Processes -> States] /\ proc[d] \in States /\ DOMAIN file = Files /\ DOMAIN tmp = Files
      /\ d \in Processes
  BY DEF TypeInv, TypeOK
<1>2. proc[d].phase = "opened" /\ UNCHANGED <<answer, ran, history, faults>>
  BY DEF WriteCloses
<1>3. proc[d].step \in InPlace \cup Atomic /\ proc[d].value \in ValueOf(Target(d)) /\ Target(d) \in Files
  BY <1>1, <1>2, Targets DEF TypeInv, PlaceInv
<1>4. proc'[d] = Closed(d)
  BY <1>1 DEF WriteCloses, Closed
<1>5. \A content, v : content.value = v => Written(d, content, v) = {Whole(v)}
  BY DEF Written
<1>6. CASE proc[d].step \in InPlace
  <2>1. /\ proc[d].at = "file" /\ proc[d].value = CopySource(d)
        /\ file[Target(d)] = Damaged(proc[d].value) /\ file[Target(d)].value = proc[d].value
    BY <1>2, <1>6 DEF WriteInv, Damaged
  <2>2. file' = [file EXCEPT ![Target(d)] = Whole(proc[d].value)] /\ tmp' = tmp
    <3>1. /\ tmp' = tmp
          /\ \E w \in Written(d, file[Target(d)], proc[d].value) : file' = [file EXCEPT ![Target(d)] = w]
      BY <2>1 DEF WriteCloses
    <3>2. Written(d, file[Target(d)], proc[d].value) = {Whole(proc[d].value)}
      BY <1>5, <2>1
    <3> QED BY <3>1, <3>2
  <2>3. proc[d].step \notin Atomic
    BY <1>6 DEF InPlace, Atomic
  <2> QED BY <1>1, <1>2, <1>3, <1>4, <1>6, <2>1, <2>2, <2>3, ClosedTypes DEF Kept
<1>7. CASE proc[d].step \in Atomic
  <2>1. proc[d].value = AtomicValue(d) /\ proc[d].at = "tmp" /\ tmp[Target(d)].value = proc[d].value
    BY <1>2, <1>7 DEF WriteInv
  <2>2. tmp' = [tmp EXCEPT ![Target(d)] = Whole(proc[d].value)] /\ file' = file
    <3>1. /\ file' = file
          /\ \E w \in Written(d, tmp[Target(d)], proc[d].value) : tmp' = [tmp EXCEPT ![Target(d)] = w]
      BY <2>1 DEF WriteCloses
    <3>2. Written(d, tmp[Target(d)], proc[d].value) = {Whole(proc[d].value)}
      BY <1>5, <2>1
    <3> QED BY <3>1, <3>2
  <2>3. proc[d].step \notin InPlace
    BY <1>7 DEF InPlace, Atomic
  <2> QED BY <1>1, <1>2, <1>3, <1>4, <1>7, <2>1, <2>2, <2>3, ClosedTypes DEF Kept
<1> QED BY <1>3, <1>6, <1>7

LEMMA RenameEffect ==
    ASSUME TypeInv, NEW d \in Processes, WriteInv(d), Rename(d)
    PROVE  /\ Kept(d) /\ proc'[d].again = proc[d].again
           /\ proc[d].step \in Atomic /\ Target(d) \in Files
           /\ proc'[d].step = Following[proc[d].step] /\ proc'[d].phase = "none"
           /\ file'[Target(d)] = Whole(AtomicValue(d))
           /\ \A f \in Files : f # Target(d) => file'[f] = file[f]
           /\ history' = IF proc[d].step = "payload"
                         THEN [history EXCEPT ![proc[d].command] = Append(@, proc[d].update.sequence)]
                         ELSE history
<1>1. /\ proc[d].phase = "closed" /\ file' = [file EXCEPT ![Target(d)] = tmp[Target(d)]]
      /\ UNCHANGED <<answer, ran, faults>>
      /\ history' = IF proc[d].step = "payload"
                    THEN [history EXCEPT ![proc[d].command] = Append(@, proc[d].update.sequence)]
                    ELSE history
  BY DEF Rename
<1>2. proc'[d] = Renamed(d)
  BY RenameOthers
<1>3. proc[d].step \in Atomic /\ Target(d) \in Files /\ DOMAIN file = Files
  BY <1>1, RenamedTypes, Targets DEF TypeInv, TypeOK
<1>4. tmp[Target(d)] \in Content(Target(d)) /\ tmp[Target(d)].is = "whole" /\ tmp[Target(d)].value = AtomicValue(d)
  BY <1>1, <1>3 DEF WriteInv, TypeInv, TypeOK
<1>5. tmp[Target(d)] = Whole(AtomicValue(d))
  BY <1>4 DEF Content, Whole, NoFile
<1> QED BY <1>1, <1>2, <1>3, <1>5, RenamedTypes DEF Kept

----------------------------------------------------------------------------
(* One process: an open file holds what the process writes.                *)

LEMMA SameSources ==
    ASSUME NEW p, proc'[p].step = proc[p].step, proc'[p].command = proc[p].command,
           proc'[p].update = proc[p].update, file'["fresh"] = file["fresh"]
    PROVE  Target(p)' = Target(p) /\ CopySource(p)' = CopySource(p) /\ AtomicValue(p)' = AtomicValue(p)
<1>1. exists("fresh")' = exists("fresh")
  BY DEF exists
<1> QED BY <1>1 DEF Target, CopySource, AtomicValue

\* Only the freshness step writes the freshness file.
LEMMA FreshTarget ==
    ASSUME TypeInv, NEW p \in Processes, proc[p].step \in InPlace \cup Atomic, proc[p].step # "fresh"
    PROVE  Target(p) # "fresh" /\ "fresh" \in Files
BY Targets, NoneAssumption DEF InPlace, Atomic, Files

LEMMA QuietWrites ==
    ASSUME TypeInv, NEW d \in Processes, WriteInv(d), Quiet(d)
    PROVE  WriteInv(d)'
<1>1. proc'[d].phase = "none" /\ file' = file
  <2>1. CASE Quits(d)
    <3>1. PICK status \in Status : Leaves(d, status)
      BY <2>1 DEF Quits
    <3>2. PICK s \in Rests : proc' = [proc EXCEPT ![d] = s]
      BY <3>1 DEF Leaves
    <3> QED BY <3>1, <3>2, RestTypes, Moved DEF Leaves, TypeInv
  <2>2. CASE \E s \in States : Goes(d, s)
    BY <2>2, Moved DEF Goes, TypeInv
  <2> QED BY <2>1, <2>2, QuietShape
<1> QED BY <1>1 DEF WriteInv

LEMMA CopyOpensWrites ==
    ASSUME TypeInv, NEW d \in Processes, WriteInv(d), CopyOpens(d)
    PROVE  WriteInv(d)'
<1>1. /\ Kept(d) /\ proc[d].step \in InPlace /\ proc'[d].step = proc[d].step
      /\ proc'[d].phase = "opened" /\ proc'[d].at = "file" /\ proc'[d].value = CopySource(d)
      /\ file'[Target(d)] = Damaged(CopySource(d))
      /\ \A f \in Files : f # Target(d) => file'[f] = file[f]
  BY CopyOpensEffect
<1>2. file'["fresh"] = file["fresh"] /\ proc[d].step \notin Atomic
  BY <1>1, FreshTarget DEF InPlace, Atomic
<1>3. Target(d)' = Target(d) /\ CopySource(d)' = CopySource(d)
  BY <1>1, <1>2, SameSources DEF Kept
<1> QED BY <1>1, <1>2, <1>3 DEF WriteInv

LEMMA AtomicOpensWrites ==
    ASSUME TypeInv, NEW d \in Processes, WriteInv(d), AtomicOpens(d)
    PROVE  WriteInv(d)'
<1>1. /\ Kept(d) /\ file' = file /\ proc[d].step \in Atomic /\ proc'[d].step = proc[d].step
      /\ proc'[d].phase = "opened" /\ proc'[d].at = "tmp" /\ proc'[d].value = AtomicValue(d)
      /\ tmp'[Target(d)] = Damaged(AtomicValue(d))
  BY AtomicOpensEffect
<1>2. Target(d)' = Target(d) /\ AtomicValue(d)' = AtomicValue(d) /\ proc[d].step \notin InPlace
  BY <1>1, SameSources DEF Kept, InPlace, Atomic
<1> QED BY <1>1, <1>2 DEF WriteInv, Damaged

LEMMA WriteClosesWrites ==
    ASSUME TypeInv, NEW d, Processes = {d}, WriteInv(d), WriteCloses(d)
    PROVE  WriteInv(d)'
<1>1. CASE proc[d].step \in InPlace
  <2>1. /\ proc'[d].phase = "none" /\ Target(d) \in Files
        /\ \A f \in Files : f # Target(d) => file'[f] = file[f]
    BY <1>1, WriteClosesEffect
  <2>2. file'["fresh"] = file["fresh"]
    BY <1>1, <2>1, FreshTarget DEF InPlace
  <2> QED BY <2>1, <2>2 DEF WriteInv
<1>2. CASE proc[d].step \in Atomic
  <2>1. /\ Kept(d) /\ file' = file /\ proc'[d].step = proc[d].step /\ proc'[d].phase = "closed"
        /\ proc'[d].value = AtomicValue(d) /\ tmp'[Target(d)] = Whole(AtomicValue(d))
    BY <1>2, WriteClosesEffect
  <2>2. Target(d)' = Target(d) /\ AtomicValue(d)' = AtomicValue(d) /\ proc[d].step \notin InPlace
    BY <1>2, <2>1, SameSources DEF Kept, InPlace, Atomic
  <2> QED BY <2>1, <2>2 DEF WriteInv, Whole
<1> QED BY <1>1, <1>2, WriteClosesEffect

LEMMA RenameWrites ==
    ASSUME TypeInv, NEW d \in Processes, WriteInv(d), Rename(d)
    PROVE  WriteInv(d)'
<1>1. /\ proc'[d].phase = "none" /\ Target(d) \in Files /\ file'[Target(d)] = Whole(AtomicValue(d))
      /\ \A f \in Files : f # Target(d) => file'[f] = file[f]
  BY RenameEffect
<1>2. file'["fresh"].is # "damaged"
  BY <1>1 DEF WriteInv, Whole, Files
<1> QED BY <1>1, <1>2 DEF WriteInv

\* The steps of the one process.
LEMMA OneStep ==
    ASSUME NEW d, Processes = {d}, [Next]_vars
    PROVE  \/ Quiet(d) \/ CopyOpens(d) \/ AtomicOpens(d) \/ WriteCloses(d) \/ Rename(d)
           \/ UNCHANGED vars
BY DEF Next, Serve, Write, Quiet

LEMMA WritesInductive ==
    ASSUME TypeInv, NEW d, Processes = {d}, WriteInv(d), [Next]_vars
    PROVE  WriteInv(d)'
<1>1. CASE UNCHANGED vars
  <2>1. Target(d)' = Target(d) /\ CopySource(d)' = CopySource(d) /\ AtomicValue(d)' = AtomicValue(d)
    BY <1>1, SameSources DEF vars
  <2> QED BY <1>1, <2>1 DEF WriteInv, vars, Damaged
<1> QED BY <1>1, OneStep, QuietWrites, CopyOpensWrites, AtomicOpensWrites, WriteClosesWrites, RenameWrites

LEMMA QuietStep ==
    ASSUME TypeInv, NEW d \in Processes, WriteInv(d), Quiet(d)
    PROVE  /\ UNCHANGED <<file, history>> /\ proc'[d].phase = "none"
           /\ proc'[d].step \notin {"payload", "promote"}
           /\ Amid(d) => faults' # 0
           /\ faults' = 0 => faults = 0
           /\ \/ /\ proc'[d].step \in {"down", "idle"} /\ proc'[d].again = FALSE
                 /\ answer'[d] \in Alarms => answer'[d] = answer[d] \/ Alarming(d)
              \/ Moves(d, proc'[d]) /\ answer' = answer
<1>1. TypeOK /\ faults \in Nat /\ MaxFaults \in Nat /\ answer \in [Processes -> Status]
  BY UpdatesAssumption DEF TypeInv, TypeOK
<1>2. CASE Quits(d)
  <2>1. PICK status \in Status : Leaves(d, status) /\ (status \in Alarms => status = answer[d] \/ Alarming(d))
    BY <1>2 DEF Quits
  <2>2. PICK s \in Rests : proc' = [proc EXCEPT ![d] = s]
    BY <2>1 DEF Leaves
  <2>3. proc'[d] = s /\ answer'[d] = status
    BY <1>1, <2>1, <2>2, RestTypes, Moved DEF Leaves
  <2>4. faults' = 0 => faults = 0
    BY <1>1, <2>1 DEF Leaves
  <2> QED BY <1>2, <2>1, <2>3, <2>4, RestTypes DEF Leaves, Quits
<1>3. ASSUME NEW s \in States, Goes(d, s), Moves(d, s)
      PROVE  /\ UNCHANGED <<file, history, faults, answer>> /\ proc'[d].phase = "none"
             /\ proc'[d].step \notin {"payload", "promote"} /\ ~Amid(d) /\ Moves(d, proc'[d])
  <2>1. proc'[d] = s
    BY <1>1, <1>3, Moved DEF Goes
  <2>2. proc[d].step \in InPlace => Following[proc[d].step] \notin {"payload", "promote"}
    BY DEF Following, InPlace
  <2>3. s.step \notin {"payload", "promote"}
    BY <1>3, <2>2 DEF Moves
  <2>4. ~Amid(d)
    BY <1>3 DEF Goes, Amid, Atomic
  <2> QED BY <1>3, <2>1, <2>3, <2>4 DEF Goes
<1> QED BY <1>2, <1>3, QuietShape

----------------------------------------------------------------------------
(* One process: what the freshness file records.                           *)

LEMMA RecordedKept ==
    ASSUME file'["fresh"] = file["fresh"] PROVE \A c : Recorded(c)' = Recorded(c)
BY DEF Recorded, exists

LEMMA InstalledKept ==
    ASSUME NEW c, Recorded(c)' = Recorded(c), file'[c] = file[c] PROVE Installed(c)' = Installed(c)
BY DEF Installed, Whole

\* A damaged or missing application is no recorded Update.
LEMMA NothingRecorded ==
    ASSUME TypeInv, NEW d \in Processes, RecordInv(d), faults = 0, proc[d].step # "payload",
           NEW c \in Commands, file[c].is # "whole"
    PROVE  ~(Recorded(c) > 0)
<1>1. Installed(c) => file[c].is = "whole"
  BY DEF Installed, Whole
<1> QED BY <1>1 DEF RecordInv

\* The name of an application is not the name of another file.
LEMMA AppNames ==
    \A c \in Commands : c \in Files /\ c \notin {"catalog", "json", "agent", "fresh"}
BY NoneAssumption DEF Files

LEMMA QuietRecord ==
    ASSUME TypeInv, NEW d \in Processes, WriteInv(d), RecordInv(d), Quiet(d)
    PROVE  RecordInv(d)'
<1>1. /\ UNCHANGED file /\ proc'[d].step # "payload"
      /\ faults' = 0 => faults = 0 /\ proc[d].step # "payload"
  BY QuietStep DEF Amid
<1>2. \A c : Recorded(c)' = Recorded(c)
  BY <1>1, RecordedKept
<1> QED BY <1>1, <1>2, InstalledKept DEF RecordInv

LEMMA CopyOpensRecord ==
    ASSUME TypeInv, NEW d \in Processes, WriteInv(d), RecordInv(d), CopyOpens(d)
    PROVE  RecordInv(d)'
<1>1. /\ Kept(d) /\ proc[d].step \in InPlace /\ proc'[d].step = proc[d].step
      /\ proc[d].step # "override" => ~exists(Target(d))
      /\ \A f \in Files : f # Target(d) => file'[f] = file[f]
  BY CopyOpensEffect
<1>2. file'["fresh"] = file["fresh"] /\ proc[d].step # "payload"
  BY <1>1, FreshTarget DEF InPlace
<1>3. \A c : Recorded(c)' = Recorded(c)
  BY <1>2, RecordedKept
<1>4. ASSUME NEW c \in Commands, faults = 0, Recorded(c) > 0 PROVE file'[c] = file[c]
  <2>1. file[c].is = "whole"
    BY <1>2, <1>4, NothingRecorded
  <2>2. c # Target(d)
    BY <1>1, <2>1, Targets, AppNames DEF exists
  <2> QED BY <1>1, <2>2, AppNames
<1> QED BY <1>1, <1>2, <1>3, <1>4, InstalledKept DEF RecordInv, Kept

LEMMA AtomicOpensRecord ==
    ASSUME TypeInv, NEW d \in Processes, WriteInv(d), RecordInv(d), AtomicOpens(d)
    PROVE  RecordInv(d)'
<1>1. Kept(d) /\ proc'[d].step = proc[d].step /\ file' = file
  BY AtomicOpensEffect
<1>2. \A c : Recorded(c)' = Recorded(c)
  BY <1>1, RecordedKept
<1> QED BY <1>1, <1>2, InstalledKept DEF RecordInv, Kept

LEMMA WriteClosesRecord ==
    ASSUME TypeInv, NEW d, Processes = {d}, WriteInv(d), RecordInv(d), WriteCloses(d)
    PROVE  RecordInv(d)'
<1>1. CASE proc[d].step \in Atomic
  <2>1. Kept(d) /\ proc'[d].step = proc[d].step /\ file' = file
    BY <1>1, WriteClosesEffect
  <2>2. \A c : Recorded(c)' = Recorded(c)
    BY <2>1, RecordedKept
  <2> QED BY <2>1, <2>2, InstalledKept DEF RecordInv, Kept
<1>2. CASE proc[d].step \in InPlace
  <2>1. /\ Kept(d) /\ proc'[d].step = Following[proc[d].step]
        /\ file[Target(d)] = Damaged(CopySource(d))
        /\ \A f \in Files : f # Target(d) => file'[f] = file[f]
    BY <1>2, WriteClosesEffect
  <2>2. file'["fresh"] = file["fresh"] /\ proc[d].step # "payload" /\ proc'[d].step # "payload"
    BY <1>2, <2>1, FreshTarget DEF InPlace, Following
  <2>3. \A c : Recorded(c)' = Recorded(c)
    BY <2>2, RecordedKept
  <2>4. ASSUME NEW c \in Commands, faults = 0, Recorded(c) > 0 PROVE file'[c] = file[c]
    <3>1. file[c].is = "whole"
      BY <2>2, <2>4, NothingRecorded
    <3>2. c # Target(d)
      BY <2>1, <3>1 DEF Damaged
    <3> QED BY <2>1, <3>2, AppNames
  <2> QED BY <2>1, <2>2, <2>3, <2>4, InstalledKept DEF RecordInv, Kept
<1> QED BY <1>1, <1>2, WriteClosesEffect

\* The freshness map that is installed, and the one that is left alone.
LEMMA RenameRecorded ==
    ASSUME TypeInv, NEW d \in Processes, WriteInv(d), Rename(d)
    PROVE  /\ proc[d].step = "fresh" =>
                 /\ Recorded(proc[d].command)' = proc[d].update.sequence
                 /\ \A c \in Commands : c # proc[d].command => Recorded(c)' = Recorded(c)
           /\ proc[d].step # "fresh" => \A c : Recorded(c)' = Recorded(c)
<1>1. /\ Kept(d) /\ proc[d].step \in Atomic /\ Target(d) \in Files /\ file'[Target(d)] = Whole(AtomicValue(d))
      /\ \A f \in Files : f # Target(d) => file'[f] = file[f]
  BY RenameEffect
<1>2. CASE proc[d].step # "fresh"
  BY <1>1, <1>2, FreshTarget, RecordedKept
<1>3. CASE proc[d].step = "fresh"
  <2> DEFINE old == IF exists("fresh") THEN file["fresh"].value ELSE [c \in Commands |-> 0]
             u == proc[d].update
  <2>1. u.command = proc[d].command /\ proc[d].command \in Commands
    BY <1>3 DEF TypeInv, PlaceInv, Exchange
  <2>2. file'["fresh"] = Whole([old EXCEPT ![u.command] = u.sequence])
    BY <1>1, <1>3, Targets DEF AtomicValue
  <2>3. exists("fresh") => file["fresh"].value \in Freshness
    <3>1. file["fresh"] \in Content("fresh")
      BY DEF TypeInv, TypeOK, Files
    <3> QED BY <3>1, ValueTypes DEF Content, exists, NoFile
  <2>4. DOMAIN old = Commands /\ \A c \in Commands : old[c] = Recorded(c)
    BY <2>3 DEF Freshness, Recorded
  <2> HIDE DEF old
  <2>5. \A c : Recorded(c)' = [old EXCEPT ![u.command] = u.sequence][c]
    BY <2>2 DEF Recorded, exists, Whole
  <2> HIDE DEF u
  <2>6. /\ [old EXCEPT ![u.command] = u.sequence][u.command] = u.sequence
        /\ \A c \in Commands : c # u.command => [old EXCEPT ![u.command] = u.sequence][c] = old[c]
    BY <2>1, <2>4
  <2>7. Recorded(proc[d].command)' = u.sequence
    BY <1>1, <2>1, <2>5, <2>6 DEF Kept
  <2>8. ASSUME NEW c \in Commands, c # proc[d].command PROVE Recorded(c)' = Recorded(c)
    BY <2>1, <2>4, <2>5, <2>6, <2>8
  <2> QED BY <1>3, <2>7, <2>8 DEF u
<1> QED BY <1>2, <1>3

LEMMA RenameRecord ==
    ASSUME TypeInv, NEW d \in Processes, WriteInv(d), RecordInv(d), Rename(d)
    PROVE  RecordInv(d)'
<1>1. /\ Kept(d) /\ proc[d].step \in Atomic /\ proc'[d].step = Following[proc[d].step]
      /\ file'[Target(d)] = Whole(AtomicValue(d))
      /\ \A f \in Files : f # Target(d) => file'[f] = file[f]
  BY RenameEffect
<1>2. /\ proc[d].command \in Commands /\ proc[d].update \in Updates
      /\ proc[d].update.command = proc[d].command
  BY <1>1 DEF TypeInv, PlaceInv, Exchange, Atomic
<1>3. CASE proc[d].step = "fresh"
  <2>1. proc'[d].step = "payload" /\ Target(d) = "fresh"
    BY <1>1, <1>3, Targets DEF Following
  <2>2. \A c \in Commands : file'[c] = file[c]
    BY <1>1, <2>1, AppNames
  <2>3. /\ Recorded(proc[d].command)' = proc[d].update.sequence
        /\ \A c \in Commands : c # proc[d].command => Recorded(c)' = Recorded(c)
    BY <1>3, RenameRecorded
  <2>4. \A c \in Commands : c # proc[d].command => Installed(c)' = Installed(c)
    BY <2>2, <2>3, InstalledKept
  <2> QED BY <1>1, <1>2, <1>3, <2>1, <2>3, <2>4 DEF RecordInv, Kept
<1>4. CASE proc[d].step = "payload"
  <2>1. proc'[d].step = "promote" /\ Target(d) = proc[d].command /\ AtomicValue(d) = proc[d].update.build
    BY <1>1, <1>4, Targets DEF Following, AtomicValue
  <2>2. \A c \in Commands : c # proc[d].command => file'[c] = file[c]
    BY <1>1, <2>1, AppNames
  <2>3. file'[proc[d].command] = Whole(proc[d].update.build)
    BY <1>1, <2>1
  <2>4. \A c : Recorded(c)' = Recorded(c)
    BY <1>4, RenameRecorded
  <2>5. \A c \in Commands : c # proc[d].command => Installed(c)' = Installed(c)
    BY <2>2, <2>4, InstalledKept
  <2>6. proc[d].update.sequence = Recorded(proc[d].command)
    BY <1>4 DEF RecordInv
  <2>7. Installed(proc[d].command)'
    BY <1>1, <1>2, <2>3, <2>4, <2>6 DEF Installed, Whole, Kept
  <2> QED BY <1>1, <1>2, <1>4, <2>1, <2>4, <2>5, <2>7 DEF RecordInv, Kept
<1>5. CASE proc[d].step = "promote"
  <2>1. proc'[d].step = "resolve" /\ Target(d) = "catalog"
    BY <1>1, <1>5, Targets DEF Following
  <2>2. \A c \in Commands : file'[c] = file[c]
    BY <1>1, <2>1, AppNames
  <2>3. \A c : Recorded(c)' = Recorded(c)
    BY <1>5, RenameRecorded
  <2> QED BY <1>1, <1>5, <2>1, <2>2, <2>3, InstalledKept DEF RecordInv, Kept
<1> QED BY <1>1, <1>3, <1>4, <1>5 DEF Atomic

LEMMA RecordInductive ==
    ASSUME TypeInv, NEW d, Processes = {d}, WriteInv(d), RecordInv(d), [Next]_vars
    PROVE  RecordInv(d)'
<1>1. CASE UNCHANGED vars
  <2>1. \A c : Recorded(c)' = Recorded(c)
    BY <1>1, RecordedKept DEF vars
  <2> QED BY <1>1, <2>1, InstalledKept DEF RecordInv, vars
<1> QED BY <1>1, OneStep, QuietRecord, CopyOpensRecord, AtomicOpensRecord, WriteClosesRecord, RenameRecord

LEMMA InitOne ==
    ASSUME NEW d \in Processes, Init PROVE WriteInv(d) /\ RecordInv(d)
<1>1. /\ proc[d] = Down /\ \A f \in Files : file[f] = NoFile
      /\ history = [c \in Commands |-> <<>>] /\ faults = 0
  BY DEF Init
<1>2. Down.step = "down" /\ Down.phase = "none"
  BY DEF Down, Fresh
<1>3. file["fresh"].is = "absent" /\ \A c : Recorded(c) = 0
  BY <1>1 DEF Files, NoFile, Recorded, exists
<1>4. WriteInv(d)
  BY <1>1, <1>2, <1>3 DEF WriteInv
<1> QED BY <1>1, <1>2, <1>3, <1>4 DEF RecordInv

\* When one process has the state directory and nothing has failed, an Update recorded as
\* installed is the application that is there once the process rests
\* (write_dev_sequence_freshness before install_payload, twep_wr_ensure_state_app).
THEOREM RecordedCorrect ==
    ASSUME NEW d, Processes = {d} PROVE Spec => []RecordedIsInstalled
<1>1. Init => TypeInv /\ WriteInv(d) /\ RecordInv(d)
  BY InitTypes, InitOne
<1>2. TypeInv /\ WriteInv(d) /\ RecordInv(d) /\ [Next]_vars => (TypeInv /\ WriteInv(d) /\ RecordInv(d))'
  BY TypesInductive, WritesInductive, RecordInductive
<1>3. RecordInv(d) => RecordedIsInstalled
  BY DEF RecordInv, RecordedIsInstalled, Recorded, Installed
<1> QED BY <1>1, <1>2, <1>3, PTL DEF Spec

----------------------------------------------------------------------------
(* One process: the order of the installs.                                 *)


\* A step that installs nothing and records nothing.
LEMMA SequenceKept ==
    ASSUME NEW d \in Processes, SequenceInv(d), history' = history, file'["fresh"] = file["fresh"],
           proc'[d].step \in {"post", "fresh"} => proc'[d].update.sequence > Recorded(proc'[d].command),
           proc'[d].step = "payload" => proc[d].step = "payload" /\ proc'[d].command = proc[d].command
    PROVE  SequenceInv(d)'
<1>1. \A c : Recorded(c)' = Recorded(c)
  BY RecordedKept
<1>2. InstallsIncrease'
  BY DEF SequenceInv, InstallsIncrease
<1>3. \A c \in Commands : \A i \in DOMAIN history'[c] : history'[c][i] <= Recorded(c)'
  BY <1>1 DEF SequenceInv
<1>4. proc'[d].step \in {"post", "fresh"} => proc'[d].update.sequence > Recorded(proc[d].command)'
  BY <1>1
<1>5. proc'[d].step = "payload" =>
         \A i \in DOMAIN history'[proc'[d].command] :
            history'[proc'[d].command][i] < Recorded(proc[d].command)'
  BY <1>1 DEF SequenceInv
<1> QED BY <1>2, <1>3, <1>4, <1>5 DEF SequenceInv

\* dev_sequence_is_fresh, without a protected object.
LEMMA FreshIsAbove ==
    ASSUME TypeInv, SealedFreshness = NoValue, NEW u \in Updates, dev_sequence_is_fresh(u)
    PROVE  u.sequence > Recorded(u.command)
<1>1. u.sequence \in 1..MaxSequence /\ \A n \in 1..MaxSequence : n > 0
  BY UpdatesAssumption
<1>2. CASE exists("fresh")
  BY <1>2 DEF dev_sequence_is_fresh, Recorded
<1>3. CASE ~exists("fresh")
  BY <1>1, <1>3 DEF Recorded
<1> QED BY <1>2, <1>3

LEMMA QuietSequence ==
    ASSUME TypeInv, NEW d \in Processes, WriteInv(d), SequenceInv(d), Quiet(d),
           SealedFreshness = NoValue
    PROVE  SequenceInv(d)'
<1>1. UNCHANGED <<file, history>> /\ proc'[d].step # "payload"
  BY QuietStep
<1>2. ASSUME proc'[d].step \in {"post", "fresh"}
      PROVE  proc'[d].update.sequence > Recorded(proc'[d].command)
  <2>1. Moves(d, proc'[d])
    BY <1>2, QuietStep
  <2>2. proc[d].step \in InPlace => Following[proc[d].step] \notin {"post", "fresh"}
    BY DEF Following, InPlace
  <2>3. CASE proc'[d].step = "post"
    <3>1. /\ proc'[d].update \in Updates /\ proc'[d].update.command = proc'[d].command
          /\ dev_sequence_is_fresh(proc'[d].update)
      BY <2>1, <2>2, <2>3 DEF Moves
    <3> QED BY <3>1, FreshIsAbove
  <2>4. CASE proc'[d].step = "fresh"
    <3>1. Same(d, proc'[d]) /\ proc[d].step = "post"
      BY <2>1, <2>2, <2>4 DEF Moves
    <3> QED BY <3>1 DEF Same, SequenceInv
  <2> QED BY <1>2, <2>3, <2>4
<1> QED BY <1>1, <1>2, SequenceKept

LEMMA OpensSequence ==
    ASSUME TypeInv, NEW d \in Processes, SequenceInv(d), CopyOpens(d) \/ AtomicOpens(d)
    PROVE  SequenceInv(d)'
<1>1. Kept(d) /\ proc'[d].step = proc[d].step /\ history' = history
  BY CopyOpensEffect, AtomicOpensEffect
<1>2. file'["fresh"] = file["fresh"]
  <2>1. CASE CopyOpens(d)
    <3>1. proc[d].step \in InPlace /\ \A f \in Files : f # Target(d) => file'[f] = file[f]
      BY <2>1, CopyOpensEffect
    <3> QED BY <3>1, FreshTarget DEF InPlace
  <2>2. CASE AtomicOpens(d)
    BY <2>2, AtomicOpensEffect
  <2> QED BY <2>1, <2>2
<1>3. proc'[d].step \in {"post", "fresh"} => proc'[d].update.sequence > Recorded(proc'[d].command)
  BY <1>1 DEF SequenceInv, Kept
<1> QED BY <1>1, <1>2, <1>3, SequenceKept DEF Kept

LEMMA ClosesSequence ==
    ASSUME TypeInv, NEW d, Processes = {d}, WriteInv(d), SequenceInv(d), WriteCloses(d)
    PROVE  SequenceInv(d)'
<1>1. Kept(d) /\ history' = history
  BY WriteClosesEffect
<1>2. CASE proc[d].step \in Atomic
  <2>1. file' = file /\ proc'[d].step = proc[d].step
    BY <1>2, WriteClosesEffect
  <2>2. proc'[d].step \in {"post", "fresh"} => proc'[d].update.sequence > Recorded(proc'[d].command)
    BY <1>1, <2>1 DEF SequenceInv, Kept
  <2> QED BY <1>1, <2>1, <2>2, SequenceKept DEF Kept
<1>3. CASE proc[d].step \in InPlace
  <2>1. proc'[d].step = Following[proc[d].step] /\ \A f \in Files : f # Target(d) => file'[f] = file[f]
    BY <1>3, WriteClosesEffect
  <2>2. file'["fresh"] = file["fresh"] /\ proc'[d].step \notin {"post", "fresh", "payload"}
    BY <1>3, <2>1, FreshTarget DEF InPlace, Following
  <2> QED BY <1>1, <2>2, SequenceKept
<1> QED BY <1>2, <1>3, WriteClosesEffect

\* A sequence that increases, and a greater number after it.
LEMMA IncreaseAppend ==
    ASSUME NEW s \in Seq(Nat), NEW n \in Nat,
           \A i, j \in DOMAIN s : i < j => s[i] < s[j], \A i \in DOMAIN s : s[i] < n
    PROVE  /\ \A i, j \in DOMAIN Append(s, n) : i < j => Append(s, n)[i] < Append(s, n)[j]
           /\ \A i \in DOMAIN Append(s, n) : Append(s, n)[i] <= n
<1>1. /\ DOMAIN s = 1..Len(s) /\ Len(s) \in Nat /\ DOMAIN Append(s, n) = 1..(Len(s) + 1)
      /\ Append(s, n)[Len(s) + 1] = n /\ \A i \in 1..Len(s) : Append(s, n)[i] = s[i]
  OBVIOUS
<1>2. \A i \in 1..(Len(s) + 1) : i \in 1..Len(s) \/ i = Len(s) + 1
  BY <1>1
<1>3. \A i \in DOMAIN s : s[i] \in Nat
  OBVIOUS
<1>4. \A i \in DOMAIN Append(s, n) : Append(s, n)[i] <= n
  BY <1>1, <1>2, <1>3
<1>5. ASSUME NEW i \in DOMAIN Append(s, n), NEW j \in DOMAIN Append(s, n), i < j
      PROVE  Append(s, n)[i] < Append(s, n)[j]
  <2>1. i \in 1..Len(s)
    BY <1>1, <1>2, <1>5
  <2>2. CASE j \in 1..Len(s)
    BY <1>1, <1>5, <2>1, <2>2
  <2>3. CASE j = Len(s) + 1
    BY <1>1, <2>1, <2>3
  <2> QED BY <1>1, <1>2, <2>2, <2>3
<1> QED BY <1>4, <1>5

LEMMA RenameSequence ==
    ASSUME TypeInv, NEW d \in Processes, WriteInv(d), RecordInv(d), SequenceInv(d), Rename(d)
    PROVE  SequenceInv(d)'
<1>1. /\ Kept(d) /\ proc[d].step \in Atomic /\ Target(d) \in Files
      /\ proc'[d].step = Following[proc[d].step]
      /\ \A f \in Files : f # Target(d) => file'[f] = file[f]
      /\ history' = IF proc[d].step = "payload"
                    THEN [history EXCEPT ![proc[d].command] = Append(@, proc[d].update.sequence)]
                    ELSE history
  BY RenameEffect
<1>2. /\ proc[d].command \in Commands /\ proc[d].update \in Updates
      /\ proc[d].update.command = proc[d].command
  BY <1>1 DEF TypeInv, PlaceInv, Exchange, Atomic
<1>3. proc[d].update.sequence \in 1..MaxSequence /\ \A n \in 1..MaxSequence : n \in Nat
  BY <1>2, UpdatesAssumption
<1>4. history \in [Commands -> Seq(1..MaxSequence)]
  BY DEF TypeInv, TypeOK
<1>5. \A c \in Commands : history[c] \in Seq(Nat) /\ \A i \in DOMAIN history[c] : history[c][i] \in Nat
  <2> DEFINE N == 1..MaxSequence
  <2>1. history \in [Commands -> Seq(N)] /\ \A n \in N : n \in Nat
    BY <1>3, <1>4
  <2> HIDE DEF N
  <2> QED BY <2>1
<1>6. CASE proc[d].step = "fresh"
  <2>1. proc'[d].step = "payload" /\ history' = history
    BY <1>1, <1>6 DEF Following
  <2>2. /\ Recorded(proc[d].command)' = proc[d].update.sequence
        /\ \A c \in Commands : c # proc[d].command => Recorded(c)' = Recorded(c)
    BY <1>6, RenameRecorded
  <2>3. proc'[d].command = proc[d].command /\ proc[d].update.sequence > Recorded(proc[d].command)
    BY <1>1, <1>6 DEF SequenceInv, Kept
  <2>4. Recorded(proc[d].command) \in Nat
    <3>1. file["fresh"] \in Content("fresh")
      BY DEF TypeInv, TypeOK, Files
    <3>2. exists("fresh") => file["fresh"].value \in [Commands -> 0..MaxSequence]
      BY <3>1, ValueTypes DEF Content, exists, NoFile, Freshness
    <3>3. exists("fresh") => file["fresh"].value[proc[d].command] \in 0..MaxSequence
      BY <1>2, <3>2
    <3>4. \A n \in 0..MaxSequence : n \in Nat
      BY UpdatesAssumption
    <3> QED BY <3>3, <3>4 DEF Recorded
  <2> DEFINE n == proc[d].update.sequence
             c == proc[d].command
             r == Recorded(c)
  <2>5. n \in Nat /\ r \in Nat /\ n > r /\ \A i \in DOMAIN history[c] : history[c][i] \in Nat /\ history[c][i] <= r
    BY <1>2, <1>3, <1>5, <2>3, <2>4 DEF SequenceInv
  <2>6. \A i \in DOMAIN history[c] : history[c][i] < n
    <3> HIDE DEF n, c, r
    <3> QED BY <2>5
  <2>7. \A e \in Commands : \A i \in DOMAIN history[e] : history'[e][i] <= Recorded(e)'
    <3> SUFFICES ASSUME NEW e \in Commands, NEW i \in DOMAIN history[e]
                 PROVE  history'[e][i] <= Recorded(e)'
      OBVIOUS
    <3>1. CASE e = c
      <4>1. Recorded(e)' = n
        BY <2>2, <2>3, <3>1
      <4>2. history'[e][i] < n /\ history'[e][i] \in Nat
        BY <2>1, <2>5, <2>6, <3>1
      <4> QED BY <2>5, <4>1, <4>2
    <3>2. CASE e # c
      <4>1. Recorded(e)' = Recorded(e)
        BY <2>2, <3>2
      <4> QED BY <2>1, <4>1 DEF SequenceInv
    <3> QED BY <3>1, <3>2
  <2>8. InstallsIncrease'
    BY <2>1 DEF SequenceInv, InstallsIncrease
  <2>9. \A i \in DOMAIN history'[proc'[d].command] :
            history'[proc'[d].command][i] < Recorded(proc[d].command)'
    BY <2>1, <2>2, <2>3, <2>6
  <2> QED BY <2>1, <2>7, <2>8, <2>9 DEF SequenceInv
<1>7. CASE proc[d].step = "payload"
  <2>1. /\ proc'[d].step = "promote"
        /\ history' = [history EXCEPT ![proc[d].command] = Append(@, proc[d].update.sequence)]
    BY <1>1, <1>7 DEF Following
  <2>2. \A c : Recorded(c)' = Recorded(c)
    BY <1>7, RenameRecorded
  <2>3. proc[d].update.sequence = Recorded(proc[d].command)
    BY <1>7 DEF RecordInv
  <2> DEFINE n == proc[d].update.sequence
             c == proc[d].command
             s == history[c]
  <2>4. /\ s \in Seq(Nat) /\ n \in Nat /\ \A i \in DOMAIN s : s[i] < n
        /\ \A i, j \in DOMAIN s : i < j => s[i] < s[j]
    BY <1>2, <1>3, <1>5, <1>7, <2>3 DEF SequenceInv, InstallsIncrease
  <2>5. history'[c] = Append(s, n) /\ \A e \in Commands : e # c => history'[e] = history[e]
    BY <1>2, <1>4, <2>1
  <2> HIDE DEF s, n
  <2>6. /\ \A i, j \in DOMAIN Append(s, n) : i < j => Append(s, n)[i] < Append(s, n)[j]
        /\ \A i \in DOMAIN Append(s, n) : Append(s, n)[i] <= n
    BY <2>4, IncreaseAppend
  <2>7. InstallsIncrease'
    BY <2>5, <2>6 DEF SequenceInv, InstallsIncrease
  <2>8. \A e \in Commands : \A i \in DOMAIN history'[e] : history'[e][i] <= Recorded(e)'
    BY <2>2, <2>3, <2>5, <2>6 DEF SequenceInv, n
  <2> QED BY <2>1, <2>7, <2>8 DEF SequenceInv
<1>8. CASE proc[d].step = "promote"
  <2>1. proc'[d].step = "resolve" /\ history' = history
    BY <1>1, <1>8 DEF Following
  <2>2. file'["fresh"] = file["fresh"]
    BY <1>1, <1>8, FreshTarget
  <2> QED BY <2>1, <2>2, SequenceKept
<1> QED BY <1>1, <1>6, <1>7, <1>8 DEF Atomic

LEMMA SequenceInductive ==
    ASSUME TypeInv, NEW d, Processes = {d}, WriteInv(d), RecordInv(d), SequenceInv(d), [Next]_vars,
           SealedFreshness = NoValue
    PROVE  SequenceInv(d)'
<1>1. CASE UNCHANGED vars
  <2>1. proc'[d].step \in {"post", "fresh"} => proc'[d].update.sequence > Recorded(proc'[d].command)
    BY <1>1 DEF SequenceInv, vars
  <2> QED BY <1>1, <2>1, SequenceKept DEF vars
<1> QED BY <1>1, OneStep, QuietSequence, OpensSequence, ClosesSequence, RenameSequence

\* When one process has the state directory and there is no protected freshness object, the
\* Updates of a command are installed in strictly increasing order, each at most once, whatever
\* crashes and failed writes come in between (post_success: freshness before payload).
THEOREM InstallsCorrect ==
    ASSUME NEW d, Processes = {d}, SealedFreshness = NoValue PROVE Spec => []InstallsIncrease
<1> DEFINE I == TypeInv /\ WriteInv(d) /\ RecordInv(d) /\ SequenceInv(d)
<1>1. Init => I
  <2> SUFFICES ASSUME Init PROVE SequenceInv(d)
    BY InitTypes, InitOne
  <2>1. proc[d].step = "down" /\ history = [c \in Commands |-> <<>>]
    BY DEF Init, Down, Fresh
  <2> QED BY <2>1 DEF SequenceInv, InstallsIncrease
<1>2. I /\ [Next]_vars => I'
  BY TypesInductive, WritesInductive, RecordInductive, SequenceInductive
<1>3. I => InstallsIncrease
  BY DEF SequenceInv
<1> QED BY <1>1, <1>2, <1>3, PTL DEF Spec

----------------------------------------------------------------------------
(* One process, and nothing has failed: no alarm.                          *)

LEMMA EntryKept ==
    ASSUME file'["catalog"] = file["catalog"] PROVE \A c : Entry(c)' = Entry(c)
BY DEF Entry, exists

LEMMA SettledKept ==
    ASSUME NEW c, Settled(c), file'[c] = file[c], Entry(c)' = Entry(c) PROVE Settled(c)'
BY DEF Settled, Whole, NoFile

\* Outside of a copy of an application and of an install, every application is settled.
LEMMA Settles ==
    ASSUME NEW d, NEW c \in Commands, CatalogInv(d), Entry(c) # NoBuild,
           proc[d].step # "promote" \/ proc[d].command # c,
           proc[d].step # "app" \/ proc[d].phase # "opened" \/ proc[d].command # c
    PROVE  Entry(c) \in Signed /\ Settled(c)
BY DEF CatalogInv, AppInv

LEMMA AgentContent ==
    ASSUME TypeInv, file["agent"].is = "whole" PROVE file["agent"] = Whole(AgentImage)
<1>1. file["agent"] \in Content("agent")
  BY DEF TypeInv, TypeOK, Files
<1> QED BY <1>1, ValueTypes DEF Content, Whole, NoFile

\* A file is missing, whole or damaged.
LEMMA ThreeWays ==
    ASSUME TypeInv, NEW f \in Files
    PROVE  file[f] = NoFile \/ file[f].is \in {"whole", "damaged"}
BY DEF TypeInv, TypeOK, Content

LEMMA NotAlarming ==
    ASSUME TypeInv, NEW d \in Processes, AgentInv(d), CatalogInv(d), RequestInv(d)
    PROVE  ~Alarming(d)
<1>1. ~(proc[d].step = "launch" /\ file["agent"] # Whole(AgentImage))
  BY DEF AgentInv
<1>2. ASSUME proc[d].step \in {"verify", "load"}
      PROVE  /\ proc[d].entry \in Signed
             /\ file[proc[d].command] \in {NoFile, Whole(proc[d].entry)}
  <2>1. proc[d].entry = Entry(proc[d].command) /\ proc[d].entry # NoBuild
    BY <1>2 DEF RequestInv
  <2>2. proc[d].command \in Commands
    BY <1>2 DEF TypeInv, PlaceInv
  <2>3. Entry(proc[d].command) \in Signed /\ Settled(proc[d].command)
    BY <1>2, <2>1, <2>2, Settles
  <2> QED BY <2>1, <2>3 DEF Settled
<1>3. proc[d].step = "load" => Executable(d, file[proc[d].command])
  BY <1>2 DEF RequestInv, Executable, Whole
<1> QED BY <1>1, <1>2, <1>3 DEF Alarming

\* The Catalog File and the applications are left alone by a step outside of a copy of an
\* application and of an install.
LEMMA CatalogKept ==
    ASSUME NEW d, CatalogInv(d), file'["catalog"] = file["catalog"],
           \A c \in Commands : file'[c] = file[c],
           proc[d].step # "promote", proc[d].step # "app" \/ proc[d].phase # "opened",
           file["catalog"].is = "damaged" => proc'[d].step = "catalog" /\ proc'[d].phase = "opened"
    PROVE  CatalogInv(d)'
<1>1. \A c : Entry(c)' = Entry(c)
  BY EntryKept
<1>2. ~exists("catalog")' => \A c \in Commands : file'[c] = NoFile
  BY DEF CatalogInv, exists
<1>3. ASSUME NEW c \in Commands, Entry(c)' # NoBuild PROVE Entry(c)' \in Signed /\ AppInv(d, c)'
  <2>1. Entry(c) \in Signed /\ Settled(c)
    BY <1>1, <1>3, Settles
  <2>2. Settled(c)'
    BY <1>1, <2>1, SettledKept
  <2> QED BY <1>1, <2>1, <2>2 DEF AppInv
<1> QED BY <1>2, <1>3 DEF CatalogInv, NoFile

LEMMA QuietAlarm ==
    ASSUME TypeInv, NEW d \in Processes, WriteInv(d), AlarmInv(d), Quiet(d)
    PROVE  AlarmInv(d)'
<1> SUFFICES ASSUME faults' = 0
             PROVE  /\ answer'[d] \notin Alarms
                    /\ AgentInv(d)' /\ CatalogInv(d)' /\ RequestInv(d)'
  BY DEF AlarmInv, Alarms
<1>1. /\ UNCHANGED <<file, history>> /\ proc'[d].phase = "none" /\ proc'[d].step # "promote"
      /\ faults = 0 /\ proc[d].phase = "none" /\ proc[d].step # "promote"
  BY QuietStep DEF Amid
<1>2. answer[d] \notin Alarms /\ AgentInv(d) /\ CatalogInv(d) /\ RequestInv(d)
  BY <1>1 DEF AlarmInv, Alarms
<1>3. CatalogInv(d)'
  <2>1. file["catalog"].is # "damaged"
    BY <1>1, <1>2 DEF CatalogInv
  <2> QED BY <1>1, <1>2, <2>1, CatalogKept
<1>4. file["agent"].is # "damaged"
  BY <1>1, <1>2 DEF AgentInv
<1>5. \A c : Entry(c)' = Entry(c)
  BY <1>1, EntryKept
<1>6. CASE /\ proc'[d].step \in {"down", "idle"} /\ proc'[d].again = FALSE
           /\ answer'[d] \in Alarms => answer'[d] = answer[d] \/ Alarming(d)
  <2>1. ~Alarming(d)
    BY <1>2, NotAlarming
  <2> QED BY <1>1, <1>2, <1>3, <1>4, <1>6, <2>1 DEF AgentInv, RequestInv
<1>7. CASE Moves(d, proc'[d]) /\ answer' = answer
  <2>0. proc[d].step \notin {"down", "idle"} => proc[d].command \in Commands
    BY DEF TypeInv, PlaceInv
  <2>1. CASE proc[d].step = "idle"
    <3>1. proc'[d].step \in {"agent", "catalog"} /\ proc'[d].again = proc[d].again
      BY <1>7, <2>1 DEF Moves, InPlace
    <3> QED BY <1>1, <1>2, <1>3, <1>4, <1>7, <2>1, <3>1 DEF AgentInv, RequestInv
  <2>2. CASE proc[d].step \in InPlace
    <3>1. /\ proc'[d].step = Following[proc[d].step]
          /\ proc[d].step = "override" \/ exists(Target(d))
          /\ proc'[d].command = proc[d].command /\ proc'[d].again = (proc[d].again \/ proc[d].step = "app")
      BY <1>7, <2>2 DEF Moves, InPlace
    <3>2. proc'[d].step \in {"json", "override", "agent", "launch"}
          /\ (proc'[d].step = "launch" => proc[d].step = "agent")
      BY <2>2, <3>1 DEF InPlace, Following
    <3>3. proc'[d].step = "launch" => file["agent"] = Whole(AgentImage)
      <4> SUFFICES ASSUME proc'[d].step = "launch" PROVE file["agent"].is = "whole"
        BY AgentContent
      <4>1. exists("agent")
        BY <3>1, <3>2, Targets
      <4>2. "agent" \in Files
        BY DEF Files
      <4> QED BY <1>4, <4>1, <4>2, ThreeWays DEF exists, NoFile
    <3>4. proc'[d].again => exists(proc[d].command)
      BY <1>2, <3>1, Targets DEF RequestInv
    <3>5. AgentInv(d)'
      BY <1>1, <1>4, <3>3 DEF AgentInv, Whole
    <3>6. RequestInv(d)'
      BY <1>1, <3>1, <3>2, <3>4 DEF RequestInv, exists
    <3> QED BY <1>2, <1>3, <1>7, <3>5, <3>6
  <2>3. CASE proc[d].step = "session"
    <3>1. /\ proc'[d].step \in {"post", "session", "resolve"} /\ proc'[d].again = proc[d].again
          /\ proc'[d].command = proc[d].command
      BY <1>7, <2>3 DEF Moves, InPlace, Same
    <3> QED BY <1>1, <1>2, <1>3, <1>4, <1>7, <3>1 DEF AgentInv, RequestInv, exists
  <2>4. CASE proc[d].step = "resolve"
    <3>1. /\ proc'[d].step = "verify" /\ proc'[d].again = proc[d].again
          /\ proc'[d].command = proc[d].command /\ proc'[d].entry # NoBuild
          /\ proc'[d].entry = file["catalog"].value[proc[d].command]
      BY <1>7, <2>4 DEF Moves, InPlace
    <3>2. exists("catalog")
      BY <2>4 DEF TypeInv, PlaceInv, Prepared
    <3>3. proc'[d].entry = Entry(proc[d].command)
      BY <3>1, <3>2 DEF Entry
    <3>4. proc'[d].entry = Entry(proc[d].command)'
      BY <1>5, <3>1, <3>3
    <3>5. proc'[d].again => exists(proc[d].command)
      BY <1>2, <3>1 DEF RequestInv
    <3>6. RequestInv(d)'
      BY <1>1, <3>1, <3>4, <3>5 DEF RequestInv, exists
    <3> QED BY <1>1, <1>2, <1>3, <1>4, <1>7, <3>1, <3>6 DEF AgentInv
  <2>5. CASE proc[d].step \in {"launch", "post"}
    <3>1. /\ proc'[d].step \in {"session", "resolve", "fresh"} /\ proc'[d].again = proc[d].again
          /\ proc'[d].command = proc[d].command
      BY <1>7, <2>5 DEF Moves, InPlace, Same
    <3> QED BY <1>1, <1>2, <1>3, <1>4, <1>7, <3>1 DEF AgentInv, RequestInv, exists
  <2>6. CASE proc[d].step \in {"verify", "exists"}
    <3>1. /\ Same(d, proc'[d]) /\ proc'[d].step \in {"load", "exists", "app"}
          /\ proc'[d].step = "load" => exists(proc[d].command)
      <4>1. proc[d].again => exists(proc[d].command)
        BY <1>2 DEF RequestInv
      <4> QED BY <1>7, <2>6, <4>1 DEF Moves, InPlace
    <3>2. /\ proc[d].entry = Entry(proc[d].command) /\ proc[d].entry # NoBuild
          /\ proc[d].again => exists(proc[d].command)
      BY <1>2, <2>6 DEF RequestInv
    <3>3. Settled(proc[d].command)
      BY <1>2, <2>0, <2>6, <3>2, Settles
    <3>4. proc'[d].step = "load" => file[proc[d].command] = Whole(proc[d].entry)
      BY <3>1, <3>2, <3>3 DEF Settled, exists, NoFile
    <3>5. proc'[d].entry = Entry(proc[d].command)'
      BY <1>5, <3>1, <3>2 DEF Same
    <3>6. RequestInv(d)'
      BY <1>1, <3>1, <3>2, <3>4, <3>5 DEF RequestInv, exists, Same, Whole
    <3> QED BY <1>1, <1>2, <1>3, <1>4, <1>7, <3>1, <3>6 DEF AgentInv
  <2> QED BY <1>7, <2>1, <2>2, <2>3, <2>4, <2>5, <2>6 DEF Moves
<1> QED BY <1>6, <1>7, QuietStep

\* The files a step does not write stay.
LEMMA Apart ==
    ASSUME TypeInv, NEW p \in Processes, proc[p].step \in InPlace \cup Atomic,
           \A f \in Files : f # Target(p) => file'[f] = file[f]
    PROVE  /\ proc[p].step \notin {"catalog", "override", "promote"} => file'["catalog"] = file["catalog"]
           /\ proc[p].step # "agent" => file'["agent"] = file["agent"]
           /\ proc[p].step \notin {"app", "payload"} => \A c \in Commands : file'[c] = file[c]
           /\ \A c \in Commands : c # proc[p].command => file'[c] = file[c]
<1>1. "catalog" \in Files /\ "agent" \in Files
  BY DEF Files
<1>2. proc[p].step \in {"app", "payload"} => Target(p) = proc[p].command /\ proc[p].command \in Commands
  BY Targets
<1>3. proc[p].step \notin {"app", "payload"} => Target(p) \in {"catalog", "json", "agent", "fresh"}
  BY Targets DEF InPlace, Atomic
<1>4. proc[p].step \notin {"catalog", "override", "promote"} => Target(p) # "catalog"
  BY <1>2, Targets, AppNames DEF InPlace, Atomic
<1>5. proc[p].step # "agent" => Target(p) # "agent"
  BY <1>2, Targets, AppNames DEF InPlace, Atomic
<1> QED BY <1>1, <1>2, <1>3, <1>4, <1>5, AppNames

\* An application that is there goes on being there.
LEMMA AppStays ==
    ASSUME NEW p \in Processes, file'[Target(p)].is # "absent",
           \A f \in Files : f # Target(p) => file'[f] = file[f]
    PROVE  \A c \in Commands : exists(c) => file'[c].is # "absent"
BY AppNames DEF exists

LEMMA CopyOpensAlarm ==
    ASSUME TypeInv, NEW d \in Processes, AlarmInv(d), CopyOpens(d), OverrideCatalog = NoValue,
           BuildConsistent
    PROVE  AlarmInv(d)'
<1> SUFFICES ASSUME faults' = 0
             PROVE  /\ answer'[d] \notin Alarms
                    /\ AgentInv(d)' /\ CatalogInv(d)' /\ RequestInv(d)'
  BY DEF AlarmInv, Alarms
<1>1. /\ Kept(d) /\ proc'[d].again = proc[d].again
      /\ proc[d].step \in InPlace /\ proc[d].phase = "none" /\ proc'[d].step = proc[d].step
      /\ proc'[d].phase = "opened" /\ CopySource(d) \notin {NoValue, NoBuild}
      /\ proc[d].step # "override" => ~exists(Target(d))
      /\ Target(d) \in Files /\ file'[Target(d)] = Damaged(CopySource(d))
      /\ \A f \in Files : f # Target(d) => file'[f] = file[f]
  BY CopyOpensEffect
<1>2. answer[d] \notin Alarms /\ AgentInv(d) /\ CatalogInv(d) /\ RequestInv(d)
  BY <1>1 DEF AlarmInv, Alarms, Kept
<1>3. proc[d].step # "override" /\ proc[d].command \in Commands
  BY <1>1 DEF CopySource, TypeInv, PlaceInv, InPlace
<1>4. /\ proc[d].step # "catalog" => file'["catalog"] = file["catalog"]
      /\ proc[d].step # "agent" => file'["agent"] = file["agent"]
      /\ proc[d].step # "app" => \A c \in Commands : file'[c] = file[c]
      /\ \A c \in Commands : c # proc[d].command => file'[c] = file[c]
  BY <1>1, <1>3, Apart DEF InPlace
<1>5. AgentInv(d)'
  BY <1>1, <1>2, <1>4 DEF AgentInv, InPlace
<1>6. file["catalog"].is # "damaged"
  BY <1>1, <1>2 DEF CatalogInv
<1>7. proc[d].again => exists(proc[d].command)'
  <2>1. \A c \in Commands : exists(c) => file'[c].is # "absent"
    <3>1. file'[Target(d)].is # "absent"
      BY <1>1 DEF Damaged
    <3> QED BY <1>1, <3>1, AppStays
  <2> QED BY <1>1, <1>2, <1>3, <2>1 DEF RequestInv, exists, Kept
<1>8. CatalogInv(d)' /\ RequestInv(d)'
  <2>1. CASE proc[d].step = "catalog"
    <3>1. /\ ~exists("catalog") /\ file'["catalog"] = Damaged(BuildCatalog)
          /\ \A c \in Commands : file'[c] = NoFile
      BY <1>1, <1>2, <1>4, <2>1, Targets DEF CopySource, CatalogInv
    <3>2. \A c : Entry(c)' = BuildCatalog[c]
      BY <3>1 DEF Entry, exists, Damaged
    <3>3. exists("catalog")'
      BY <3>1 DEF exists, Damaged
    <3>4. ASSUME NEW c \in Commands, Entry(c)' # NoBuild PROVE Entry(c)' \in Signed /\ AppInv(d, c)'
      <4>1. Settled(c)'
        BY <3>1, <3>2 DEF Settled, NoFile
      <4> QED BY <3>2, <3>4, <4>1 DEF BuildConsistent, AppInv
    <3>5. CatalogInv(d)'
      BY <1>1, <2>1, <3>3, <3>4 DEF CatalogInv
    <3> QED BY <1>1, <1>2, <1>7, <2>1, <3>5 DEF RequestInv, Kept
  <2>2. CASE proc[d].step \in {"json", "agent"}
    <3>1. CatalogInv(d)'
      BY <1>2, <1>4, <1>6, <2>2, CatalogKept
    <3> QED BY <1>1, <1>2, <1>7, <2>2, <3>1 DEF RequestInv, Kept
  <2>3. CASE proc[d].step = "app"
    <3>1. Target(d) = proc[d].command /\ ~exists(proc[d].command) /\ exists("catalog")
      BY <1>1, <2>3, Targets DEF TypeInv, PlaceInv, Prepared
    <3>2. \A c : Entry(c)' = Entry(c)
      BY <1>4, <2>3, EntryKept
    <3>3. exists("catalog")' /\ file'["catalog"].is # "damaged"
      BY <1>4, <1>6, <2>3, <3>1 DEF exists
    <3>4. ASSUME NEW c \in Commands, Entry(c)' # NoBuild PROVE Entry(c)' \in Signed /\ AppInv(d, c)'
      <4>1. Entry(c) \in Signed /\ Settled(c)
        BY <1>1, <1>2, <2>3, <3>2, <3>4, Settles
      <4>2. CASE c = proc[d].command
        <5>1. file[c] # Whole(Entry(c))
          BY <3>1, <4>2 DEF exists, Whole
        <5>2. Entry(c) = BuildCatalog[c]
          BY <4>1, <5>1 DEF Settled
        <5> QED BY <1>1, <2>3, <3>2, <4>1, <4>2, <5>2 DEF AppInv, Kept
      <4>3. CASE c # proc[d].command
        <5>1. Settled(c)'
          BY <1>4, <3>2, <4>1, <4>3, SettledKept
        <5> QED BY <3>2, <4>1, <5>1 DEF AppInv
      <4> QED BY <4>2, <4>3
    <3>5. CatalogInv(d)'
      BY <3>3, <3>4 DEF CatalogInv
    <3>6. proc'[d].entry = Entry(proc[d].command)' /\ proc'[d].entry # NoBuild
      BY <1>1, <1>2, <2>3, <3>2 DEF RequestInv, Kept
    <3> QED BY <1>1, <1>2, <1>7, <2>3, <3>5, <3>6 DEF RequestInv, Kept
  <2> QED BY <1>1, <1>3, <2>1, <2>2, <2>3 DEF InPlace
<1> QED BY <1>1, <1>2, <1>5, <1>8 DEF Kept

\* Only a temporary file is written.
LEMMA AtomicAlarm ==
    ASSUME TypeInv, NEW d \in Processes, AlarmInv(d), Kept(d), proc[d].step \in Atomic, file' = file,
           proc'[d].step = proc[d].step, proc'[d].again = proc[d].again
    PROVE  AlarmInv(d)'
<1> SUFFICES ASSUME faults' = 0
             PROVE  /\ answer'[d] \notin Alarms
                    /\ AgentInv(d)' /\ CatalogInv(d)' /\ RequestInv(d)'
  BY DEF AlarmInv, Alarms
<1>1. answer[d] \notin Alarms /\ AgentInv(d) /\ CatalogInv(d) /\ RequestInv(d)
  BY DEF AlarmInv, Alarms, Kept
<1>2. \A c : Entry(c)' = Entry(c)
  BY EntryKept
<1>3. AgentInv(d)'
  BY <1>1 DEF AgentInv, Atomic
<1>4. CatalogInv(d)'
  <2>1. ~exists("catalog")' => \A c \in Commands : file'[c] = NoFile
    BY <1>1 DEF CatalogInv, exists
  <2>2. ASSUME NEW c \in Commands, Entry(c)' # NoBuild PROVE Entry(c)' \in Signed /\ AppInv(d, c)'
    <3>1. Entry(c) \in Signed /\ AppInv(d, c)
      BY <1>1, <1>2, <2>2 DEF CatalogInv
    <3>2. Settled(c) => Settled(c)'
      BY <1>2, SettledKept
    <3> QED BY <1>2, <3>1, <3>2 DEF AppInv, Kept, Atomic
  <2> QED BY <1>1, <2>1, <2>2 DEF CatalogInv, Atomic, NoFile
<1>5. RequestInv(d)'
  BY <1>1 DEF RequestInv, Kept, exists, Atomic, Whole
<1> QED BY <1>1, <1>3, <1>4, <1>5 DEF Kept

LEMMA ClosesAlarm ==
    ASSUME TypeInv, NEW d, Processes = {d}, WriteInv(d), AlarmInv(d), WriteCloses(d),
           OverrideCatalog = NoValue, BuildConsistent, proc[d].step \in InPlace
    PROVE  AlarmInv(d)'
<1> SUFFICES ASSUME faults' = 0
             PROVE  /\ answer'[d] \notin Alarms
                    /\ AgentInv(d)' /\ CatalogInv(d)' /\ RequestInv(d)'
  BY DEF AlarmInv, Alarms
<1>1. /\ Kept(d) /\ proc[d].phase = "opened"
      /\ proc'[d].again = (proc[d].again \/ proc[d].step = "app") /\ Target(d) \in Files
      /\ proc'[d].step = Following[proc[d].step] /\ proc'[d].phase = "none"
      /\ file'[Target(d)] = Whole(CopySource(d)) /\ file[Target(d)] = Damaged(CopySource(d))
      /\ CopySource(d) \in ValueOf(Target(d))
      /\ \A f \in Files : f # Target(d) => file'[f] = file[f]
  BY WriteClosesEffect
<1>2. answer[d] \notin Alarms /\ AgentInv(d) /\ CatalogInv(d) /\ RequestInv(d)
  BY <1>1 DEF AlarmInv, Alarms, Kept
<1>3. d \in Processes /\ proc[d].command \in Commands /\ NoBuild \notin Builds
  BY NoneAssumption DEF TypeInv, PlaceInv, InPlace
<1>4. /\ proc[d].step \notin {"catalog", "override"} => file'["catalog"] = file["catalog"]
      /\ proc[d].step # "agent" => file'["agent"] = file["agent"]
      /\ proc[d].step # "app" => \A c \in Commands : file'[c] = file[c]
      /\ \A c \in Commands : c # proc[d].command => file'[c] = file[c]
  BY <1>1, <1>3, Apart DEF InPlace
<1>5. \A c \in Commands : exists(c) => file'[c].is # "absent"
  <2>1. file'[Target(d)].is # "absent"
    BY <1>1 DEF Whole
  <2> QED BY <1>1, <1>3, <2>1, AppStays
<1>6. /\ proc'[d].step \in {"json", "override", "agent", "launch"}
      /\ proc'[d].step = "launch" => proc[d].step = "agent"
  BY <1>1 DEF InPlace, Following
<1>7. AgentInv(d)'
  <2>1. CASE proc[d].step = "agent"
    <3>1. file'["agent"] = Whole(AgentImage)
      BY <1>1, <1>3, <2>1, Targets DEF CopySource
    <3> QED BY <3>1 DEF AgentInv, Whole
  <2>2. CASE proc[d].step # "agent"
    BY <1>2, <1>4, <1>6, <2>2 DEF AgentInv
  <2> QED BY <2>1, <2>2
<1>8. RequestInv(d)'
  <2>1. proc[d].step = "app" => exists(proc[d].command)
    BY <1>1, <1>3, Targets DEF exists, Damaged
  <2>2. proc'[d].again => exists(proc[d].command)
    BY <1>1, <1>2, <2>1 DEF RequestInv
  <2> QED BY <1>1, <1>3, <1>5, <1>6, <2>2 DEF RequestInv, exists, Kept
<1>9. CatalogInv(d)'
  <2>1. CASE proc[d].step = "catalog"
    <3>1. file["catalog"] = Damaged(BuildCatalog) /\ file'["catalog"] = Whole(BuildCatalog)
      BY <1>1, <1>3, <2>1, Targets DEF CopySource
    <3>2. \A c : Entry(c) = BuildCatalog[c] /\ Entry(c)' = BuildCatalog[c]
      BY <3>1 DEF Entry, exists, Whole, Damaged
    <3>3. ASSUME NEW c \in Commands, Entry(c)' # NoBuild PROVE Entry(c)' \in Signed /\ AppInv(d, c)'
      <4>1. Entry(c) \in Signed /\ Settled(c)
        BY <1>2, <2>1, <3>2, <3>3, Settles
      <4>2. Settled(c)'
        BY <1>4, <2>1, <3>2, <4>1, SettledKept
      <4> QED BY <3>2, <4>1, <4>2 DEF AppInv
    <3> QED BY <3>1, <3>3 DEF CatalogInv, exists, Whole
  <2>2. CASE proc[d].step \in {"json", "agent"}
    <3>1. file["catalog"].is # "damaged"
      BY <1>2, <2>2 DEF CatalogInv
    <3> QED BY <1>2, <1>4, <2>2, <3>1, CatalogKept
  <2>3. CASE proc[d].step = "override"
    <3>1. Target(d) = "catalog" /\ CopySource(d) = NoValue
      BY <1>3, <2>3, Targets DEF CopySource
    <3>2. file["catalog"].is = "damaged"
      BY <1>1, <3>1 DEF Damaged
    <3> QED BY <1>2, <2>3, <3>2 DEF CatalogInv
  <2>4. CASE proc[d].step = "app"
    <3>1. /\ Target(d) = proc[d].command /\ exists("catalog") /\ CopySource(d) = BuildApps[proc[d].command]
      BY <1>3, <2>4, Targets DEF TypeInv, PlaceInv, Prepared, CopySource
    <3>2. file["catalog"].is # "damaged" /\ file'["catalog"] = file["catalog"]
      BY <1>2, <1>4, <2>4 DEF CatalogInv
    <3>3. \A c : Entry(c)' = Entry(c)
      BY <3>2, EntryKept
    <3>4. CopySource(d) \in Builds
      BY <1>1, <1>3, <3>1, ValueTypes
    <3>5. ASSUME NEW c \in Commands, Entry(c)' # NoBuild PROVE Entry(c)' \in Signed /\ AppInv(d, c)'
      <4>1. CASE c # proc[d].command
        <5>1. Entry(c) \in Signed /\ Settled(c)
          BY <1>2, <2>4, <3>3, <3>5, <4>1, Settles
        <5>2. Settled(c)'
          BY <1>4, <3>3, <4>1, <5>1, SettledKept
        <5> QED BY <3>3, <5>1, <5>2 DEF AppInv
      <4>2. CASE c = proc[d].command
        <5>1. Entry(c) \in Signed /\ AppInv(d, c)
          BY <1>2, <3>3, <3>5 DEF CatalogInv
        <5>2. file[c].is = "damaged"
          BY <1>1, <3>1, <4>2 DEF Damaged
        <5>3. ~Settled(c)
          BY <5>2 DEF Settled, Whole, NoFile
        <5>4. Entry(c) = BuildCatalog[c]
          BY <2>4, <5>1, <5>3 DEF AppInv
        <5>5. BuildApps[c] = BuildCatalog[c]
          BY <1>3, <3>1, <3>4, <4>2 DEF BuildConsistent
        <5>6. file'[c] = Whole(Entry(c))
          BY <1>1, <3>1, <4>2, <5>4, <5>5
        <5>7. Settled(c)'
          BY <3>3, <5>6 DEF Settled, Whole
        <5> QED BY <3>3, <5>1, <5>7 DEF AppInv
      <4> QED BY <4>1, <4>2
    <3> QED BY <3>1, <3>2, <3>5 DEF CatalogInv, exists
  <2> QED BY <2>1, <2>2, <2>3, <2>4 DEF InPlace
<1> QED BY <1>1, <1>2, <1>7, <1>8, <1>9 DEF Kept

LEMMA RenameAlarm ==
    ASSUME TypeInv, NEW d \in Processes, WriteInv(d), AlarmInv(d), Rename(d)
    PROVE  AlarmInv(d)'
<1> SUFFICES ASSUME faults' = 0
             PROVE  /\ answer'[d] \notin Alarms
                    /\ AgentInv(d)' /\ CatalogInv(d)' /\ RequestInv(d)'
  BY DEF AlarmInv, Alarms
<1>1. /\ Kept(d) /\ proc'[d].again = proc[d].again
      /\ proc[d].step \in Atomic /\ Target(d) \in Files
      /\ proc'[d].step = Following[proc[d].step]
      /\ file'[Target(d)] = Whole(AtomicValue(d))
      /\ \A f \in Files : f # Target(d) => file'[f] = file[f]
  BY RenameEffect
<1>2. answer[d] \notin Alarms /\ AgentInv(d) /\ CatalogInv(d) /\ RequestInv(d)
  BY <1>1 DEF AlarmInv, Alarms, Kept
<1>3. /\ proc[d].command \in Commands /\ proc[d].update.command = proc[d].command
      /\ proc[d].update.build \in Signed /\ exists("catalog")
  BY <1>1 DEF TypeInv, PlaceInv, Exchange, Atomic, Prepared
<1>4. /\ proc[d].step # "promote" => file'["catalog"] = file["catalog"]
      /\ file'["agent"] = file["agent"]
      /\ proc[d].step # "payload" => \A c \in Commands : file'[c] = file[c]
      /\ \A c \in Commands : c # proc[d].command => file'[c] = file[c]
  BY <1>1, Apart DEF Atomic
<1>5. \A c \in Commands : exists(c) => file'[c].is # "absent"
  <2>1. file'[Target(d)].is # "absent"
    BY <1>1 DEF Whole
  <2> QED BY <1>1, <2>1, AppStays
<1>6. proc[d].again => file'[proc[d].command].is # "absent"
  BY <1>2, <1>3, <1>5 DEF RequestInv
<1>7. file["catalog"].is # "damaged"
  BY <1>1, <1>2 DEF CatalogInv, Atomic
<1>8. AgentInv(d)'
  BY <1>1, <1>2, <1>4 DEF AgentInv, Following, Atomic
<1>9. CASE proc[d].step = "fresh"
  <2>1. proc'[d].step = "payload"
    BY <1>1, <1>9 DEF Following
  <2>2. CatalogInv(d)'
    BY <1>2, <1>4, <1>7, <1>9, CatalogKept
  <2>3. RequestInv(d)'
    BY <1>1, <1>6, <2>1 DEF RequestInv, exists, Kept
  <2> QED BY <1>1, <1>2, <1>8, <2>2, <2>3 DEF Kept
<1>10. CASE proc[d].step = "payload"
  <2>1. /\ proc'[d].step = "promote" /\ Target(d) = proc[d].command
        /\ file'[proc[d].command] = Whole(proc[d].update.build)
    BY <1>1, <1>10, Targets DEF Following, AtomicValue
  <2>2. \A c : Entry(c)' = Entry(c)
    BY <1>4, <1>10, EntryKept
  <2>3. ASSUME NEW c \in Commands, Entry(c)' # NoBuild PROVE Entry(c)' \in Signed /\ AppInv(d, c)'
    <3>1. Entry(c) \in Signed /\ Settled(c)
      BY <1>2, <1>10, <2>2, <2>3, Settles
    <3>2. CASE c = proc[d].command
      BY <1>1, <2>1, <2>2, <3>1, <3>2 DEF AppInv, Kept
    <3>3. CASE c # proc[d].command
      <4>1. Settled(c)'
        BY <1>4, <2>2, <3>1, <3>3, SettledKept
      <4> QED BY <2>2, <3>1, <4>1 DEF AppInv
    <3> QED BY <3>2, <3>3
  <2>4. CatalogInv(d)'
    BY <1>3, <1>4, <1>7, <1>10, <2>3 DEF CatalogInv, exists
  <2>5. RequestInv(d)'
    BY <1>1, <1>6, <2>1 DEF RequestInv, exists, Kept, Whole
  <2> QED BY <1>1, <1>2, <1>8, <2>4, <2>5 DEF Kept
<1>11. CASE proc[d].step = "promote"
  <2> DEFINE u == proc[d].update
             cat == [c \in Commands |-> IF c = u.command THEN u.build ELSE NoBuild]
  <2>1. proc'[d].step = "resolve" /\ Target(d) = "catalog" /\ file'["catalog"] = Whole(cat)
    BY <1>1, <1>11, Targets DEF Following, AtomicValue
  <2>2. \A c : Entry(c)' = cat[c]
    BY <2>1 DEF Entry, exists, Whole
  <2>3. file["catalog"].is # "absent" /\ file'["catalog"].is = "whole"
    BY <1>3, <2>1 DEF exists, Whole
  <2>4. ASSUME NEW c \in Commands, Entry(c)' # NoBuild PROVE Entry(c)' \in Signed /\ AppInv(d, c)'
    <3>1. c = proc[d].command /\ Entry(c)' = u.build
      BY <1>3, <2>2, <2>4
    <3>2. file'[c] = Whole(u.build)
      BY <1>2, <1>4, <1>11, <3>1 DEF RequestInv
    <3>3. Settled(c)'
      BY <3>1, <3>2 DEF Settled, Whole
    <3> QED BY <1>3, <3>1, <3>3 DEF AppInv
  <2>5. CatalogInv(d)'
    BY <2>3, <2>4 DEF CatalogInv, exists
  <2>6. RequestInv(d)'
    BY <1>1, <1>6, <2>1 DEF RequestInv, exists, Kept
  <2> QED BY <1>1, <1>2, <1>8, <2>5, <2>6 DEF Kept
<1> QED BY <1>1, <1>9, <1>10, <1>11 DEF Atomic

LEMMA AlarmInductive ==
    ASSUME TypeInv, NEW d, Processes = {d}, WriteInv(d), AlarmInv(d), [Next]_vars,
           OverrideCatalog = NoValue, BuildConsistent
    PROVE  AlarmInv(d)'
<1>1. CASE AtomicOpens(d)
  BY <1>1, AtomicOpensEffect, AtomicAlarm
<1>2. CASE WriteCloses(d)
  <2>1. CASE proc[d].step \in Atomic
    <3>1. /\ Kept(d) /\ file' = file /\ proc'[d].step = proc[d].step
          /\ proc'[d].again = (proc[d].again \/ proc[d].step = "app")
      BY <1>2, <2>1, WriteClosesEffect
    <3>2. proc[d].again \in BOOLEAN /\ proc[d].step # "app"
      BY <2>1 DEF TypeInv, TypeOK, States, Atomic
    <3> QED BY <2>1, <3>1, <3>2, AtomicAlarm
  <2> QED BY <1>2, <2>1, ClosesAlarm, WriteClosesEffect
<1>3. CASE UNCHANGED vars
  <2>1. \A c : Entry(c)' = Entry(c)
    BY <1>3, EntryKept DEF vars
  <2> QED BY <1>3, <2>1 DEF vars, AlarmInv, AgentInv, CatalogInv, RequestInv, AppInv, Settled, exists,
             Whole, NoFile
<1> QED BY <1>1, <1>2, <1>3, OneStep, QuietAlarm, CopyOpensAlarm, RenameAlarm

\* When one process has the state directory, build/ is of one piece and no other Catalog File is
\* given, then until something fails no client is told that an application or the Agent does not
\* match its digest or its signature, whatever Updates are installed (install_payload,
\* twep_wr_ensure_state_app, verify_app_file).
THEOREM NoAlarmCorrect ==
    ASSUME NEW d, Processes = {d}, OverrideCatalog = NoValue, BuildConsistent
    PROVE  Spec => []NoFalseAlarm
<1> DEFINE I == TypeInv /\ WriteInv(d) /\ AlarmInv(d)
<1>1. Init => I
  <2> SUFFICES ASSUME Init PROVE AlarmInv(d)
    BY InitTypes, InitOne
  <2>1. /\ proc[d].step = "down" /\ proc[d].again = FALSE /\ answer[d] = "OK"
        /\ \A f \in Files : file[f] = NoFile
    BY DEF Init, Down, Fresh
  <2>2. /\ file["agent"].is = "absent" /\ file["catalog"].is = "absent"
        /\ \A c \in Commands : file[c] = NoFile
    <3>1. \A f \in {"agent", "catalog"} \cup Commands : file[f] = NoFile
      BY <2>1 DEF Files
    <3>2. NoFile.is = "absent"
      BY DEF NoFile
    <3> QED BY <3>1, <3>2
  <2>3. \A c : Entry(c) = NoBuild
    BY <2>2 DEF Entry, exists
  <2> QED BY <2>1, <2>2, <2>3 DEF AlarmInv, AgentInv, CatalogInv, RequestInv
<1>2. I /\ [Next]_vars => I'
  BY TypesInductive, WritesInductive, AlarmInductive
<1>3. I => NoFalseAlarm
  BY DEF AlarmInv, NoFalseAlarm
<1> QED BY <1>1, <1>2, <1>3, PTL DEF Spec

=================================================================================
