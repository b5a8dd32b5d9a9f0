----------------------------- MODULE ReeRuntime -----------------------------
(***************************************************************************)
(* The runtime library on Linux (lib/twep-wr): a twepd process serves one  *)
(* request at a time, resolves the command with the TEEP Agent and runs    *)
(* the application from the state directory.  Several processes may share  *)
(* the directory: twepd takes over an existing socket, and locks/ is never *)
(* used.                                                                   *)
(*                                                                         *)
(* Files are written in two ways.  twep_wr_copy_file opens the destination *)
(* itself and fills it; the Agent's write_file fills <path>.tmp and        *)
(* renames it.  A step is one call of the operating system that others can *)
(* observe.  A file holds a value, whole, or is damaged: a prefix of the   *)
(* value, or a mixture of two.  SHA-256 is injective, and a damaged        *)
(* application has the digest of no application.                           *)
(***************************************************************************)
EXTENDS Naturals, Sequences

CONSTANTS
    Processes,      \* twepd processes on one state directory
    Commands,
    Builds,         \* Wasm binaries of applications
    Signed,         \* those with a valid code signature for the role app
    Configs,        \* the configurations a process is started with
    BuildCatalog,   \* build/catalog.dev.cbor: an application per command
    BuildApps,      \* build/<command>.wasm
    OverrideCatalog,\* the file TWEP_CATALOG_CBOR names, or NoValue
    SealedFreshness,\* protected-sequence-freshness.cbor, or NoValue
    Updates,        \* the Updates AttesTAM may send
    MaxSequence,    \* bound: the largest SUIT sequence number
    MaxFaults,      \* bound: crashes and failed writes
    NoBuild, NoValue, NoCommand,
    AgentImage, JsonCatalog   \* the signed Agent, and catalog.dev.json

Catalogs == [Commands -> Builds \cup {NoBuild}]
Freshness == [Commands -> 0..MaxSequence]    \* 0: no entry

ASSUME SignedAssumption == Signed \subseteq Builds
ASSUME ConfigsAssumption ==
    Configs \subseteq [mode : {"mock", "attestam-insecure", "attestam-verified"},
                       url : BOOLEAN, demo : BOOLEAN]
ASSUME BuildAssumption ==
    /\ BuildCatalog \in Catalogs /\ BuildApps \in Catalogs
    /\ OverrideCatalog \in Catalogs \cup {NoValue}
    /\ SealedFreshness \in Freshness \cup {NoValue}
ASSUME UpdatesAssumption ==
    /\ MaxSequence \in Nat /\ MaxFaults \in Nat
    /\ Updates \subseteq [command : Commands, sequence : 1..MaxSequence, build : Builds]
ASSUME NoneAssumption ==
    /\ NoBuild \notin Builds /\ NoCommand \notin Commands
    /\ Commands \cap {"catalog", "json", "agent", "fresh"} = {}

VARIABLES
    proc,      \* each process: configuration, step, and the request's locals
    file,      \* the files of the state directory
    tmp,       \* their <path>.tmp
    answer,    \* the status each process answered last
    ran,       \* the last application executed, and what it was resolved to
    history,   \* for each command, the sequence numbers installed, in order
    faults     \* crashes and failed writes so far

vars == <<proc, file, tmp, answer, ran, history, faults>>

----------------------------------------------------------------------------
(* Files.  The application of a command is the file apps/<command>.wasm.   *)

Files == {"catalog", "json", "agent", "fresh"} \cup Commands

NoFile == [is |-> "absent", value |-> NoValue]
Whole(v) == [is |-> "whole", value |-> v]
Damaged(v) == [is |-> "damaged", value |-> v]

ValueOf(f) == CASE f = "catalog" -> Catalogs
                [] f = "json" -> {JsonCatalog}
                [] f = "agent" -> {AgentImage}
                [] f = "fresh" -> Freshness
                [] OTHER -> Builds
Content(f) == {NoFile} \cup [is : {"whole", "damaged"}, value : ValueOf(f)]

exists(f) == file[f].is # "absent"

----------------------------------------------------------------------------
(* Processes.  The step names the next thing the process does; a step that *)
(* writes a file has phases: nothing yet, opened, closed (before rename).  *)

InPlace == {"catalog", "json", "override", "agent", "app"}
Atomic == {"fresh", "payload", "promote"}
Steps == {"down", "idle"} \cup InPlace \cup Atomic
         \cup {"launch", "session", "post", "resolve", "verify", "exists", "load"}

NoUpdate == [command |-> NoCommand, sequence |-> 0, build |-> NoBuild]
NoConfig == [mode |-> "none", url |-> FALSE, demo |-> FALSE]
Fresh(cfg) == [config |-> cfg, step |-> "idle", phase |-> "none", at |-> "none",
               value |-> NoValue, command |-> NoCommand, again |-> FALSE,
               entry |-> NoBuild, update |-> NoUpdate]
Down == [Fresh(NoConfig) EXCEPT !.step = "down"]

Status == {"OK", "INVALID_ARGUMENT", "CATALOG", "TEEP", "TEEP_NETWORK", "SECURITY",
           "WASM_LOAD", "WASM_ABI", "WASM_RUNTIME", "WASM_SIGNATURE"}

Values == Catalogs \cup Freshness \cup Builds \cup {JsonCatalog, AgentImage, NoValue}
States == [config : Configs \cup {NoConfig}, step : Steps, phase : {"none", "opened", "closed"},
           at : {"none", "file", "tmp", "unlinked"}, value : Values,
           command : Commands \cup {NoCommand}, again : BOOLEAN,
           entry : Builds \cup {NoBuild}, update : Updates \cup {NoUpdate}]

TypeOK ==
    /\ proc \in [Processes -> States]
    /\ DOMAIN file = Files /\ DOMAIN tmp = Files
    /\ \A f \in Files : file[f] \in Content(f) /\ tmp[f] \in Content(f)
    /\ answer \in [Processes -> Status]
    /\ ran \in [command : Commands \cup {NoCommand}, is : {"whole", "damaged"},
                build : Builds \cup {NoBuild}, entry : Builds \cup {NoBuild}]
    /\ history \in [Commands -> Seq(1..MaxSequence)]
    /\ faults \in 0..MaxFaults

NoRun == [command |-> NoCommand, is |-> "whole", build |-> NoBuild, entry |-> NoBuild]

Init ==
    /\ proc = [p \in Processes |-> Down]
    /\ file = [f \in Files |-> NoFile]
    /\ tmp = [f \in Files |-> NoFile]
    /\ answer = [p \in Processes |-> "OK"]
    /\ ran = NoRun
    /\ history = [c \in Commands |-> <<>>]
    /\ faults = 0

\* The file a step writes, the step that follows, and the status of the request
\* when the write fails.
Target(p) == CASE proc[p].step \in {"catalog", "override", "promote"} -> "catalog"
               [] proc[p].step = "json" -> "json"
               [] proc[p].step = "agent" -> "agent"
               [] proc[p].step = "fresh" -> "fresh"
               [] OTHER -> proc[p].command
MutNoPromotion ==
    [catalog |-> "json", json |-> "override", override |-> "agent", agent |-> "launch",
     app |-> "agent", fresh |-> "payload", payload |-> "resolve", promote |-> "resolve"]
MutNoPayload ==
    [catalog |-> "json", json |-> "override", override |-> "agent", agent |-> "launch",
     app |-> "agent", fresh |-> "promote", payload |-> "promote", promote |-> "resolve"]

Following == [catalog |-> "json", json |-> "override", override |-> "agent",
              agent |-> "launch", app |-> "agent",
              fresh |-> "payload", payload |-> "promote", promote |-> "resolve"]
WriteError == [catalog |-> "CATALOG", json |-> "CATALOG", override |-> "CATALOG",
               agent |-> "TEEP", app |-> "WASM_LOAD",
               fresh |-> "TEEP", payload |-> "TEEP", promote |-> "TEEP"]

Goto(p, s) == proc' = [proc EXCEPT ![p].step = s]
Answer(p, status) ==
    /\ proc' = [proc EXCEPT ![p] = Fresh(proc[p].config)]
    /\ answer' = [answer EXCEPT ![p] = status]
Fault == faults < MaxFaults /\ faults' = faults + 1

----------------------------------------------------------------------------
(* Start and stop of a process, and the checks of twep_wr_execute.         *)

twep_wr_init(p) ==
    /\ proc[p].step = "down"
    /\ \E cfg \in Configs :
        /\ ~(cfg.mode = "attestam-verified" /\ cfg.demo)
        /\ proc' = [proc EXCEPT ![p] = Fresh(cfg)]
    /\ UNCHANGED <<file, tmp, answer, ran, history, faults>>

twep_wr_shutdown(p) ==
    /\ proc[p].step = "idle"
    /\ proc' = [proc EXCEPT ![p] = Down]
    /\ UNCHANGED <<file, tmp, answer, ran, history, faults>>

\* The process dies in the middle of a request; its files stay as they are.
Crash(p) ==
    /\ proc[p].step \notin {"down", "idle"}
    /\ Fault
    /\ proc' = [proc EXCEPT ![p] = Down]
    /\ UNCHANGED <<file, tmp, answer, ran, history>>

\* An argument or a size check fails, or a directory cannot be made.
RequestRefused(p) ==
    /\ proc[p].step = "idle"
    /\ \E status \in {"INVALID_ARGUMENT", "CATALOG"} : Answer(p, status)
    /\ UNCHANGED <<file, tmp, ran, history, faults>>

\* twep_wr_lookup_catalog_entry: the verified resolver runs the Agent at once.
Request(p) ==
    /\ proc[p].step = "idle"
    /\ \E c \in Commands :
        proc' = [proc EXCEPT
            ![p].command = c,
            ![p].step = IF proc[p].config.mode = "attestam-verified" THEN "agent" ELSE "catalog"]
    /\ UNCHANGED <<file, tmp, answer, ran, history, faults>>

----------------------------------------------------------------------------
(* Writing.                                                                *)

\* A file that exists is not copied again, whatever it holds; the Catalog File
\* that TWEP_CATALOG_CBOR names is copied by every request.
SkipCopy(p) ==
    /\ proc[p].step \in InPlace /\ proc[p].phase = "none"
    /\ IF proc[p].step = "override" THEN OverrideCatalog = NoValue ELSE exists(Target(p))
    /\ proc' = [proc EXCEPT ![p].step = Following[@], ![p].again = (@ \/ proc[p].step = "app")]
    /\ UNCHANGED <<file, tmp, answer, ran, history, faults>>

CopySource(p) == CASE proc[p].step = "catalog" -> BuildCatalog
                   [] proc[p].step = "json" -> JsonCatalog
                   [] proc[p].step = "override" -> OverrideCatalog
                   [] proc[p].step = "agent" -> AgentImage
                   [] proc[p].step = "app" -> BuildApps[proc[p].command]

\* twep_wr_copy_file: fopen(dst, "wb") empties the file that is there.
CopyOpens(p) ==
    /\ proc[p].step \in InPlace /\ proc[p].phase = "none"
    /\ proc[p].step # "override" => ~exists(Target(p))
    /\ CopySource(p) \notin {NoValue, NoBuild}
    /\ proc' = [proc EXCEPT ![p].phase = "opened", ![p].at = "file", ![p].value = CopySource(p)]
    /\ file' = [file EXCEPT ![Target(p)] = Damaged(CopySource(p))]
    /\ UNCHANGED <<tmp, answer, ran, history, faults>>

\* There is no such application in build/.
NoSource(p) ==
    /\ proc[p].step = "app" /\ proc[p].phase = "none" /\ ~exists(Target(p))
    /\ CopySource(p) = NoBuild
    /\ Answer(p, "WASM_LOAD")
    /\ UNCHANGED <<file, tmp, ran, history, faults>>

\* The freshness map after the update: write_dev_sequence_freshness reads the
\* development file again, and cannot replace one that does not decode.
AtomicValue(p) ==
    LET u == proc[p].update IN
    CASE proc[p].step = "fresh" ->
            [IF exists("fresh") THEN file["fresh"].value ELSE [c \in Commands |-> 0]
                EXCEPT ![u.command] = u.sequence]
      [] proc[p].step = "payload" -> u.build
      [] proc[p].step = "promote" ->
            [c \in Commands |-> IF c = u.command THEN u.build ELSE NoBuild]

MutAppends(p) ==
    /\ proc[p].step \in Atomic /\ proc[p].phase = "none"
    /\ proc[p].step = "fresh" => file["fresh"].is # "damaged"
    /\ proc' = [proc EXCEPT ![p].phase = "opened", ![p].at = "tmp", ![p].value = AtomicValue(p)]
    /\ tmp' = [tmp EXCEPT ![Target(p)] =
                  Damaged(IF tmp[Target(p)].is = "absent" THEN AtomicValue(p) ELSE NoValue)]
    /\ UNCHANGED <<file, answer, ran, history, faults>>

\* twep_wr_platform_write_file_atomic: fopen(<path>.tmp, "wb").
AtomicOpens(p) ==
    /\ proc[p].step \in Atomic /\ proc[p].phase = "none"
    /\ proc[p].step = "fresh" => file["fresh"].is # "damaged"
    /\ proc' = [proc EXCEPT ![p].phase = "opened", ![p].at = "tmp", ![p].value = AtomicValue(p)]
    /\ tmp' = [tmp EXCEPT ![Target(p)] = Damaged(AtomicValue(p))]
    /\ UNCHANGED <<file, answer, ran, history, faults>>

FreshnessUnreadable(p) ==
    /\ proc[p].step = "fresh" /\ proc[p].phase = "none"
    /\ file["fresh"].is = "damaged"
    /\ Answer(p, "TEEP")
    /\ UNCHANGED <<file, tmp, ran, history, faults>>

\* What a complete write of v leaves in the file: another process that has it open,
\* or that has written other bytes, can leave a hole or a tail.
Written(p, content, v) ==
    LET shared == \E q \in Processes \ {p} :
            proc[q].phase = "opened" /\ proc[q].at = proc[p].at /\ Target(q) = Target(p)
    IN {Whole(v)} \cup (IF shared \/ content.value # v THEN {Damaged(v)} ELSE {})

\* The bytes go where the open file is now: another process may have renamed it,
\* or replaced it.
WriteCloses(p) ==
    /\ proc[p].phase = "opened"
    /\ LET f == Target(p) IN
        /\ IF proc[p].at = "file"
           THEN \E w \in Written(p, file[f], proc[p].value) : file' = [file EXCEPT ![f] = w]
           ELSE UNCHANGED file
        /\ IF proc[p].at = "tmp"
           THEN \E w \in Written(p, tmp[f], proc[p].value) : tmp' = [tmp EXCEPT ![f] = w]
           ELSE UNCHANGED tmp
    /\ proc' = [proc EXCEPT ![p].at = "none",
                    ![p].phase = IF proc[p].step \in Atomic THEN "closed" ELSE "none",
                    ![p].step = IF proc[p].step \in Atomic THEN @ ELSE Following[@],
                    ![p].again = (@ \/ proc[p].step = "app"),
                    ![p].value = IF proc[p].step \in Atomic THEN @ ELSE NoValue]
    /\ UNCHANGED <<answer, ran, history, faults>>

\* A full disk: the destination, or the temporary file, stays as it is.
WriteFails(p) ==
    /\ proc[p].phase = "opened"
    /\ Fault
    /\ Answer(p, WriteError[proc[p].step])
    /\ UNCHANGED <<file, tmp, ran, history>>

\* One of the files that only record the exchange cannot be written: the install
\* metadata before the Catalog File, the observation after it.
RecordFails(p) ==
    /\ \/ proc[p].step = "promote" /\ proc[p].phase = "none"
       \/ proc[p].step = "resolve" /\ proc[p].update # NoUpdate
    /\ Fault
    /\ Answer(p, "TEEP")
    /\ UNCHANGED <<file, tmp, ran, history>>

\* rename(<path>.tmp, path).  Whoever has the temporary file open goes on writing
\* it under its new name; whoever has the replaced file open writes to no name.
Rename(p) ==
    /\ proc[p].phase = "closed"
    /\ LET f == Target(p)
           Moved(q) == IF q # p /\ proc[q].phase = "opened" /\ Target(q) = f
                       THEN CASE proc[q].at = "tmp" -> "file"
                              [] proc[q].at = "file" -> "unlinked"
                              [] OTHER -> proc[q].at
                       ELSE proc[q].at
       IN /\ tmp[f].is # "absent"
          /\ file' = [file EXCEPT ![f] = tmp[f]]
          /\ tmp' = [tmp EXCEPT ![f] = NoFile]
          /\ proc' = [q \in Processes |->
                IF q = p THEN [proc[p] EXCEPT !.phase = "none", !.value = NoValue,
                                              !.step = Following[@]]
                         ELSE [proc[q] EXCEPT !.at = Moved(q)]]
    /\ history' = IF proc[p].step = "payload"
                  THEN [history EXCEPT ![proc[p].command] = Append(@, proc[p].update.sequence)]
                  ELSE history
    /\ UNCHANGED <<answer, ran, faults>>

\* Another process has renamed the temporary file.
RenameFails(p) ==
    /\ proc[p].phase = "closed" /\ tmp[Target(p)].is = "absent"
    /\ Answer(p, WriteError[proc[p].step])
    /\ UNCHANGED <<file, tmp, ran, history, faults>>

----------------------------------------------------------------------------
(* The TEEP Agent.                                                         *)

\* run_teep_agent_resolve: the Agent's own signature comes before anything.
Launch(p) ==
    /\ proc[p].step = "launch"
    /\ IF file["agent"] # Whole(AgentImage)
       THEN \E status \in {"TEEP", "WASM_SIGNATURE"} : Answer(p, status)
       ELSE IF proc[p].config.mode = "attestam-verified" THEN Answer(p, "TEEP")
       ELSE /\ Goto(p, IF proc[p].config.url THEN "session" ELSE "resolve")
            /\ UNCHANGED answer
    /\ UNCHANGED <<file, tmp, ran, history, faults>>

HttpAllowed(cfg) == cfg.mode = "attestam-insecure" /\ cfg.demo /\ cfg.url

\* The exchange up to the answer of the QueryResponse ends without an Update:
\* refused by twep_host_http_post, failed, or answered with something else.
SessionFails(p) ==
    /\ proc[p].step = "session"
    /\ \E status \in {"TEEP"} \cup (IF HttpAllowed(proc[p].config) THEN {"TEEP_NETWORK"} ELSE {}) :
        Answer(p, status)
    /\ UNCHANGED <<file, tmp, ran, history, faults>>

\* AttesTAM has nothing to say: the Catalog File at hand is used.
SessionEmpty(p) ==
    /\ proc[p].step = "session" /\ HttpAllowed(proc[p].config)
    /\ Goto(p, "resolve")
    /\ UNCHANGED <<file, tmp, answer, ran, history, faults>>

MutEqualIsFresh(u) ==
    IF SealedFreshness # NoValue THEN u.sequence >= SealedFreshness[u.command]
    ELSE \/ ~exists("fresh")
         \/ /\ file["fresh"].is = "whole"
            /\ u.sequence >= file["fresh"].value[u.command]

\* dev_sequence_is_fresh: the protected object, when there is one, is the only one
\* consulted; a development file that does not decode is fresh for nothing.
dev_sequence_is_fresh(u) ==
    IF SealedFreshness # NoValue THEN u.sequence > SealedFreshness[u.command]
    ELSE \/ ~exists("fresh")
         \/ /\ file["fresh"].is = "whole"
            /\ u.sequence > file["fresh"].value[u.command]

\* process_update_payload: the component is the one asked for, the payload is
\* signed, and the sequence number is fresh; then Success is POSTed.
UpdateAccepted(p) ==
    /\ proc[p].step = "session" /\ HttpAllowed(proc[p].config)
    /\ \E u \in Updates :
        /\ u.command = proc[p].command /\ u.build \in Signed
        /\ dev_sequence_is_fresh(u)
        /\ proc' = [proc EXCEPT ![p].step = "post", ![p].update = u]
    /\ UNCHANGED <<file, tmp, answer, ran, history, faults>>

\* Only NoContent installs.
SuccessAnswered(p) ==
    /\ proc[p].step = "post"
    /\ \/ /\ Goto(p, "fresh")
          /\ UNCHANGED answer
       \/ \E status \in {"TEEP", "TEEP_NETWORK"} : Answer(p, status)
    /\ UNCHANGED <<file, tmp, ran, history, faults>>

\* resolve_catalog: a damaged Catalog File may still hold the command's entry.
resolve_catalog(p) ==
    /\ proc[p].step = "resolve"
    /\ LET entry == file["catalog"].value[proc[p].command] IN
        \/ /\ entry # NoBuild
           /\ proc' = [proc EXCEPT ![p].step = "verify", ![p].entry = entry]
           /\ UNCHANGED answer
        \/ /\ entry = NoBuild \/ file["catalog"].is = "damaged"
           /\ Answer(p, "CATALOG")
        \/ /\ file["catalog"].is = "damaged"
           /\ Answer(p, "TEEP")
    /\ UNCHANGED <<file, tmp, ran, history, faults>>

\* verify_app_file: an application that is not there is no error.  The second run
\* of the Agent is not followed by a look for the application.
verify_app_file(p) ==
    /\ proc[p].step = "verify"
    /\ IF file[proc[p].command] \in {NoFile, Whole(proc[p].entry)}
       THEN /\ Goto(p, IF proc[p].again THEN "load" ELSE "exists")
            /\ UNCHANGED answer
       ELSE \E status \in {"SECURITY"} \cup
                (IF file[proc[p].command].is = "damaged" THEN {"TEEP"} ELSE {}) :
              Answer(p, status)
    /\ UNCHANGED <<file, tmp, ran, history, faults>>

MutResolveAgain(p) ==
    /\ proc[p].step = "exists"
    /\ Goto(p, IF exists(proc[p].command) THEN "load" ELSE "agent")
    /\ UNCHANGED <<file, tmp, answer, ran, history, faults>>

\* lookup_catalog_entry_dev_resolver: copy the application of build/ and resolve
\* again when it is missing.
AppExists(p) ==
    /\ proc[p].step = "exists"
    /\ Goto(p, IF exists(proc[p].command) THEN "load" ELSE "app")
    /\ UNCHANGED <<file, tmp, answer, ran, history, faults>>

\* twep_wr_run_app_wasm: the bytes are read once, and these bytes are checked.
Executable(p, content) == content = Whole(proc[p].entry) /\ content.value \in Signed

RunApp(p) ==
    /\ proc[p].step = "load"
    /\ LET content == file[proc[p].command] IN
        /\ Executable(p, content)
        /\ \E status \in {"OK", "WASM_LOAD", "WASM_ABI", "WASM_RUNTIME"} : Answer(p, status)
        /\ ran' = [command |-> proc[p].command, is |-> content.is,
                   build |-> content.value, entry |-> proc[p].entry]
    /\ UNCHANGED <<file, tmp, history, faults>>

AppRefused(p) ==
    /\ proc[p].step = "load"
    /\ LET content == file[proc[p].command] IN
        /\ ~Executable(p, content)
        /\ \/ content = Whole(proc[p].entry) /\ Answer(p, "WASM_SIGNATURE")
           \/ content # Whole(proc[p].entry) /\ Answer(p, "SECURITY")
           \/ content.is = "damaged" /\ Answer(p, "WASM_LOAD")
    /\ UNCHANGED <<file, tmp, ran, history, faults>>

----------------------------------------------------------------------------
Write(p) == \/ SkipCopy(p) \/ CopyOpens(p) \/ NoSource(p) \/ AtomicOpens(p)
            \/ FreshnessUnreadable(p) \/ WriteCloses(p) \/ Rename(p) \/ RenameFails(p)
Agent(p) == \/ Launch(p) \/ SessionFails(p) \/ SessionEmpty(p) \/ UpdateAccepted(p)
            \/ SuccessAnswered(p) \/ resolve_catalog(p) \/ verify_app_file(p)
Serve(p) == Write(p) \/ Agent(p) \/ AppExists(p) \/ RunApp(p) \/ AppRefused(p)

Next == \E p \in Processes :
    \/ twep_wr_init(p) \/ twep_wr_shutdown(p) \/ RequestRefused(p) \/ Request(p)
    \/ Serve(p) \/ WriteFails(p) \/ RecordFails(p) \/ Crash(p)

Spec == Init /\ [][Next]_vars

\* A process that serves a request goes on with it: files and wasm calls return,
\* and the daemon's HTTP client gives up after ten seconds.
FairSpec == Spec /\ \A p \in Processes : WF_vars(Serve(p))

----------------------------------------------------------------------------
(* Properties.                                                             *)

\* Some process is writing to the file that has the name f.
Open(f) == \E p \in Processes : proc[p].phase = "opened" /\ proc[p].at = "file" /\ Target(p) = f

\* AttesTAM has one Update to send, and each process that asks is sent that one.
OneUpdate == \A u, w \in Updates : u = w

\* Processes that install the same Update at a time share its temporary files: one may
\* rename what another is still writing, and the other go on under the final name.
\* Until something fails, what they leave is whole as soon as nobody writes to it
\* (twep_wr_platform_write_file_atomic, twep_wr_copy_file).  The Catalog File is left
\* out where every request overwrites it in place.
RacedIsWhole ==
    faults = 0 /\ OneUpdate =>
        \A f \in Files : /\ ~Open(f)
                         /\ f = "catalog" => OverrideCatalog = NoValue
                         => file[f].is # "damaged"

\* The Updates of a command are installed in strictly increasing sequence order,
\* each at most once, crashes and restarts included (post_success: the freshness
\* file is written before the payload).
InstallsIncrease ==
    \A c \in Commands : \A i, j \in DOMAIN history[c] :
        i < j => history[c][i] < history[c][j]

\* Until something fails, no client is told that an application or the Agent does
\* not match its digest or its signature (install_payload writes the application
\* and the Catalog File, ensure_state_app copies what the Catalog File names).
NoFalseAlarm ==
    faults = 0 => \A p \in Processes : answer[p] \notin {"SECURITY", "WASM_SIGNATURE"}

\* Until something fails, an Update recorded as installed is the application that
\* is there, and no copy from build/ replaces it (write_dev_sequence_freshness,
\* twep_wr_ensure_state_app).
RecordedIsInstalled ==
    (faults = 0 /\ exists("fresh") /\ \A p \in Processes : proc[p].step \in {"down", "idle"})
    => \A c \in Commands : file["fresh"].value[c] > 0 =>
         \E u \in Updates : /\ u.command = c /\ u.sequence = file["fresh"].value[c]
                           /\ file[c] = Whole(u.build)

\* An application or a Catalog File is only ever observable whole: no request is
\* running, and none of them is damaged (docs/ABI.md: "must become observable only
\* after the atomic rename").
InstalledIsWhole ==
    (\A p \in Processes : proc[p].step \in {"down", "idle"})
    => \A f \in Commands \cup {"catalog"} : file[f].is # "damaged"

\* Every request is answered, or its process dies.
RequestEnds ==
    \A p \in Processes : proc[p].command # NoCommand ~> proc[p].command = NoCommand

----------------------------------------------------------------------------
(* The inductive strengthening, for any number of processes.               *)

Exchange == {"post", "fresh", "payload", "promote"}

\* The Catalog File is there once a request has gone past its copy.
Prepared(p) ==
    \/ proc[p].step \in {"json", "override", "session", "resolve", "verify", "exists", "app", "load"}
    \/ proc[p].step \in Exchange
    \/ proc[p].step = "catalog" /\ proc[p].phase # "none"
    \/ proc[p].step \in {"agent", "launch"} /\ proc[p].config.mode # "attestam-verified"

PlaceInv(p) ==
    /\ proc[p].step \notin {"down", "idle"} => proc[p].command \in Commands
    /\ proc[p].phase # "none" => /\ proc[p].step \in InPlace \cup Atomic
                                 /\ proc[p].value \in ValueOf(Target(p))
    /\ proc[p].phase = "closed" => proc[p].step \in Atomic
    /\ proc[p].step \in Exchange => /\ proc[p].update \in Updates
                                    /\ proc[p].update.command = proc[p].command
                                    /\ proc[p].update.build \in Signed
    /\ Prepared(p) => exists("catalog")

TypeInv == TypeOK /\ \A p \in Processes : PlaceInv(p)

----------------------------------------------------------------------------
(* And for one process alone, d.                                           *)

Recorded(c) == IF exists("fresh") THEN file["fresh"].value[c] ELSE 0
Entry(c) == IF exists("catalog") THEN file["catalog"].value[c] ELSE NoBuild

\* Nobody else writes: an open file holds what d writes.
WriteInv(d) ==
    /\ proc[d].phase = "opened" /\ proc[d].step \in InPlace =>
          /\ proc[d].at = "file" /\ proc[d].value = CopySource(d)
          /\ file[Target(d)] = Damaged(proc[d].value)
    /\ proc[d].phase # "none" /\ proc[d].step \in Atomic =>
          /\ proc[d].value = AtomicValue(d)
          /\ tmp[Target(d)].value = proc[d].value
          /\ proc[d].phase = "opened" => proc[d].at = "tmp" /\ tmp[Target(d)].is = "damaged"
          /\ proc[d].phase = "closed" => tmp[Target(d)].is = "whole"
    /\ file["fresh"].is # "damaged"

\* The freshness file bounds what has been installed; an Update being installed is
\* above it, until it is the one recorded.
SequenceInv(d) ==
    /\ \A c \in Commands : \A i \in DOMAIN history[c] : history[c][i] <= Recorded(c)
    /\ InstallsIncrease
    /\ proc[d].step \in {"post", "fresh"} =>
          proc[d].update.sequence > Recorded(proc[d].command)
    /\ proc[d].step = "payload" =>
          \A i \in DOMAIN history[proc[d].command] :
              history[proc[d].command][i] < Recorded(proc[d].command)

\* An Update recorded is installed, or is about to be.
Installed(c) ==
    \E u \in Updates : u.command = c /\ u.sequence = Recorded(c) /\ file[c] = Whole(u.build)
RecordInv(d) ==
    /\ proc[d].step = "payload" => proc[d].update.sequence = Recorded(proc[d].command)
    /\ faults = 0 => \A c \in Commands : Recorded(c) > 0 =>
          (proc[d].step = "payload" /\ proc[d].command = c) \/ Installed(c)

\* build/ is of one piece: its applications are signed, and those its Catalog File names.
BuildConsistent ==
    \A c \in Commands : /\ BuildCatalog[c] \in Signed \cup {NoBuild}
                        /\ BuildApps[c] \in {NoBuild, BuildCatalog[c]}

\* The application of c is the one the Catalog File names, or is still to be copied from
\* build/; or it is being copied, or being replaced together with the Catalog File.
Settled(c) == file[c] = Whole(Entry(c)) \/ (file[c] = NoFile /\ Entry(c) = BuildCatalog[c])
AppInv(d, c) ==
    \/ Settled(c)
    \/ /\ proc[d].step = "app" /\ proc[d].phase = "opened" /\ proc[d].command = c
       /\ Entry(c) = BuildCatalog[c]
    \/ proc[d].step = "promote" /\ proc[d].command = c

AgentInv(d) ==
    /\ file["agent"].is = "damaged" => proc[d].step = "agent" /\ proc[d].phase = "opened"
    /\ proc[d].step = "launch" => file["agent"] = Whole(AgentImage)
CatalogInv(d) ==
    /\ file["catalog"].is = "damaged" => proc[d].step = "catalog" /\ proc[d].phase = "opened"
    /\ ~exists("catalog") => \A c \in Commands : file[c] = NoFile
    /\ \A c \in Commands : Entry(c) # NoBuild => Entry(c) \in Signed /\ AppInv(d, c)
RequestInv(d) ==
    /\ proc[d].step = "promote" => file[proc[d].command] = Whole(proc[d].update.build)
    /\ proc[d].step \in {"verify", "exists", "app", "load"} =>
          proc[d].entry = Entry(proc[d].command) /\ proc[d].entry # NoBuild
    /\ proc[d].again => proc[d].step \notin {"down", "idle"} /\ exists(proc[d].command)
    /\ proc[d].step = "load" => file[proc[d].command] = Whole(proc[d].entry)

\* Until something fails: no alarm, and no reason for one.
AlarmInv(d) ==
    faults = 0 => /\ answer[d] \notin {"SECURITY", "WASM_SIGNATURE"}
                  /\ AgentInv(d) /\ CatalogInv(d) /\ RequestInv(d)

OneInv == \A d \in Processes : WriteInv(d) /\ SequenceInv(d) /\ RecordInv(d) /\ AlarmInv(d)
=============================================================================
