# TWEP system: TLA+ models, model checking and proofs

TWEP runs signed WebAssembly applications in a trusted execution environment
and installs them through TEEP: a TEEP Agent (itself Wasm) in the TEE talks to
an AttesTAM server through the untrusted side, verifies what it receives, and
commits the result to protected storage. This directory models the parts of
that system whose correctness depends on the order of steps, checks them with
TLC on small instances and proves the main results with TLAPS.

## 1. Inventory

| Part | Source | State it keeps | Operations |
| --- | --- | --- | --- |
| Protected transactions | `ta/acceptance_state.c`, `ta/protected_app.c`, commit hostcalls of `ta/ta_teep_hostcalls.c` | two acceptance slots, two Catalog slots, two app slots, the acceptance result, the legacy sequence map | load, commit of an acceptance, of a Catalog, of an application, read of the active Catalog or application |
| TA sessions and host I/O continuation | `ta/ta_host_io_continuation.c`, `ta_teep_runtime.c`, `ta_production_runtime.c`, `ta_command_router.c`, `twep_wr_ta.c` | per session: the pending host I/O request with its transcript, the recorded answers of a suspended TEEP request, the loaded Agent module; for the TA: number and bytes of transcripts, number of live modules, WAMR state | open, close, EXECUTE, RESUME_HOST_IO |
| TA app runtime | `ta_app_runtime.c`, `ta_wamr_spike.c`, `ta_runtime_cbor.c`, `ta_wasm_signature.c` | none between commands | instantiate and run one application |
| TA secure storage, basic commands | `ta_secure_storage.c`, `ta_basic_commands.c` | diagnostic objects | PUT, GET, RANDOM, TIME, PING, ... |
| OP-TEE client backend | `lib/twep-wr/src/platform/optee-common/` | one TEEC session per execute | EXECUTE, then up to eight host I/O rounds |
| REE runtime | `lib/twep-wr/src/` | configuration; the files of the state directory (Catalog File, Agent, freshness, applications) | `twep_wr_execute`: copy from `build/`, resolution by the Agent, run of the application, response encoding |
| Linux backend | `lib/twep-wr/src/platform/linux/` | the same files, and `<path>.tmp` | the Agent's hostcalls: read, write with rename, HTTP |
| TEEP Agent | `wasm/teep-agent/src/` | none between executions: it is re-executed from its entry | QueryRequest, Update, credential checks, commit |
| IPC daemon and CLI | `cmd/twepd`, `cmd/twep-cli`, `internal/` | the Unix socket at its path, one connection at a time | start over a stale socket, one framed CBOR request and response per connection, end or crash |
| Tools, fixtures, demo applications, smoke hosts | `cmd/twep-*-gen`, `wasm/apps`, `optee/twep-wr-ta/host` | none | offline generation, tests |
| SGX, Keystone | `platform/sgx`, `platform/keystone` | none | stubs |

`ta/` stands for `src/optee/twep-wr-ta/ta/`.

How the parts interact: `twep-cli` sends one CBOR request over a Unix socket to
`twepd`, which calls the C library; on OP-TEE the library opens a TEEC session
and invokes EXECUTE. The TA runs the Agent. When the Agent needs HTTP or
Evidence, the TA saves the request and returns NEED_HOST_IO; the REE performs
it and invokes RESUME_HOST_IO in the same session; the TA appends the answer to
the session's history and runs the Agent again *from its entry*, replaying the
recorded answers. When AttesTAM's Update is verified, the Agent calls a commit
hostcall, which consumes the HTTP transcript it belongs to and runs one of the
protected transactions.

What is hard here:

* crash and partial failure: every protected object is created with overwrite
  and written in a second call, and a payload becomes active through a second
  transaction on another object;
* replay: an old Update, a retried commit, a commit replayed by re-execution;
* shared limits of the TA (two transcripts, 64 KiB, one WAMR runtime) used by
  several sessions, each of which may be abandoned at any point;
* an untrusted REE that may answer, delay, repeat or drop host I/O results;
* boundaries: generation and sequence at 2^64 - 1, full component map, resource
  limits at their maxima, message lengths at which a CBOR head grows;
* several implementations of one thing: four readers of the Agent's output, three
  places that run an application, two ways to write a file;
* up to nine resources per run of a module, with an early exit after each;
* daemons that are killed, restarted and overlap, on one socket and one state
  directory.

What makes each part correct: a reader of protected storage sees the state
before or after a commit and nothing else; a commit that was acknowledged is
there; generations and sequences do not go back; shared counters of the TA equal
what the sessions hold and return to zero; what is executed is what was resolved;
the REE and the TA read the same output alike and apply their limits; a message
has the length that was computed for it and is understood; every exit releases
what it holds; a daemon comes up and is reachable; a request ends.

`PROJECT.json` lists the hazards at their lines with the properties that cover
them.

## 2. Modules

Four families. `TeepSession` builds on the ledger that `ProtectedStore` is shown
to implement; the others are independent of it and meet it in the text:
`WasmRun` opens up the run that is one step of `HostIoContinuation` and
`ReeRuntime`, `ReeRuntime` the request that is one step of `Daemon`.

**Protected transactions** (`ta/acceptance_state.c`, `ta/protected_app.c`, the
commit hostcalls).

| Module | Models |
| --- | --- |
| `AcceptanceState` | the acceptance record and its slots as values: `parse_slot`, `load_current` (`LoadStatus`, `LoadRecord`, `SelectedSlot`), `encode_updated`, the checks of `twep_acceptance_commit` (`AcceptanceStatus`) and the slot it writes (`TargetSlot`) |
| `CatalogState` | the same for the Catalog slots: `load_active_catalog`, the checks and the target slot of `twep_catalog_commit` |
| `ProtectedApp` | the same for the app slots of `protected_app.c` |
| `ProtectedStore` | the state machine: variables `acc`, `cat`, `app` (the slots), `result`, `legacy`, and `op`, the commit hostcall in progress. One action per storage call (`StageCreate`, `StageWrite`, ..., `ResultVerify`), its failure, and `Crash` |
| `AcceptanceLedger` | the abstract specification: a ledger that changes in one step |
| `MCProtectedStore` | constants for TLC |
| `ProtectedStoreProofs` | theorems: first the acceptance slots, then the payload slots and the ledger |

A stored object is `[kind, rec]`: absent, torn (created, not completely
written), valid, or unsupported (complete, of a schema this build does not
know). `TEE_CreatePersistentObject` with overwrite makes an object torn and
`TEE_WriteObjectData` makes it valid, so a crash between the two leaves a torn
object where an older record was. Encodings are abstracted to records; a payload
stands for its bytes and their digest; a commit's declared digest is an input of
its own, so that the mismatch is reached. The entry checks, which read and write
nothing else, are one step with the call of the hostcall.

**Sessions and the client** (`ta_host_io_continuation.c`, `ta_teep_runtime.c`,
`ta_production_runtime.c`, `optee_execute.c`).

| Module | Models |
| --- | --- |
| `HostIoContinuation` | the TA's sessions. `pending` is `pending_host_io`, `live` is `pending_teep_live` (with the number of recorded answers), `module` is `teep_agent_live_session`; `count`, `bytes`, `modules`, `wamr`, `natives` are the globals. One action per command and outcome: `Probe`, `ExecuteAsks`, `ExecuteReturns`, `ExecuteFails`, `ResumeAsks`, `ResumeEnds`, ... plus `Open`, `Close`, `Panic` |
| `OpteeExecute` | `twep_wr_optee_execute` in several processes, composed with the TA: each client step that invokes a command takes the TA's action with it |
| `MCHostIo`, `MCOpteeExecute` | constants for TLC |
| `HostIoProofs` | theorems |

OP-TEE runs one command of this TA at a time (`TA_FLAG_SINGLE_INSTANCE`, no
`TA_FLAG_CONCURRENT`), so a command is one action; what interleaves is the
commands of different sessions. What the Agent does inside a run is a choice of
the action: ask for host I/O, return, fail. `ran` is an auxiliary variable that
records which binary was executed and which one the measurement hostcall
hashed; no action reads it.

**The exchange** (`wasm/teep-agent/src/session*`, `verified/live_acceptance.rs`,
and the hostcalls of `ta_teep_hostcalls.c` the Agent uses in it).

| Module | Models |
| --- | --- |
| `TeepSession` | requests of several sessions in the `attestam-verified` mode. `live` holds the command, the recorded answers and the recorded commit of each (`pending_teep_live`), `pending` the body of its last POST; `available` to `application` are the ledger, `result` the stored acceptance result. `View` is what the hostcalls show the Agent, `Asks`, `Acceptable` and `CommitOf` what the Agent does with a view and the answers, `Commit`, `ReplayMatches` and `Execute` what the TA does. `Start` and `Resume` are one whole run of the Agent, from its entry |
| `MCTeepSession` | constants for TLC |
| `TeepSessionProofs` | theorems |

`Install` is the ledger's step (`INSTANCE AcceptanceLedger`), so that a commit
here is atomic; `LedgerSpec`, checked by `app_transactions`, justifies it. `last` and `ran` are auxiliary
variables for the properties: the last acceptance, with the QueryResponse whose
answer it was, and the last execution.

**The REE, execution and the daemon** (`lib/twep-wr/src`, `cmd/twepd`, the
insecure mode of the Agent, and the parts of the TA that do the same work).

| Module | Models |
| --- | --- |
| `ReeRuntime` | `twepd` processes on one state directory. `proc` is a process with the locals of its request, `file` and `tmp` the files and their `<path>.tmp`. The steps follow `twep_wr_execute`: copy the Catalog File, the Agent and the application from `build/` (`twep_wr_copy_file`), resolve with the Agent (`lookup_catalog_entry_dev_resolver`), in the mode `attestam-insecure` install an Update (freshness, payload and Catalog File, each a write to `.tmp` and a rename), check and run the application. Crashes and failed writes between any two steps |
| `ResolveOutput` | one output of the Agent read, pair by pair, by the parser of the REE (`parse_teep_resolve_output`) and by the three of the TA, with what only one side's CBOR functions accept (`LongHead`, `Skip`); the limits and the instruction budget that each runtime derives from it |
| `Messages` | the fourteen builders of CBOR messages (length computed first, items written after) and their receivers: the TA's parsers of the envelope, of a host I/O result and of the input it writes for the Agent, the Agent itself for the input the REE writes, the client's parser of the TA's answers |
| `WasmRun` | the five functions that run a module (Agent and application in the REE and in the TA, the WAMR spike), resource by resource: `held`, `kept` by the session, `lost`; and the requests that call them |
| `Daemon` | `twepd` from `prepareSocketPath` to `Shutdown` or a crash, the accept loop, `handleConn`, and the client's side of a connection |
| `MCReeRuntime`, `MCResolveOutput`, `MCMessages`, `MCWasmRun`, `MCDaemon` | constants for TLC |
| `ReeRuntimeProofs`, `ResolveOutputProofs`, `MessagesProofs`, `WasmRunProofs`, `DaemonProofs` | theorems |

`ran`, `history` and `answer` of `ReeRuntime`, `keys`, `repeated` and `uneven` of
`ResolveOutput`, `lost` and `answers` of `WasmRun`, `alone` of `Daemon` are
auxiliary variables for the properties. `proper` of `Messages` is the part of a
text that its length does not say: which of the target command and the resolver
mode is one that is allowed.

The definitions named `Mut...` are plausible bugs, each the size of one edit.
They are not used by the specifications; each property is shown to fail when the
definition a mutant stands for is replaced by it (`PROJECT.json`, `mutants`).

## 3. Runs

| Run | Instance | Checks | Shows |
| --- | --- | --- | --- |
| `catalog_transactions` | Catalog, one component without payload, acceptance-only commits of both, 2 digests, 2 payloads, generations and sequences up to 3, with and without a legacy map that lists the Catalog, 427,434 states | `TypeOK`, `AcceptanceInv`, `CatalogReadable`, `ResultNeverAhead`, `AcknowledgedIsCommitted`, `StaysLoadable`, `GenerationNeverDecreases`, `StaleCommitWritesNothing`, `ForeignSchemaFreezes` | the record survives every failure and crash, and the served Catalog all of them but an acceptance-only commit of its own component; a commit with a stale generation writes nothing; an unknown schema freezes the store |
| `app_transactions` | two applications that share the two app slots, acceptance-only commits of every component, one legacy map that leaves room for one application and one that is full, 439,412 states | `AppReadable`, `LedgerSpec` | a served application stays served, whatever later commits stage and abandon or have refused for lack of room, unless an acceptance-only commit moves its own sequence; the slots implement the atomic ledger |
| `ta_sessions` | three sessions, any client, 2 transcripts of at most 2 units, 4 units in all, about 40,000 states | `TranscriptsCounted`, `BytesCounted`, `ModulesAlive` | the shared quota is neither leaked nor exceeded; WAMR outlives every suspended Agent |
| `client_rounds` | two processes, 8 rounds, 8 recorded answers, about 32,500 states | `AnswerIsAwaited`, `HistoryHasRoom`, `MeasuredAgentRuns`, `RequestEnds` | with the repository's client every answer meets the request it is for, the history never overflows, the measured Agent is the one that runs, and every request ends |
| `teep_exchange` | two sessions, two commands, two Catalogs, four manifests, one nonce with and without challenge, 215,484 states | `TypeOK`, `InstalledAsRequested`, `SuccessOnlyAfterCommit`, `EvidenceChain`, `ExecutedIsAuthorized`, `ReplayCompletes` | what is installed is what the TAM was last asked for, or a Catalog, and rests on Evidence it was sent, although each round derives the question anew; Success follows the commit; an acceptance without Evidence continues a chain that starts with one; only authorized applications run; a request that installs what it asked for completes |
| `one_daemon` | one process, two commands, three Updates, every mode, two faults, 568,426 states | `InstallsIncrease`, `NoFalseAlarm`, `RecordedIsInstalled`, `RequestEnds` | Updates are installed in increasing order and at most once, over crashes; until something fails nobody is told of a wrong digest, and what the freshness file records is what is installed; every request ends |
| `two_daemons` | two processes on one state directory, one command, one Update, at most one fault, 1,656,493 states | `RacedIsWhole` | processes that install the same Update share its temporary files, rename what the other has open and write on under the final name; what they leave is whole as soon as nobody writes to it |
| `resolve_output` | every output of the Agent, values to skip at nestings 7 to 9, 367,320 states | `ReadAlike`, `WithinLimits` | the REE and the TA agree on the application and on the error as far as the CBOR functions of both accept the output; limits stay within the maxima, and each budget within the Catalog's and the request's timeout |
| `messages` | every builder; one field, and then all the others, take each of 8 lengths (12 in the Agent's inputs: those of the resolver modes and of the longest command as well), and 22 return codes; 388,288 states | `InBuffer`, `Delivered` | the length computed is the length written, with one exception below; every acceptable message is understood as what it is and every other one refused |
| `wasm_run` | 27 applications, three kinds of request, any Agent, one failed allocation per request, 1,834,253 states | `Released`, `Anchored`, `SucceedsAlike`, `RequestEnds` | every exit releases what it holds, in the order of ownership; an application succeeds in the REE, by EXECUTE and by RESUME_HOST_IO alike as far as both check it and read its output; a loop in its main function is stopped |
| `daemon_life` | two processes, one with `--once`, two connections, two crashes, 132,750 states | `ListenerReachable`, `DaemonComesUp`, `ClientEnds` | a daemon run alone comes up over a stale socket and stays reachable; whoever connects is answered or disconnected |
| `first_commit_crash` | expected violation | `CrashRecoverable` | the finding below |

Each module with state has a `TypeOK`, which documents the states. It is a
property of a run in `catalog_transactions` and `teep_exchange`; the inductive
invariants of section 5 contain it, but for those of `Daemon`, which need no types,
and `Messages`, whose types follow from the table that is written.

Finding, with the line it disagrees with in `PROJECT.json`: a TA that dies between
the creation and the write of generation 1 leaves a torn slot 0 and no slot 1.
`load_current` then fails for good. The record is crash-recoverable from
generation 1 on.

Further disagreements are kept as configurations beside the runs. Each of them
ends with a counterexample:

| Configuration | Module, property | Shows |
| --- | --- | --- |
| `UnreadableSlot.cfg` | `MCProtectedStore`, `GenerationNeverDecreases` | `load_current` skips a slot whose read failed for any reason. A transient error on the newer slot selects the older one, and the next commit rewrites the newer one: generation and replay state go back. `load_active_catalog` returns such an error instead |
| `SecondExecute.cfg` | `MCHostIo`, `MeasuredAgentRuns` | a second EXECUTE in a session that has a suspended request runs the module kept from the first one, while the measurement hostcall hashes the Wasm of the second. The repository's client opens a session per request and does not do this |
| `BareAcceptance.cfg` | `MCProtectedStore`, `AcceptedIsStored` | `teep_host_commit_acceptance` takes any component (`ta_teep_hostcalls.c:748-790`): an acceptance-only commit of an application or of the Catalog moves its sequence without a payload, after which none is served. The Agent's probe does this for `remotehello` (`probes.rs:77-82`) |
| `CatalogForApp.cfg` | `MCTeepSession`, `RequestViewStable` | after a request has committed a Catalog, `teep_host_read_file` shows its re-executed Agent no Catalog, even if one was active when the request started. If AttesTAM answers a request for an application with a newer Catalog, the next run asks for the Catalog instead of the application, the replayed commit does not match the recorded one, and the request ends with an error. Nothing wrong is installed |
| `TornCopy.cfg` | `MCReeRuntime`, `InstalledIsWhole` | `twep_wr_copy_file` (`runtime.c:217`) fills the destination itself: a crash leaves a damaged application that no request replaces; `twep_wr_run_app_wasm` refuses it by its digest. `docs/ABI.md` asks for an atomic rename |
| `TwoUpdates.cfg` | `MCReeRuntime`, `InstalledIsWhole` | two processes that install different Updates of one command at a time share `<path>.tmp` (`platform_linux.c:184`): without any fault the renamed file is a mixture of both |
| `SealedReplay.cfg` | `MCReeRuntime`, `InstallsIncrease` | with a protected freshness object the insecure mode reads that one and writes the other (`insecure_install.rs:233`): the same Update is installed again |
| `SkippedAlike.cfg` | `MCResolveOutput`, `SkippedAlike` | the Agent copies members of the Catalog it does not look into (`catalog.rs:184-193, 255-262`). A float, or a value more than 8 deep, in one of them is skipped by `twep_wr_cbor_skip_value` (`runtime.c:535-569`) and is BAD_FORMAT to `cbor_skip_item` (`ta_runtime_cbor.c:43-93`): the REE runs the application, the TA does not |
| `SameBudget.cfg` | `MCResolveOutput`, `SameBudget` | the client sends no INIT, so that a session's default stays 5000 ms, and a request without a timeout carries the client's default (`optee_execute.c:92`): a Catalog timeout of 10000 ms is 10000 ms in the REE and 5000 ms in the TA; `docs/Interface.md:218` has one policy for both |
| `KeyReleased.cfg` | `MCWasmRun`, `KeyReleased` | `execute_teep_agent_resolve` returns at lines 113, 116 and 120 of `ta_teep_runtime.c` without releasing the copy of the development key |
| `ResumedAlike.cfg` | `MCWasmRun`, `ResumedAlike` | a resumed request answers from a buffer of 4096 bytes (`ta_teep_runtime.c:357`): an output that EXECUTE returns is refused |
| `AnyAlike.cfg` | `MCWasmRun`, `AnyAlike` | the TA checks no application signature (only the Agent's, `ta_teep_runtime.c:92`), and the two readers of `stdout` skip other members differently (`app_runtime.c:189-220`, `ta_app_runtime.c:36-70`): one runtime succeeds where the other refuses |
| `CodeReported.cfg` | `MCWasmRun`, `CodeReported` | the TA answers a nonzero return value with `TEE_ERROR_GENERIC` (`ta_app_runtime.c:233`); `docs/ABI.md:87` has `return_code` in the error's details |
| `AbiLoop.cfg` | `MCWasmRun`, `RequestEnds` | `twep_app_abi_version` is called before the instruction limit is set (`app_runtime.c:81`, `ta_app_runtime.c:194`); `docs/Testing.md:345` says that infinite loops are stopped |

`InBuffer` states one more as an exception: the sum in
`make_app_error_response` (`response_cbor.c:113-125`) counts one of its two inner
map heads, so that one byte more is written than was allocated.

Observations that contradict no document: a legacy map that lists the Catalog
component, on a device without Catalog slot, blocks every Catalog commit; the
aggregate limit of 64 KiB is implied by two transcripts of at most 32 KiB; the
client performs the host I/O of its eighth round and then gives up without
sending the answer; when the last live module is released by a close, WAMR stays
initialized until the next Agent run or the end of the instance. For an output
that is too long the TA answers `app.resource_limit` and the REE a runtime error.
The Agent's run in the REE has no instruction limit. With two daemons on one
state directory `InstallsIncrease` and `NoFalseAlarm` do not hold: one may
overwrite the freshness entry of the other, or copy over what it installs.
A daemon that ends removes whatever socket is at the path (`main.go:67`): without
`alone =>`, `ListenerReachable` fails for a successor that starts before its
predecessor has ended (the Makefile waits, `docs/Testing.md:391-396` only waits
for the client). `ReadFrame` has no deadline.

## 4. Assumptions, bounds and what they leave out

Assumptions of `ProtectedStore`:

* one commit at a time (the TA flags above);
* nothing else writes the protected objects. `SECURE_STORAGE_PUT` refuses the names
  of the acceptance state, the Catalog slots and the Evidence result
  (`ta_secure_storage.c:22-29, 93-105`). It does not refuse
  `twep-app-state.{0,1}.bin` nor `protected-sequence-freshness.cbor`: that this
  diagnostic command is not used with those names is assumed, and that whoever
  provisions a device with a legacy map does so before its first commit;
* storage is atomic per call, and a completed write is what is read;
* the check that a digest belongs to the session's HTTP transcript, and the
  replay of a recorded commit, are not in this module: a commit they refuse is
  `EntryFails`;
* a read error is either reported by every slot (`EntryFails`, `StorageFails`)
  or confined to a set of acceptance slots in `UnreadableSets`, chosen again for
  each load. Only `UnreadableSlot.cfg` has other sets than `{{}}`.

Bounds: `MaxGeneration` stands for `UINT64_MAX` and is reached, as is the refusal
at it; `MaxSequence` bounds the sequences a TAM sends; `MaxComponents` stands for
the limits of 32 entries and 4096 bytes and is smaller than the number of
components in `app_transactions`, whose legacy maps are full or almost, so that an
application is staged and then refused. With them no Catalog can be installed in
that run; Catalog commits are in `catalog_transactions`, and the ledger for both is
the theorem `ImplementsLedger`. Two digests and
two payloads suffice because they are only compared with the last one. Three
generations fill each slot, overwrite the first and leave one more commit to
fail. Symmetry (digests, payloads, sessions, requests) is used by safety runs
only.

`Init` has, besides an empty device, one that a newer build has used: a record
of an unknown schema in slot 1, alone or beside a generation 1.

Assumptions of `HostIoContinuation`: a body stands for the request body, its
digest, the input digest and the io_id together, so a host result either matches
the pending request in all fields or is refused; a refused result changes
nothing and is no action. Allocation failures are part of `ExecuteFails`,
`ProbeFails`, `ResumeEnds` and `ExecuteRejected`. OP-TEE destroys the instance
when its last session closes (no `TA_FLAG_INSTANCE_KEEP_ALIVE`) and after a
panic. Sizes are in units of 16 KiB, rounded up, with one body just over the
limit. Three sessions are one more than the transcript limit. In the client run
rounds and answers have their real value 8.

Assumptions of `TeepSession`:

* a message stands for its verified COSE_Sign1. Signatures, the SUIT
  authentication, token and credential checks only refuse, and are
  `RequestFails`, as are HTTP failures and answers of the wrong type; AttesTAM
  may sign any answer in any order otherwise;
* a digest is the message: SHA-256 is injective, and the Agent's signatures are
  deterministic, so that the same QueryResponse has the same bytes in each run.
  Evidence is created inside the Agent and costs no round;
* a read of the Catalog or the application may fail in any run; `read_file_alloc`
  makes such an object absent to the Agent. A failure of a later read in the same
  run refuses;
* a session has one request at a time, as with the repository's client; the
  second EXECUTE is a matter of `HostIoContinuation`;
* every acceptance installs its payload. The callers of the acceptance-only
  hostcall are the Agent's probe (`probes.rs:77-82`) and the acceptance-only build
  (`live_acceptance.rs:146-163`); `ProtectedStore` has it on every component, and
  the exchange is taken to go on without such a probe;
* the insecure mode is in `ReeRuntime`; the acceptance-only build
  (`m9-1-acceptance-only-smoke`) is left out.

Bounds: the two Catalogs authorize different applications for the same command,
and the second withdraws a command, so that each check of an authorization is
refused somewhere. Four manifests allow four acceptances, fewer than
`MaxGeneration`: the overflow is a matter of `ProtectedStore`. A QueryRequest
with and one without a challenge, for each of three components, give six
digests.

Assumptions of `ReeRuntime`: the application of a command is
`apps/<command>.wasm`; a file holds a value, whole or damaged, and a crash is that
of the process: power loss, and with it the missing `fsync`, is not modelled;
staging and diagnostic files, which no step reads back, are left out; SHA-256 is
injective. Two faults are enough for a crash and a failure of the recovery;
sequence numbers need to be compared, so that two suffice. The three Updates
repeat an application under another command and a sequence number under
another one. A copy looks for its destination and opens it in one step. What
may happen in between does not matter to `RacedIsWhole` with two processes, which
both copy the same bytes; of three, one could copy over what the other two are
installing. The Catalog File that `TWEP_CATALOG_CBOR` names is modelled
(`OverrideCatalog`), and not given in the runs.

Assumptions of `ResolveOutput`: an output is any order and any repetition of the
pairs that some reader looks at; a value of the wrong type, length or range is
`Bad`; a key of an inner map that is no text, an 8-byte head and a value to skip,
plain or a float, at any depth may come at any place; one memory limit stands for the three, which are treated alike, and its
values are zero, within both maxima, between them and above both. The maxima are
small numbers; 32-bit and 31-bit saturation are at `MaxUint32` and `MaxInt32`.

Assumptions of `Messages`: an item is its kind and its length. `Lengths` gives the
lengths that a builder's fields may have: natural numbers, and any integer for a
return code, of 32 bits (`LengthsAssumption`). For TLC they are those at which a head
grows, and their neighbours; the proofs take all of them. The bound is needed: from
2^32 on all length computations count a head of 9 bytes, but `cbor_write_type_len` of
the TA and `write_type_len` of `optee_envelope.c` write 5. No field gets there: the
frames of the daemon, the files and the shared memory of the TA are far smaller.
`TextLengths` and `WordLengths` say how long the literal keys and words are.
TLC evaluates them; to the provers a text is only a name. The TA's caller provides
the length needed, one byte less or one more. Whether a target command is of the
allowed characters, and a resolver mode one of the three, is a choice that its
length allows; the command of both inputs of the Agent is `resolve_app`. The Agent
reads any CBOR, so that its reader takes empty texts too and checks the command
itself.

Assumptions of `WasmRun`: one session of the TA and one request at a time; the
application is the same in all requests of a behaviour; what the Agent does is a
choice; at most one allocation fails in a request; half of an output is
`stdout`. Of an application count whether its digest and its signature are right,
its imports and exports, what its functions do, and whether the reader of the
output meets beside `stdout` a value that only one runtime skips, or a head that
only one reads. The sizes have their real values. `Budget` is the number of rounds of a
loop that the instruction limit allows: two show that a loop that is not stopped
is one. That the largest output of the TA, half of it `stdout`, fits the response
buffers (`CapsAssumption`) is true of the constants in the source. The development probe commands are left out.

Assumptions of `Daemon`: a process and a connection are used once, a restarted
daemon is another element of `Daemons`; `twepd` installs no signal handler, so
that stopping it is `Crash`; a response is written in one step. Two processes
show each overlap of a start and an end; a third adds an order of the same pairs.

`CHECK_DEADLOCK FALSE` is in `Messages.cfg`, where a message has been read, and in
`Daemon.cfg`, where every process may have ended.

Fairness: `one_daemon` assumes weak fairness of the steps of a request; what it
waits for is bounded by the HTTP timeout. `wasm_run` assumes that the code goes
on. `daemon_life` assumes it of a running daemon, and that a connected client
writes its request or exits, which is what `twep-cli` does after `Dial`.

`client_rounds` assumes weak fairness of each client's steps once its
session is open. A TA command is bounded by the instruction budget
(`twep_ta_apply_instruction_budget`), the HTTP broker by a timeout of 10 s
(`internal/twepwr/twepwr.go:142`), and the loop of `twep_wr_optee_execute` does
nothing else. No fairness is assumed of opening a session. When the instance
panics the clients' next calls fail; the model ends their requests at once.

## 5. Proofs

`ProtectedStoreProofs`, for every set of components, digests and payloads and all
bounds:

* `TypeCorrect`: `Spec => []TypeOK`, with unreadable slots too;
* `AcceptanceCorrect`: `Spec => []AcceptanceInv` if `UnreadableSets = {{}}`;
* from it `ResultCorrect`, `LoadableCorrect`, `GenerationMonotone`, `FreezeCorrect`.

`ResultNeverAhead` and `StaysLoadable` are not inductive. `AcceptanceInv` adds
that two valid slots differ in generation (`SlotsInv`), that while the next
record is created and written its target is the slot that is not selected, its
generation is one more than the current one, and the slot under write is torn
(`WriteInv`), that entry checks have passed (`RequestInv`), and that no request
has got past the load if a slot is of an unknown schema (`FreezeInv`). The proof
has a step per action; the interesting ones are `SlotCreate` (the current record
is in the other slot, so nothing is lost) and `SlotWrite` (the new record has the
higher generation and is selected). The assumption on `UnreadableSets` is needed:
`UnreadableSlot.cfg` is its counterexample.

On the payload slots, in the same module, all under `UnreadableSets = {{}}`:

* `PayloadCorrect`: `Spec => []PayloadInv`, relative to `AcceptanceInv`;
* from it `CatalogCorrect` (`CatalogReadable`), `AppCorrect` (`AppReadable`),
  `AcknowledgementCorrect` (`AcknowledgedIsCommitted`) and `CompareAndCommit`
  (`StaleCommitWritesNothing`);
* `ImplementsLedger`: `Spec => LedgerSpec`, the refinement. `LedgerStep` goes
  through the actions: the write of the acceptance slot is the ledger's commit, a
  crash between creation and write of a device's first slot is `LoseFirstCommit`,
  every other step, failure and crash stutters.

`CatalogReadable` and `AppReadable` are action properties: what is served before a
step is served after it, except for the write of a record that advances that very
component without a payload. In the ledger that step is `Accept`, which leaves open
what is served for the component it advances and for no other: the stored payload
may be left behind, or one that was staged for this sequence and abandoned may
become active.

`PayloadInv` is what the readers rely on: the payload of a request in progress is
in the slot that is not served and complete before the record that names it is
written (`CatalogInv`, `AppInv`), a request past its checks is for the current
generation (`CommitInv`), and a record under write has a predecessor that can be
read or is the first one of a device that has no other slot (`FirstInv`). The readability properties alone are not inductive: nothing in them
says that the slot about to be overwritten is the other one.

`HostIoProofs`, for any finite set of sessions, any limits, bodies and client:

* `SessionsCorrect`: `Spec => []SessionInv`;
* `TranscriptsCorrect` (`TranscriptsCounted`) and `ModulesCorrect` (`ModulesAlive`);
* `BytesCorrect` (`BytesCounted`), from `BytesInv`;
* for the clients of `OpteeExecute`, `ClientCorrect`: `ClientSpec => [](SessionInv /\
  ClientInv)`, and from it `AwaitedCorrect` (`AnswerIsAwaited`), `MeasuredCorrect`
  (`MeasuredAgentRuns`) and, if `MaxRounds <= HistoryMax + 1`, `RoomCorrect`
  (`HistoryHasRoom`). The code has eight rounds and a history of eight.

`SessionInv` adds `ClosedHoldsNothing`: without it, opening or closing could hide
a transcript that is counted and held by nobody. The lemmas say what taking one
session's share off the counters and adding it does to the cardinalities.
`ClientInv` adds `ExecuteInv`: the TA has recorded one answer per round, and a
session runs the Agent it was suspended with. `MeasuredAgentRuns` needs the client:
`SecondExecute.cfg` shows what two EXECUTEs in one session do.

The byte counter is a sum, which the code adds to and subtracts from in the order
of the requests and `MapThenSumSet` computes in the order of `CHOOSE`. That the
order does not matter needs induction over finite sets. The library's induction
theorems have an operator as a parameter, which the provers cannot instantiate;
`WFMin` (a nonempty set has a minimal element) has none. So the lemmas `NatMin` and
`SmallestSubset` take the least counterexample, and with it `SumsExist` (the
recursive function exists), `SumsAgree` (it is unique), `SumsAny` (any element may
be taken first) and `TotalSizeParts` follow.

`TeepSessionProofs`, for any sets of sessions, commands, nonces, payloads and
manifests and any authorization function, from the assumptions that
QueryResponses are digests, manifests name the Catalog or an application, and
the provisioned map is a map:

* `AnswersBound` (`InstalledAsRequested`): the Agent that accepts an Update compares
  it with the question it would ask on its present view, and the TA compares that
  question's digest with the transcript of the pending request; together they bind
  what is installed to what was sent (`RequestedCommit`), though neither looks at
  both;
* `ExecutionCorrect` (`ExecutedIsAuthorized`), which is inductive: the comparison of
  the loaded application with the authorized digest is in the step that needs it;
* `EvidenceCorrect` (`EvidenceChain`), which is not: `EvidenceInv` adds that the
  stored result is never ahead and that a result of the current generation
  belongs to the last acceptance;
* `ExchangeTypes` (`TypeOK`) and `SuccessCorrect` (`SuccessOnlyAfterCommit`) from
  `ExchangeInv`, which adds `Shape`: until a request commits, its answers are at
  most two QueryRequests. Without it the bound on the answers, and the type of
  the Update that is committed, are not preserved. The other half of the
  argument is that no step moves a component back (`Grows`), so that a pending
  Success of one session survives the commits of the others.
* `ReplayCorrect` (`ReplayCompletes`) from `ReplayInv` on top of `ExchangeInv`: a
  recorded commit has the arguments of the one Update among the request's own
  answers (`UpdateOnce`: there is only one), it is of a generation the ledger has
  reached, and while that is the current generation the ledger holds what it
  installed (`InForce`). An acceptance of another session moves the generation
  past the recorded one, so nothing needs to be shown about it.

`ReeRuntimeProofs`, for any commands, builds, Updates, Catalogs and configurations:

* `TypesCorrect` (`TypeInv`) for any number of
  processes on one state directory. `TypeInv` adds to the types
  where a process can have a file open and what it then writes, that an Update
  being installed is signed and for the command asked for, and that the Catalog
  File exists once a request is past its copy (nothing removes it);
* for one process (`Processes = {d}`, as one daemon has it) `RecordedCorrect`
  (`RecordedIsInstalled`) from `WriteInv` and `RecordInv`; if there is no protected
  freshness object (`SealedFreshness = NoValue`) `InstallsCorrect`
  (`InstallsIncrease`), from `SequenceInv` too; and if no other Catalog File is
  given (`OverrideCatalog = NoValue`) and build/ is of one piece
  (`BuildConsistent`) `NoAlarmCorrect` (`NoFalseAlarm`), from `AlarmInv`.

With one process an open file holds what that process writes (`WriteInv`); with two
it may not (the observations in section 3). `SequenceInv` says that the freshness
file, written before the application, bounds all installs and that an Update in
progress is above it until it is recorded. `RecordInv` says that a recorded Update is installed or about to be.
`AlarmInv` relates each application to the entry of the Catalog File at every step
of copying, installing and promoting (`AppInv`).

`DaemonProofs`, for any number of daemons, clients and crashes:

* `PathCorrect` (`PathInv`), `ListenerCorrect` (`ListenerReachable`) and
  `StartCorrect` (`NeverRefused`, the safety half of `DaemonComesUp`).

`PathInv` adds that while daemons are run one after the other only one runs, and
what `prepareSocketPath` saw at the path is what is there when it acts on it.

`ResolveOutputProofs`, for any digests, codes, fields, maxima and defaults, and for
outputs of any length and order:

* `AgreeCorrect` (`AgreeInv`), `ReadAlikeCorrect` (`ReadAlike`) and
  `WithinLimitsCorrect` (`WithinLimits`).

`ReadAlike` is about the end of an output. `AgreeInv` says what the one pass of the
REE and the three passes of the TA have read alike between two pairs, also where
one of them has given up already and the other goes on. `uneven` remembers that the
output had a head or a value that only one side's functions accept; with such a
value the two may part (`SkippedAlike.cfg`), but never run different applications
(`SameApp`). `WithinLimits` bounds the budget of each runtime and makes them equal
where the Catalog and the request both give a timeout; elsewhere they are not
(`SameBudget.cfg`).

`WasmRunProofs`, for any applications, sizes that fit each other
(`CapsAssumption`) and sequences of requests:

* `ReleaseCorrect` (`ReleaseInv`), `ReleasedCorrect` (`Released`) and
  `AnchoredCorrect` (`Anchored`);
* `AnswersCorrect` (`AnswerInv`) and `SucceedsAlikeCorrect` (`SucceedsAlike`).

`ReleaseInv` adds that what a runner holds it has acquired by its steps so far, and
that the list of an exit contains all of it, users before what they use; the tables
of the five runners are checked step by step (`StepFits`). `AnswerInv` says that the
answer is a function of the application and the kind of the request, so that the
three kinds can be compared though no state holds two of them. What the REE checks
and the TA does not (the signature, and the digest but in the verified mode), what
only the TA refuses
(imports, its output limit) and what the readers of `stdout` skip differently are
premises of `SucceedsAlike`; `AnyAlike.cfg` shows that they are needed.

`MessagesProofs`, for fields of every length below 2^32 and every return code:

* `MessagesInductive` (`MessageInv`), `InBufferCorrect` (`InBuffer`) and
  `DeliveredCorrect` (`Delivered`).

The proof has two halves. The first is about one table of items after the other,
and follows no step: `Fitting` says that the items of a builder take up what its
length computation says, to the byte where that length is passed on, and one byte
more for `make_app_error_response` (`Excess`); `Legible` says that the maps of the
table announce the items that follow them, that keys are keys, that each value is
of a kind that the receiver takes, or the receiver skips it, and that the keys taken
are the ones its verdict needs. There is a lemma `...Items`, `...Fitting` and
`...Legible` per builder; `Tables` collects them. The byte at which an item ends is
a sum over the items before it (`Offsets`), which exists and does not go down; as
in `HostIoProofs`, this uses the least counterexample in place of induction.

The second half follows the steps. `InBuffer` and `Delivered` are not inductive:
they say nothing of what is still to be written, or of how far a reader has come.
`MessageInv` adds that the buffer holds the first items of the table and `p` is
their offset (`Holding`), and that before each item what is due, what is skipped,
the key that is held and the keys that were taken are functions of the table, its
reader and the position (`ReadInv`, with `Due` and `Taken`): the reader is in step with the
writer, also inside the nested maps that it skips. The steps use of a table only
`Fitting` and `Legible`. `Expected` is stated with disjoint guards: where the guards
of a CASE overlap, TLC takes the first and the logic leaves the choice open.

Model-checked only:

* `RequestEnds` (three runs), `DaemonComesUp` and `ClientEnds`: liveness under
  fairness, which this prover does not do;
* `RacedIsWhole`, whose invariant would follow two processes through each other's
  temporary files;
* `CrashRecoverable`, which is violated, and the configurations kept for the
  findings.

## 6. What is not modelled, and the plan

Not modelled: COSE and the cryptography, how the Agent verifies TEEP, SUIT and EAT
messages and its credentials (only that it refuses), the parsers of the Wasm
signature section and of the Catalog File, the TA's diagnostic storage (PUT, GET)
and basic commands, the candidate checks of `optee_candidate.c`, the glue of
WAMR's platform, diagnostics and smoke hosts, the CLI's `diagnose` and output
file, `tc-inventory`, the tools, demo applications and stubs. They keep no state
between calls, or are one call after another without a choice; `PROJECT.json` has
the reason for each.

Plan, in this order:

1. (done) `ProtectedStore` with `AcceptanceLedger`: the most important state of
   the system and the one a test cannot crash at will.
2. (done) `HostIoContinuation` and `OpteeExecute`.
3. (done) `TeepSession`: the Agent's exchange with AttesTAM on the ledger.
4. (done) The REE: `ReeRuntime` for a request and the files, `Daemon` for the
   socket and the connections.
5. (done) `ResolveOutput`, `Messages` and `WasmRun`: the code that exists twice,
   in the REE and in the TA.
6. (done) Proofs: every invariant and action property of the passing runs but
   `RacedIsWhole`, and the refinement of the ledger.
7. To extend: the composition of `TeepSession` with the client's rounds and its
   liveness; the signature section's parser against a reference definition.
