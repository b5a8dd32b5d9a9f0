--------------------------- MODULE ProtectedStore ---------------------------
(***************************************************************************)
(* The TA's protected transactions as a state machine: the three commit    *)
(* hostcalls (teep_host_commit_acceptance, _catalog, _app), every storage  *)
(* call they make as a step of its own, the failure of each storage call,  *)
(* and a crash (TA panic, reboot, power cut) between any two steps.        *)
(*                                                                         *)
(* The TA is single-instance and not concurrent (user_ta_header_defines.h) *)
(* so one commit runs at a time.  A commit of a payload stages it in the   *)
(* inactive Catalog or app slot, reads it back, then publishes it by       *)
(* writing the next D043 record in the inactive acceptance slot, reads     *)
(* that back, and finally stores the AttesTAM acceptance result.           *)
(***************************************************************************)
EXTENDS ProtectedApp

CONSTANTS
    LegacyMaps,     \* sequence maps a device may have been provisioned with
    UnreadableSets  \* sets of acceptance slots whose reads may fail transiently

ASSUME LegacyAssumption == LegacyMaps \subseteq SequenceMap
ASSUME UnreadableAssumption == UnreadableSets \subseteq SUBSET Slot

VARIABLES
    acc,     \* teep-acceptance-state.{0,1}.cbor
    cat,     \* twep-catalog-state.{0,1}.cbor
    app,     \* twep-app-state.{0,1}.bin
    result,  \* verified-evidence-result.cbor
    legacy,  \* protected-sequence-freshness.cbor, read-only here
    op       \* the commit hostcall in progress, or what the last one returned

vars == <<acc, cat, app, result, legacy, op>>
stored == <<acc, cat, app, result, legacy>>

----------------------------------------------------------------------------
Step == {"idle", "stage_create", "stage_write", "stage_verify", "publish",
         "slot_create", "slot_write", "slot_verify",
         "result_create", "result_write", "result_verify"}

Status == {"none", "ok", "bad_parameters", "conflict", "overflow", "excess",
           "corrupt", "security", "unsupported", "not_found", "io"}

Operation ==
    [step : Step, ret : Status,
     kind : {"none", "acceptance", "catalog", "app"},
     comp : Component \cup {NoComponent}, seq : 0..MaxSequence,
     digest : Digests \cup {NoDigest}, expected : 0..MaxGeneration,
     payload : Payloads \cup {NoPayload},
     target : Slot, next : AcceptanceRecord]

Returned(status) ==
    [step |-> "idle", ret |-> status, kind |-> "none", comp |-> NoComponent,
     seq |-> 0, digest |-> NoDigest, expected |-> 0, payload |-> NoPayload,
     target |-> 0, next |-> NoRecord]

ResultObject == [kind : ObjectKind \ {"unsupported"}, generation : 0..MaxGeneration]
NoResult == [kind |-> "absent", generation |-> 0]

TypeOK ==
    /\ acc \in [Slot -> AcceptanceObject]
    /\ cat \in [Slot -> CatalogObject]
    /\ app \in [Slot -> AppObject]
    /\ result \in ResultObject
    /\ legacy \in LegacyObject
    /\ op \in Operation

(***************************************************************************)
(* A device on which no commit of this build has run: any legacy object,   *)
(* no slot, or an acceptance record that a newer build has left in slot 1, *)
(* alone or beside the generation 1 that an acceptance-only commit wrote.  *)
(***************************************************************************)
Init ==
    /\ legacy \in [ok : BOOLEAN, sequences : LegacyMaps]
    /\ \/ acc = [i \in Slot |-> Missing]
       \/ acc = [i \in Slot |-> IF i = 0 THEN Missing ELSE Foreign]
       \/ \E c \in Component, d \in Digests :
            LET base == LegacyRecord(legacy) IN
            /\ legacy.ok /\ EncodeStatus(base, c, 1) = "ok"
            /\ acc = [i \in Slot |->
                        IF i = 0 THEN Complete(UpdatedRecord(base, c, 1, d))
                        ELSE Foreign]
    /\ cat = [i \in Slot |-> MissingCatalog]
    /\ app = [i \in Slot |-> MissingApp]
    /\ result = NoResult
    /\ op = Returned("none")

----------------------------------------------------------------------------
(* Entry of the three commit hostcalls.  A request that passes the checks  *)
(* moves on; any other returns its error and has changed nothing.          *)

Begin(status, kind, comp, seq, digest, expected, payload, target, step) ==
    /\ op.step = "idle"
    /\ op' = IF status # "ok" THEN Returned(status)
             ELSE [step |-> step, ret |-> "none", kind |-> kind,
                   comp |-> comp, seq |-> seq, digest |-> digest,
                   expected |-> expected, payload |-> payload,
                   target |-> target, next |-> NoRecord]
    /\ UNCHANGED stored

\* teep_host_commit_acceptance takes any component, one that has a payload too:
\* the sequence advances and what is stored for the component does not.
BeginAcceptanceCommit(comp, seq, digest, expected) ==
    Begin("ok", "acceptance", comp, seq, digest, expected, NoPayload, 0, "publish")

BeginCatalogCommit(seq, digest, expected, payload, sha, u) ==
    LET cur == LoadRecord(acc, legacy, u) IN
    Begin(CatalogStatus(cat, LoadStatus(acc, legacy, u), cur, seq, expected,
                        payload, sha),
          "catalog", Catalog, seq, digest, expected, payload,
          CatalogTarget(cat, cur.sequences[Catalog]), "stage_create")

BeginAppCommit(comp, seq, digest, expected, payload, sha, u) ==
    LET cur == LoadRecord(acc, legacy, u) IN
    Begin(AppStatus(app, LoadStatus(acc, legacy, u), cur, comp, seq, expected,
                    payload, sha),
          "app", comp, seq, digest, expected, payload,
          AppTarget(app, cur), "stage_create")

\* Any other failure of the checks: no memory, a slot that cannot be read, a
\* failed digest operation, no HTTP transcript that the digest belongs to.
EntryFails ==
    /\ op.step = "idle"
    /\ op' = Returned("io")
    /\ UNCHANGED stored

----------------------------------------------------------------------------
(* Staging: write_catalog_slot / write_app_slot and the read-back.         *)

Goto(step) == op' = [op EXCEPT !.step = step]

SetStaged(catalogObject, appObject) ==
    IF op.kind = "catalog"
    THEN /\ cat' = [cat EXCEPT ![op.target] = catalogObject]
         /\ UNCHANGED <<acc, app, result, legacy>>
    ELSE /\ app' = [app EXCEPT ![op.target] = appObject]
         /\ UNCHANGED <<acc, cat, result, legacy>>

StagedCatalogObject == Complete(StagedCatalog(op.seq, op.expected, op.payload))
StagedAppObject == Complete(StagedApp(op.comp, op.seq, op.expected, op.payload))

StageCreate ==
    /\ op.step = "stage_create"
    /\ SetStaged(TornCatalog, TornApp)
    /\ Goto("stage_write")

StageWrite ==
    /\ op.step = "stage_write"
    /\ SetStaged(StagedCatalogObject, StagedAppObject)
    /\ Goto("stage_verify")

\* TEE_WriteObjectData failed: the object is closed and deleted.
StageWriteFails ==
    /\ op.step = "stage_write"
    /\ SetStaged(MissingCatalog, MissingApp)
    /\ op' = Returned("io")

StageVerify ==
    /\ op.step = "stage_verify"
    /\ IF op.kind = "catalog" THEN cat[op.target] = StagedCatalogObject
                              ELSE app[op.target] = StagedAppObject
    /\ Goto("publish")
    /\ UNCHANGED stored

----------------------------------------------------------------------------
(* twep_acceptance_commit: load, check, write the other slot, read back.   *)

MutStaleGeneration(u) ==
    LET cur == LoadRecord(acc, legacy, u)
        status == AcceptanceStatus(LoadStatus(acc, legacy, u), cur, op.comp,
                                   op.seq, op.digest, cur.generation)
    IN
    /\ op.step = "publish"
    /\ op' = IF status # "ok" THEN Returned(status)
             ELSE [op EXCEPT
                     !.step = "slot_create",
                     !.target = TargetSlot(SelectedSlot(acc, u)),
                     !.next = UpdatedRecord(cur, op.comp, op.seq, op.digest)]
    /\ UNCHANGED stored

MutResultFirst(u) ==
    LET cur == LoadRecord(acc, legacy, u)
        status == AcceptanceStatus(LoadStatus(acc, legacy, u), cur, op.comp,
                                   op.seq, op.digest, op.expected)
    IN
    /\ op.step = "publish"
    /\ op' = IF status # "ok" THEN Returned(status)
             ELSE [op EXCEPT
                     !.step = "result_create",
                     !.next = UpdatedRecord(cur, op.comp, op.seq, op.digest)]
    /\ UNCHANGED stored

Publish(u) ==
    LET cur == LoadRecord(acc, legacy, u)
        status == AcceptanceStatus(LoadStatus(acc, legacy, u), cur, op.comp,
                                   op.seq, op.digest, op.expected)
    IN
    /\ op.step = "publish"
    /\ op' = IF status # "ok" THEN Returned(status)
             ELSE [op EXCEPT
                     !.step = "slot_create",
                     !.target = TargetSlot(SelectedSlot(acc, u)),
                     !.next = UpdatedRecord(cur, op.comp, op.seq, op.digest)]
    /\ UNCHANGED stored

SetAcceptance(object) ==
    /\ acc' = [acc EXCEPT ![op.target] = object]
    /\ UNCHANGED <<cat, app, result, legacy>>

SlotCreate ==
    /\ op.step = "slot_create"
    /\ SetAcceptance(Torn)
    /\ Goto("slot_write")

\* The activation point: the new generation, and with it the payload, is current.
SlotWrite ==
    /\ op.step = "slot_write"
    /\ SetAcceptance(Complete(op.next))
    /\ Goto("slot_verify")

SlotWriteFails ==
    /\ op.step = "slot_write"
    /\ SetAcceptance(Missing)
    /\ op' = Returned("io")

SlotVerify ==
    /\ op.step = "slot_verify"
    /\ acc[op.target] = Complete(op.next)
    /\ Goto("result_create")
    /\ UNCHANGED stored

----------------------------------------------------------------------------
(* teep_publish_acceptance_result, then the hostcall returns 0.            *)

SetResult(object) ==
    /\ result' = object
    /\ UNCHANGED <<acc, cat, app, legacy>>

ResultCreate ==
    /\ op.step = "result_create"
    /\ SetResult([kind |-> "torn", generation |-> 0])
    /\ Goto("result_write")

ResultWrite ==
    /\ op.step = "result_write"
    /\ SetResult([kind |-> "valid", generation |-> op.next.generation])
    /\ Goto("result_verify")

ResultWriteFails ==
    /\ op.step = "result_write"
    /\ SetResult(NoResult)
    /\ op' = Returned("io")

ResultVerify ==
    /\ op.step = "result_verify"
    /\ result = [kind |-> "valid", generation |-> op.next.generation]
    /\ op' = [op EXCEPT !.step = "idle", !.ret = "ok"]
    /\ UNCHANGED stored

----------------------------------------------------------------------------
(* TEE_CreatePersistentObject failed, no acceptance slot could be read, or *)
(* a record just written could not be read back: the hostcall returns an   *)
(* error and writes nothing more.                                          *)
StorageFails ==
    /\ op.step \in {"stage_create", "stage_verify", "publish", "slot_create",
                    "slot_verify", "result_create", "result_verify"}
    /\ op' = Returned("io")
    /\ UNCHANGED stored

\* The TA dies between two storage calls; nothing volatile survives.
Crash ==
    /\ op.step # "idle"
    /\ op' = Returned("none")
    /\ UNCHANGED stored

Next ==
    \/ \E s \in 0..MaxSequence, d \in Digests, g \in 0..MaxGeneration :
         \/ \E c \in Component : BeginAcceptanceCommit(c, s, d, g)
         \/ \E p, sha \in Payloads, u \in UnreadableSets :
              \/ BeginCatalogCommit(s, d, g, p, sha, u)
              \/ \E c \in Apps : BeginAppCommit(c, s, d, g, p, sha, u)
    \/ EntryFails
    \/ StageCreate \/ StageWrite \/ StageWriteFails \/ StageVerify
    \/ \E u \in UnreadableSets : Publish(u)
    \/ SlotCreate \/ SlotWrite \/ SlotWriteFails \/ SlotVerify
    \/ ResultCreate \/ ResultWrite \/ ResultWriteFails \/ ResultVerify
    \/ StorageFails
    \/ Crash

Spec == Init /\ [][Next]_vars

----------------------------------------------------------------------------
(* The ledger that the slots represent.                                    *)

\* What load_current finds when every slot can be read.
Current == LoadRecord(acc, legacy, {})
Loadable == LoadStatus(acc, legacy, {}) = "ok"

\* Generation 1 is being written: the record in memory is still the base.
FirstCommitInFlight == op.step = "slot_write" /\ ParsedValid(acc, {}) = {}

Ledger == INSTANCE AcceptanceLedger WITH
    available   <- Loadable \/ FirstCommitInFlight,
    generation  <- Current.generation,
    sequences   <- Current.sequences,
    digest      <- Current.digest,
    catalog     <- ActiveCatalog(cat, Current.sequences[Catalog]),
    application <- ActiveApp(app, Current)

(***************************************************************************)
(* The slots implement the ledger: whatever storage call fails and         *)
(* wherever the TA dies, a reader sees the state before a commit or the    *)
(* state after it, digest, sequence, generation and payload together.      *)
(***************************************************************************)
LedgerSpec == Ledger!Spec

Accepted == Current.sequences[Catalog]
ServesCatalog == Loadable /\ CatalogLoadStatus(cat, Accepted) = "ok"
ServesApp == Loadable /\ AppLoadStatus(app, Current) = "ok"

\* The write of a record that advances comp without a payload.
BareCommit(comp) ==
    op.step = "slot_write" /\ op.kind = "acceptance" /\ op.comp = comp

(***************************************************************************)
(* A Catalog that load_active_catalog finds is found in every later state, *)
(* in the middle of any commit and after a crash in it, and is neither     *)
(* corrupt nor ambiguous: only an acceptance-only commit of the Catalog    *)
(* component itself can leave the accepted sequence without its Catalog.   *)
(***************************************************************************)
CatalogReadable ==
    [][ServesCatalog => ServesCatalog' \/ BareCommit(Catalog)]_vars

(***************************************************************************)
(* Once load_active_app finds an application it finds one in every later   *)
(* state, whichever components other commits stage, abandon or accept:     *)
(* only an acceptance-only commit of the active component can end that.    *)
(***************************************************************************)
AppReadable ==
    [][ServesApp => ServesApp' \/ BareCommit(ActiveApp(app, Current).component)]_vars

(***************************************************************************)
(* The component that the acceptance record advanced always has its        *)
(* payload: what CatalogReadable and AppReadable would say if the          *)
(* acceptance-only hostcall refused the components that have one.          *)
(***************************************************************************)
AcceptedIsStored ==
    Loadable =>
        /\ Accepted # legacy.sequences[Catalog] => ServesCatalog
        /\ (\E c \in Apps : Current.sequences[c] # legacy.sequences[c]) => ServesApp

(***************************************************************************)
(* The stored AttesTAM acceptance result is never of a generation that has *)
(* not been committed, so a stale result cannot become current later.      *)
(***************************************************************************)
ResultNeverAhead ==
    result.kind = "valid" => result.generation \in 1..Current.generation

(***************************************************************************)
(* A commit hostcall that returned 0 has committed: the request's digest   *)
(* and sequence are in the current record, its payload is the one served,  *)
(* and the acceptance result is of the current generation.                 *)
(***************************************************************************)
AcknowledgedIsCommitted ==
    op.ret = "ok" =>
        /\ Loadable
        /\ Current.generation = op.expected + 1
        /\ Current.sequences[op.comp] = op.seq
        /\ Current.digest = op.digest
        /\ result = [kind |-> "valid", generation |-> Current.generation]
        /\ op.kind = "catalog" => ActiveCatalog(cat, op.seq) = op.payload
        /\ op.kind = "app" =>
             ActiveApp(app, Current) =
                 [component |-> op.comp, payload |-> op.payload]

(***************************************************************************)
(* Once a first generation is stored, no failure or crash can make the     *)
(* acceptance record unreadable.                                           *)
(***************************************************************************)
StaysLoadable ==
    [][Loadable /\ Current.generation > 0 => Loadable']_vars

(***************************************************************************)
(* Compare-and-commit: a commit whose expected generation is not the       *)
(* current one changes no slot of any kind.                                *)
(***************************************************************************)
StaleCommitWritesNothing ==
    [][<<acc, cat, app>>' # <<acc, cat, app>>
         => op.expected = Current.generation]_vars

(***************************************************************************)
(* A complete acceptance record of an unknown schema freezes the store:    *)
(* the TA neither falls back to the other slot nor writes anything.        *)
(***************************************************************************)
ForeignSchemaFreezes ==
    [][(\E i \in Slot : acc[i].kind = "unsupported") => UNCHANGED stored]_vars

(***************************************************************************)
(* The acceptance record is crash-recoverable: between two hostcalls a     *)
(* device with sound legacy state can always load it.                      *)
(***************************************************************************)
CrashRecoverable ==
    /\ op.step = "idle"
    /\ legacy.ok
    /\ \A i \in Slot : acc[i].kind # "unsupported"
    => Loadable

(***************************************************************************)
(* The generation of the acceptance record never goes back.                *)
(***************************************************************************)
GenerationNeverDecreases ==
    [][Current'.generation >= Current.generation]_vars

----------------------------------------------------------------------------
(* The inductive strengthening of the acceptance properties, for a device  *)
(* on which slots can be read (UnreadableSets = {{}}).                     *)

StageStep == {"stage_create", "stage_write", "stage_verify"}
ResultStep == {"slot_verify", "result_create", "result_write", "result_verify"}

\* What the entry checks leave in the request.
RequestInv ==
    /\ op.step # "idle" => op.ret = "none" /\ op.comp \in Component
    /\ op.kind = "catalog" => op.comp = Catalog
    /\ op.kind = "app" => op.comp \in Apps
    /\ op.step \in StageStep =>
         op.kind \in {"catalog", "app"} /\ op.expected # MaxGeneration

\* Two complete slots are never of the same generation.
SlotsInv ==
    /\ \A i \in Slot : acc[i].kind = "valid" => acc[i].rec.generation >= 1
    /\ acc[0].kind = "valid" /\ acc[1].kind = "valid" =>
         acc[0].rec.generation # acc[1].rec.generation

\* While the next record is written, the current one is in the other slot.
WriteInv ==
    /\ op.step \in {"slot_create", "slot_write"} =>
         /\ op.next.generation = Current.generation + 1
         /\ op.target = TargetSlot(SelectedSlot(acc, {}))
    /\ op.step = "slot_create" => Loadable
    /\ op.step = "slot_write" => acc[op.target].kind = "torn"
    /\ op.step \in ResultStep =>
         op.next.generation = Current.generation /\ op.next.generation >= 1

\* No request passes the load of a record with an unknown schema.
FreezeInv ==
    (\E i \in Slot : acc[i].kind = "unsupported")
        => op.step \in {"idle", "publish"}

(***************************************************************************)
(* In every reachable state the two acceptance slots are ordered by        *)
(* generation, the slot being rewritten is never the current one, and the  *)
(* stored result is of a committed generation.                             *)
(***************************************************************************)
AcceptanceInv ==
    TypeOK /\ RequestInv /\ SlotsInv /\ WriteInv /\ FreezeInv /\ ResultNeverAhead

----------------------------------------------------------------------------
(* The inductive strengthening for the payload slots.                      *)

PublishStep == {"publish", "slot_create", "slot_write"}
Committed == op.step \in ResultStep \/ op.ret = "ok"

\* The request in progress is for the record it will replace.
CommitInv ==
    /\ op.step # "idle" => op.kind # "none" /\ op.digest \in Digests
    /\ \/ op.step \in StageStep \cup {"slot_create", "slot_write"}
       \/ op.step = "publish" /\ op.kind # "acceptance"
       => /\ op.expected = Current.generation
          /\ op.seq > Current.sequences[op.comp]
    /\ op.step \in {"slot_create", "slot_write"} =>
         /\ AcceptanceStatus("ok", Current, op.comp, op.seq, op.digest,
                             op.expected) = "ok"
         /\ op.next = UpdatedRecord(Current, op.comp, op.seq, op.digest)
    /\ Committed =>
         /\ op.next = Current
         /\ Current.generation = op.expected + 1
         /\ Current.sequences[op.comp] = op.seq
         /\ Current.digest = op.digest
         /\ Loadable
    /\ op.ret = "ok" => result = [kind |-> "valid", generation |-> op.next.generation]

\* The record under write has a predecessor that can be read, or is the first one of
\* a device that has no other slot.
FirstInv ==
    op.step = "slot_write" =>
        \/ Loadable
        \/ FirstCommitInFlight /\ legacy.ok /\ acc[1 - op.target].kind = "absent"

\* Two complete Catalog slots are of different sequences, and slot 1 is used only
\* once a sequence is accepted.
CatalogSlotsOK(c, accepted) ==
    /\ \A i \in Slot : /\ c[i].kind # "unsupported"
                       /\ c[i].kind = "valid" => c[i].rec.payload \in Payloads
    /\ c[0].kind = "valid" /\ c[1].kind = "valid" =>
         c[0].rec.sequence # c[1].rec.sequence
    /\ accepted = Unknown => c[1].kind = "absent"

\* The slots stay empty on a device whose legacy map lists the Catalog.
CatalogUnused(c) ==
    Current.generation = 0 /\ Accepted # Unknown => \A i \in Slot : c[i].kind = "absent"

\* The Catalog is staged in the slot that is not served.
CatalogInv ==
    /\ CatalogSlotsOK(cat, Accepted)
    /\ CatalogUnused(cat)
    /\ op.kind = "catalog" /\ op.step \in StageStep \cup PublishStep =>
         /\ op.payload \in Payloads
         /\ Accepted = Unknown \/ CatalogLoadStatus(cat, Accepted) = "ok"
         /\ op.step \in StageStep => op.target = CatalogTarget(cat, Accepted)
         /\ op.step \in PublishStep =>
              cat[CatalogTarget(cat, Accepted)] = StagedCatalogObject
    /\ op.kind = "catalog" /\ Committed => ActiveCatalog(cat, Accepted) = op.payload

\* Two complete app slots are of different generations; one that is ahead of the
\* record is staged where the served slot is not, for a sequence not yet accepted.
AppSlotsOK(p, cur) ==
    /\ \A i \in Slot : p[i].kind = "valid" =>
         /\ p[i].rec.component \in Apps /\ p[i].rec.payload \in Payloads
         /\ p[i].rec.generation \in 1..(cur.generation + 1)
         /\ p[i].rec.generation = cur.generation + 1 =>
              /\ i = AppTarget(p, cur)
              /\ p[i].rec.sequence > cur.sequences[p[i].rec.component]
    /\ p[0].kind = "valid" /\ p[1].kind = "valid" =>
         p[0].rec.generation # p[1].rec.generation

\* The application is staged in the slot that is not served.
AppInv ==
    /\ AppSlotsOK(app, Current)
    /\ op.kind = "app" /\ op.step \in StageStep \cup PublishStep =>
         /\ op.payload \in Payloads
         /\ op.step \in StageStep => op.target = AppTarget(app, Current)
         /\ op.step \in PublishStep =>
              app[AppTarget(app, Current)] = StagedAppObject
    /\ op.kind = "app" /\ Committed =>
         ActiveApp(app, Current) = [component |-> op.comp, payload |-> op.payload]

(***************************************************************************)
(* In every reachable state the payload in progress is staged in the slot  *)
(* that is not served, and the payload of a commit just made is served.    *)
(***************************************************************************)
PayloadInv == CommitInv /\ FirstInv /\ CatalogInv /\ AppInv

============================================================================
