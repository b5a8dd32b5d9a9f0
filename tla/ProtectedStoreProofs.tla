------------------------- MODULE ProtectedStoreProofs -------------------------
(***************************************************************************)
(* What holds of ProtectedStore on every device: any number of components, *)
(* digests and payloads, any bounds, any legacy map.                       *)
(***************************************************************************)
EXTENDS ProtectedStore, TLAPS

----------------------------------------------------------------------------
(* The checks return a Status, and pick a slot.                            *)

LEMMA LoadStatusType ==
    ASSUME NEW a, NEW l, NEW u
    PROVE  LoadStatus(a, l, u) \in Status
BY DEF LoadStatus, Status

LEMMA AcceptanceStatusType ==
    ASSUME NEW load \in Status, NEW cur, NEW comp, NEW seq, NEW digest,
           NEW expected
    PROVE  AcceptanceStatus(load, cur, comp, seq, digest, expected) \in Status
BY DEF AcceptanceStatus, EncodeStatus, Status

LEMMA CatalogStatusType ==
    ASSUME NEW c, NEW load \in Status, NEW cur, NEW seq, NEW expected,
           NEW payload, NEW sha
    PROVE  CatalogStatus(c, load, cur, seq, expected, payload, sha) \in Status
<1>1. \A accepted : CatalogLoadStatus(c, accepted) \in Status
  BY DEF CatalogLoadStatus, Status
<1> QED BY <1>1 DEF CatalogStatus, Status

LEMMA AppStatusType ==
    ASSUME NEW p, NEW load \in Status, NEW cur, NEW comp, NEW seq,
           NEW expected, NEW payload, NEW sha
    PROVE  AppStatus(p, load, cur, comp, seq, expected, payload, sha) \in Status
BY DEF AppStatus, Status

LEMMA TargetType ==
    /\ \A i : TargetSlot(i) \in Slot
    /\ \A c, accepted : CatalogTarget(c, accepted) \in Slot
    /\ \A p, cur : AppTarget(p, cur) \in Slot
BY DEF TargetSlot, CatalogTarget, AppTarget, Slot

LEMMA LegacyRecordType ==
    ASSUME NEW l \in LegacyObject
    PROVE  /\ LegacyRecord(l) \in AcceptanceRecord
           /\ LegacyRecord(l).generation = 0
BY BoundsAssumption DEF LegacyRecord, NoRecord, AcceptanceRecord, LegacyObject,
   SequenceMap, NoSequences, Unknown

\* load_current hands out a record.
LEMMA LoadRecordType ==
    ASSUME NEW a \in [Slot -> AcceptanceObject], NEW l \in LegacyObject, NEW u
    PROVE  LoadRecord(a, l, u) \in AcceptanceRecord
<1>1. SelectedSlot(a, u) # NoSlot => SelectedSlot(a, u) \in Slot
  BY DEF SelectedSlot, Slot
<1>2. LegacyRecord(l) \in AcceptanceRecord
  BY LegacyRecordType
<1>3. \A i \in Slot : a[i].rec \in AcceptanceRecord
  BY DEF AcceptanceObject
<1> QED BY <1>1, <1>2, <1>3 DEF LoadRecord

\* The overflow check keeps the next generation within its width.
LEMMA UpdatedRecordType ==
    ASSUME NEW cur \in AcceptanceRecord, NEW comp \in Component,
           NEW seq \in 0..MaxSequence, NEW digest \in Digests \cup {NoDigest},
           cur.generation # MaxGeneration
    PROVE  UpdatedRecord(cur, comp, seq, digest) \in AcceptanceRecord
<1>1. cur.generation + 1 \in 0..MaxGeneration
  BY BoundsAssumption DEF AcceptanceRecord
<1>2. [cur.sequences EXCEPT ![comp] = seq] \in SequenceMap
  BY DEF AcceptanceRecord, SequenceMap
<1> QED BY <1>1, <1>2 DEF UpdatedRecord, AcceptanceRecord

LEMMA ReturnedType ==
    ASSUME NEW status \in Status
    PROVE  Returned(status) \in Operation
<1>1. NoRecord \in AcceptanceRecord
  BY BoundsAssumption DEF NoRecord, AcceptanceRecord, NoSequences, SequenceMap
<1> QED
  BY <1>1, BoundsAssumption DEF Returned, Operation, Step, Slot

----------------------------------------------------------------------------
(* Type correctness.  Only Publish computes a record that could leave its  *)
(* type, and it does so after the overflow check.                          *)

LEMMA ObjectTypes ==
    /\ Missing \in AcceptanceObject /\ Torn \in AcceptanceObject
    /\ Foreign \in AcceptanceObject
    /\ \A r \in AcceptanceRecord : Complete(r) \in AcceptanceObject
    /\ MissingCatalog \in CatalogObject /\ TornCatalog \in CatalogObject
    /\ \A r \in CatalogRecord : Complete(r) \in CatalogObject
    /\ MissingApp \in AppObject /\ TornApp \in AppObject
    /\ \A r \in AppRecord : Complete(r) \in AppObject
    /\ NoResult \in ResultObject
<1>1. NoRecord \in AcceptanceRecord
  BY BoundsAssumption DEF NoRecord, AcceptanceRecord, NoSequences, SequenceMap
<1>2. NoCatalogRecord \in CatalogRecord
  BY BoundsAssumption DEF NoCatalogRecord, CatalogRecord
<1>3. NoAppRecord \in AppRecord
  BY BoundsAssumption DEF NoAppRecord, AppRecord
<1>4. 0 \in 0..MaxGeneration
  BY BoundsAssumption
<1> QED
  BY <1>1, <1>2, <1>3, <1>4
  DEF Missing, Torn, Foreign, Complete, AcceptanceObject, MissingCatalog,
      TornCatalog, CatalogObject, MissingApp, TornApp, AppObject, ObjectKind,
      NoResult, ResultObject

LEMMA InitType == Init => TypeOK
<1> SUFFICES ASSUME Init PROVE TypeOK
  OBVIOUS
<1>0. legacy \in LegacyObject
  BY LegacyAssumption DEF Init, LegacyObject
<1>1. acc \in [Slot -> AcceptanceObject]
  <2>1. CASE acc = [i \in Slot |-> Missing]
    BY <2>1, ObjectTypes
  <2>2. CASE acc = [i \in Slot |-> IF i = 0 THEN Missing ELSE Foreign]
    BY <2>2, ObjectTypes
  <2>3. ASSUME NEW c \in Component, NEW d \in Digests,
               acc = [i \in Slot |->
                        IF i = 0
                        THEN Complete(UpdatedRecord(LegacyRecord(legacy), c, 1, d))
                        ELSE Foreign]
        PROVE  acc \in [Slot -> AcceptanceObject]
    <3>1. /\ LegacyRecord(legacy) \in AcceptanceRecord
          /\ LegacyRecord(legacy).generation = 0
      BY <1>0, LegacyRecordType
    <3>2. UpdatedRecord(LegacyRecord(legacy), c, 1, d) \in AcceptanceRecord
      BY <3>1, UpdatedRecordType, BoundsAssumption DEF Component
    <3> QED BY <2>3, <3>2, ObjectTypes
  <2> QED BY <2>1, <2>2, <2>3 DEF Init
<1>2. op \in Operation
  BY ReturnedType DEF Init, Status
<1> QED
  BY <1>0, <1>1, <1>2, ObjectTypes DEF Init, TypeOK

LEMMA InitRequest == Init => RequestInv
BY DEF Init, RequestInv, Returned, StageStep

\* A refused request, a failed call and a crash forget the request.
LEMMA ReturnedRequest ==
    ASSUME NEW status, op' = Returned(status)
    PROVE  RequestInv'
BY DEF RequestInv, Returned, StageStep

LEMMA BeginType ==
    ASSUME TypeOK, NEW status \in Status,
           NEW kind \in {"acceptance", "catalog", "app"},
           NEW comp \in Component, NEW seq \in 0..MaxSequence,
           NEW digest \in Digests, NEW expected \in 0..MaxGeneration,
           NEW payload \in Payloads \cup {NoPayload}, NEW target \in Slot,
           NEW step \in {"stage_create", "publish"},
           Begin(status, kind, comp, seq, digest, expected, payload, target, step),
           kind = "catalog" => comp = Catalog,
           kind = "app" => comp \in Apps,
           step = "stage_create" /\ status = "ok" =>
             kind # "acceptance" /\ expected # MaxGeneration
    PROVE  TypeOK' /\ RequestInv'
<1>1. NoRecord \in AcceptanceRecord
  BY BoundsAssumption DEF NoRecord, AcceptanceRecord, NoSequences, SequenceMap
<1>2. op' \in Operation /\ RequestInv'
  <2>1. CASE status # "ok"
    BY <2>1, ReturnedType, ReturnedRequest DEF Begin
  <2>2. CASE status = "ok"
    <3>1. op' = [step |-> step, ret |-> "none", kind |-> kind,
                 comp |-> comp, seq |-> seq, digest |-> digest,
                 expected |-> expected, payload |-> payload,
                 target |-> target, next |-> NoRecord]
      BY <2>2 DEF Begin
    <3>2. op' \in Operation
      BY <3>1, <1>1 DEF Operation, Status, Step
    <3>3. RequestInv'
      BY <3>1, <2>2 DEF RequestInv, StageStep
    <3> QED BY <3>2, <3>3
  <2> QED BY <2>1, <2>2
<1> QED BY <1>2 DEF Begin, stored, TypeOK

\* A step that only moves on within one request.
LEMMA GotoType ==
    ASSUME TypeOK, RequestInv, op.step # "idle", NEW step \in Step, Goto(step),
           step \in StageStep => op.step \in StageStep
    PROVE  op' \in Operation /\ RequestInv'
<1>1. op' \in Operation
  BY DEF TypeOK, Operation, Goto
<1>2. /\ op'.step = step /\ op'.ret = op.ret /\ op'.kind = op.kind
      /\ op'.comp = op.comp /\ op'.expected = op.expected
  BY DEF TypeOK, Operation, Goto
<1> QED BY <1>1, <1>2 DEF RequestInv

LEMMA StagedType ==
    ASSUME TypeOK, RequestInv, op.step \in StageStep
    PROVE  /\ op.kind = "catalog" => StagedCatalogObject \in CatalogObject
           /\ op.kind = "app" => StagedAppObject \in AppObject
<1>1. op.expected + 1 \in 0..MaxGeneration
  BY BoundsAssumption DEF TypeOK, Operation, RequestInv
<1>2. StagedCatalog(op.seq, op.expected, op.payload) \in CatalogRecord
  BY <1>1 DEF StagedCatalog, CatalogRecord, TypeOK, Operation
<1>3. op.comp \in Apps =>
        StagedApp(op.comp, op.seq, op.expected, op.payload) \in AppRecord
  BY <1>1 DEF StagedApp, AppRecord, TypeOK, Operation
<1> QED
  BY <1>2, <1>3, ObjectTypes DEF StagedCatalogObject, StagedAppObject, RequestInv

\* Staging writes the Catalog slot or the app slot of the request.
LEMMA SetStagedType ==
    ASSUME TypeOK, RequestInv, op.step \in StageStep, NEW c, NEW a,
           SetStaged(c, a),
           op.kind = "catalog" => c \in CatalogObject,
           op.kind = "app" => a \in AppObject
    PROVE  /\ acc' \in [Slot -> AcceptanceObject]
           /\ cat' \in [Slot -> CatalogObject]
           /\ app' \in [Slot -> AppObject]
           /\ result' \in ResultObject
           /\ legacy' \in LegacyObject
<1>1. op.target \in Slot /\ op.kind \in {"catalog", "app"}
  BY DEF TypeOK, Operation, RequestInv
<1>2. CASE op.kind = "catalog"
  BY <1>1, <1>2 DEF SetStaged, TypeOK
<1>3. CASE op.kind = "app"
  BY <1>1, <1>3 DEF SetStaged, TypeOK
<1> QED BY <1>1, <1>2, <1>3

LEMMA PublishType ==
    ASSUME TypeOK, RequestInv, NEW u \in UnreadableSets, Publish(u)
    PROVE  TypeOK' /\ RequestInv'
<1> DEFINE cur == LoadRecord(acc, legacy, u)
           status == AcceptanceStatus(LoadStatus(acc, legacy, u), cur, op.comp,
                                      op.seq, op.digest, op.expected)
<1>1. op.step = "publish" /\ UNCHANGED stored
  BY DEF Publish
<1>2. status \in Status
  BY LoadStatusType, AcceptanceStatusType
<1>3. op' \in Operation /\ RequestInv'
  <2>1. CASE status # "ok"
    <3>1. op' = Returned(status)
      BY <2>1 DEF Publish
    <3> QED BY <3>1, <1>2, ReturnedType, ReturnedRequest
  <2>2. CASE status = "ok"
    <3>1. op' = [op EXCEPT !.step = "slot_create",
                           !.target = TargetSlot(SelectedSlot(acc, u)),
                           !.next = UpdatedRecord(cur, op.comp, op.seq, op.digest)]
      BY <2>2 DEF Publish
    <3>2. cur.generation # MaxGeneration
      BY <2>2 DEF AcceptanceStatus
    <3>3. cur \in AcceptanceRecord
      BY LoadRecordType DEF TypeOK
    <3>4. UpdatedRecord(cur, op.comp, op.seq, op.digest) \in AcceptanceRecord
      <4>1. /\ op.comp \in Component
            /\ op.seq \in 0..MaxSequence
            /\ op.digest \in Digests \cup {NoDigest}
        BY <1>1 DEF TypeOK, RequestInv, Operation
      <4> HIDE DEF cur
      <4> QED BY <3>2, <3>3, <4>1, UpdatedRecordType
    <3>5. TargetSlot(SelectedSlot(acc, u)) \in Slot
      BY TargetType
    <3>6. op' \in Operation
      BY <3>1, <3>4, <3>5 DEF TypeOK, Operation, Step
    <3>7. /\ op'.step = "slot_create" /\ op'.ret = op.ret /\ op'.kind = op.kind
          /\ op'.comp = op.comp
      BY <3>1 DEF TypeOK, Operation
    <3> QED BY <1>1, <3>6, <3>7 DEF RequestInv, StageStep
  <2> QED BY <2>1, <2>2
<1> QED BY <1>1, <1>3 DEF TypeOK, stored

LEMMA NextType ==
    ASSUME TypeOK, RequestInv, [Next]_vars
    PROVE  TypeOK' /\ RequestInv'
<1> USE DEF Status
<1>0. op.target \in Slot /\ op.next \in AcceptanceRecord
  BY DEF TypeOK, Operation
<1>1. ASSUME NEW s \in 0..MaxSequence, NEW d \in Digests,
             NEW g \in 0..MaxGeneration, NEW c \in Component,
             BeginAcceptanceCommit(c, s, d, g)
      PROVE  TypeOK' /\ RequestInv'
  BY <1>1, BeginType DEF BeginAcceptanceCommit, Component, Slot
<1>2. ASSUME NEW s \in 0..MaxSequence, NEW d \in Digests,
             NEW g \in 0..MaxGeneration, NEW p \in Payloads,
             NEW sha \in Payloads, NEW u \in UnreadableSets,
             BeginCatalogCommit(s, d, g, p, sha, u)
      PROVE  TypeOK' /\ RequestInv'
  <2> DEFINE cur == LoadRecord(acc, legacy, u)
             status == CatalogStatus(cat, LoadStatus(acc, legacy, u), cur, s, g,
                                     p, sha)
             target == CatalogTarget(cat, cur.sequences[Catalog])
  <2>1. Begin(status, "catalog", Catalog, s, d, g, p, target, "stage_create")
    BY <1>2 DEF BeginCatalogCommit
  <2>2. status \in Status /\ target \in Slot
    BY LoadStatusType, CatalogStatusType, TargetType
  <2>3. status = "ok" => g # MaxGeneration
    BY DEF CatalogStatus
  <2> HIDE DEF status, target
  <2> QED BY <2>1, <2>2, <2>3, BeginType DEF Component
<1>3. ASSUME NEW s \in 0..MaxSequence, NEW d \in Digests,
             NEW g \in 0..MaxGeneration, NEW p \in Payloads,
             NEW sha \in Payloads, NEW u \in UnreadableSets, NEW c \in Apps,
             BeginAppCommit(c, s, d, g, p, sha, u)
      PROVE  TypeOK' /\ RequestInv'
  <2> DEFINE cur == LoadRecord(acc, legacy, u)
             status == AppStatus(app, LoadStatus(acc, legacy, u), cur, c, s, g,
                                 p, sha)
             target == AppTarget(app, cur)
  <2>1. Begin(status, "app", c, s, d, g, p, target, "stage_create")
    BY <1>3 DEF BeginAppCommit
  <2>2. status \in Status /\ target \in Slot
    BY LoadStatusType, AppStatusType, TargetType
  <2>3. status = "ok" => g # MaxGeneration
    BY DEF AppStatus
  <2> HIDE DEF status, target
  <2> QED BY <2>1, <2>2, <2>3, BeginType DEF Component
<1>4. CASE EntryFails
  BY <1>4, ReturnedType, ReturnedRequest DEF EntryFails, stored, TypeOK
<1>5. CASE StageCreate
  <2>1. op' \in Operation /\ RequestInv'
    BY <1>5, GotoType DEF StageCreate, StageStep, Step
  <2> QED
    BY <1>5, <2>1, SetStagedType, ObjectTypes DEF StageCreate, StageStep, TypeOK
<1>6. CASE StageWrite
  <2>1. op' \in Operation /\ RequestInv'
    BY <1>6, GotoType DEF StageWrite, StageStep, Step
  <2> QED
    BY <1>6, <2>1, SetStagedType, StagedType DEF StageWrite, StageStep, TypeOK
<1>7. CASE StageWriteFails
  <2>1. op' \in Operation /\ RequestInv'
    BY <1>7, ReturnedType, ReturnedRequest DEF StageWriteFails
  <2> QED
    BY <1>7, <2>1, SetStagedType, ObjectTypes
    DEF StageWriteFails, StageStep, TypeOK
<1>8. CASE StageVerify
  <2>1. op' \in Operation /\ RequestInv'
    BY <1>8, GotoType DEF StageVerify, StageStep, Step
  <2> QED BY <1>8, <2>1 DEF StageVerify, stored, TypeOK
<1>9. ASSUME NEW u \in UnreadableSets, Publish(u)
      PROVE  TypeOK' /\ RequestInv'
  BY <1>9, PublishType
<1>10. CASE SlotCreate
  <2>1. op' \in Operation /\ RequestInv'
    BY <1>10, GotoType DEF SlotCreate, StageStep, Step
  <2> QED
    BY <1>10, <2>1, <1>0, ObjectTypes DEF SlotCreate, SetAcceptance, TypeOK
<1>11. CASE SlotWrite
  <2>1. op' \in Operation /\ RequestInv'
    BY <1>11, GotoType DEF SlotWrite, StageStep, Step
  <2> QED
    BY <1>11, <2>1, <1>0, ObjectTypes DEF SlotWrite, SetAcceptance, TypeOK
<1>12. CASE SlotWriteFails
  <2>1. op' \in Operation /\ RequestInv'
    BY <1>12, ReturnedType, ReturnedRequest DEF SlotWriteFails
  <2> QED
    BY <1>12, <2>1, <1>0, ObjectTypes DEF SlotWriteFails, SetAcceptance, TypeOK
<1>13. CASE SlotVerify
  <2>1. op' \in Operation /\ RequestInv'
    BY <1>13, GotoType DEF SlotVerify, StageStep, Step
  <2> QED BY <1>13, <2>1 DEF SlotVerify, stored, TypeOK
<1>14. CASE ResultCreate
  <2>1. op' \in Operation /\ RequestInv'
    BY <1>14, GotoType DEF ResultCreate, StageStep, Step
  <2>2. [kind |-> "torn", generation |-> 0] \in ResultObject
    BY BoundsAssumption DEF ResultObject, ObjectKind
  <2> QED BY <1>14, <2>1, <2>2 DEF ResultCreate, SetResult, TypeOK
<1>15. CASE ResultWrite
  <2>1. op' \in Operation /\ RequestInv'
    BY <1>15, GotoType DEF ResultWrite, StageStep, Step
  <2>2. [kind |-> "valid", generation |-> op.next.generation] \in ResultObject
    BY <1>0 DEF ResultObject, ObjectKind, AcceptanceRecord
  <2> QED BY <1>15, <2>1, <2>2 DEF ResultWrite, SetResult, TypeOK
<1>16. CASE ResultWriteFails
  <2>1. op' \in Operation /\ RequestInv'
    BY <1>16, ReturnedType, ReturnedRequest DEF ResultWriteFails
  <2> QED
    BY <1>16, <2>1, ObjectTypes DEF ResultWriteFails, SetResult, TypeOK
<1>17. CASE ResultVerify
  <2>1. op' = [op EXCEPT !.step = "idle", !.ret = "ok"] /\ UNCHANGED stored
    BY <1>17 DEF ResultVerify
  <2>2. op' \in Operation
    BY <2>1 DEF TypeOK, Operation, Step
  <2>3. op'.step = "idle" /\ op'.kind = op.kind /\ op'.comp = op.comp
    BY <2>1 DEF TypeOK, Operation
  <2>4. RequestInv'
    BY <2>3 DEF RequestInv, StageStep
  <2> QED BY <2>1, <2>2, <2>4 DEF stored, TypeOK
<1>18. CASE StorageFails
  BY <1>18, ReturnedType, ReturnedRequest DEF StorageFails, stored, TypeOK
<1>19. CASE Crash
  BY <1>19, ReturnedType, ReturnedRequest DEF Crash, stored, TypeOK
<1>20. CASE UNCHANGED vars
  BY <1>20 DEF vars, TypeOK, RequestInv
<1> QED
  BY <1>1, <1>2, <1>3, <1>4, <1>5, <1>6, <1>7, <1>8, <1>9, <1>10, <1>11, <1>12,
     <1>13, <1>14, <1>15, <1>16, <1>17, <1>18, <1>19, <1>20
  DEF Next

(***************************************************************************)
(* Every object and the request in progress keep their type, whatever      *)
(* fails: in particular no generation exceeds UINT64_MAX, because both the *)
(* staging code and twep_acceptance_commit refuse the last one.            *)
(***************************************************************************)
THEOREM TypeCorrect == Spec => []TypeOK
<1>1. Init => TypeOK /\ RequestInv
  BY InitType, InitRequest
<1>2. TypeOK /\ RequestInv /\ [Next]_vars => (TypeOK /\ RequestInv)'
  BY NextType
<1> QED BY <1>1, <1>2, PTL DEF Spec

----------------------------------------------------------------------------
(* load_current when every slot can be read.                               *)

LEMMA Selection ==
    ASSUME NEW a \in [Slot -> AcceptanceObject], NEW l \in LegacyObject
    PROVE  LET s == SelectedSlot(a, {})
               r == LoadRecord(a, l, {})
           IN  /\ s \in {NoSlot, 0, 1}
               /\ s = NoSlot =>
                    /\ a[0].kind # "valid" /\ a[1].kind # "valid"
                    /\ r = LegacyRecord(l) /\ r.generation = 0
               /\ s = 0 =>
                    /\ a[0].kind = "valid" /\ r = a[0].rec
                    /\ a[1].kind = "valid" =>
                         a[1].rec.generation <= a[0].rec.generation
               /\ s = 1 =>
                    /\ a[1].kind = "valid" /\ r = a[1].rec
                    /\ a[0].kind = "valid" =>
                         a[0].rec.generation < a[1].rec.generation
<1>1. /\ a[0] \in AcceptanceObject /\ a[0].rec.generation \in Int
      /\ a[1] \in AcceptanceObject /\ a[1].rec.generation \in Int
  BY DEF Slot, AcceptanceObject, AcceptanceRecord
<1>2. LegacyRecord(l).generation = 0
  BY DEF LegacyRecord, NoRecord
<1> QED
  BY <1>1, <1>2 DEF SelectedSlot, LoadRecord, ParsedValid, Slot, NoSlot

\* Rewriting the other slot with an incomplete object changes nothing.
LEMMA IncompleteKeepsCurrent ==
    ASSUME NEW a \in [Slot -> AcceptanceObject], NEW l \in LegacyObject,
           NEW o \in AcceptanceObject, o.kind \in {"absent", "torn"},
           NEW t, t = TargetSlot(SelectedSlot(a, {}))
    PROVE  LET b == [a EXCEPT ![t] = o]
           IN  /\ b \in [Slot -> AcceptanceObject]
               /\ SelectedSlot(b, {}) = SelectedSlot(a, {})
               /\ LoadRecord(b, l, {}) = LoadRecord(a, l, {})
               /\ LoadRecord(a, l, {}).generation > 0 /\ LoadStatus(a, l, {}) = "ok"
                    => LoadStatus(b, l, {}) = "ok"
<1>1. t \in Slot
  BY TargetType
<1>2. [a EXCEPT ![t] = o] \in [Slot -> AcceptanceObject]
  BY <1>1
<1>3. /\ t \in {0, 1} /\ [a EXCEPT ![t] = o][t] = o
      /\ t = 0 => [a EXCEPT ![t] = o][1] = a[1]
      /\ t = 1 => [a EXCEPT ![t] = o][0] = a[0]
  BY <1>1 DEF Slot
<1>4. /\ SelectedSlot([a EXCEPT ![t] = o], {}) = SelectedSlot(a, {})
      /\ LoadRecord([a EXCEPT ![t] = o], l, {}) = LoadRecord(a, l, {})
  BY <1>2, <1>3, Selection, ZenonT(40) DEF TargetSlot, NoSlot
<1>5. ASSUME LoadRecord(a, l, {}).generation > 0, LoadStatus(a, l, {}) = "ok"
      PROVE  LoadStatus([a EXCEPT ![t] = o], l, {}) = "ok"
  <2>1. SelectedSlot(a, {}) # NoSlot
    BY <1>5, Selection
  <2>2. /\ a[0].kind # "unsupported" /\ a[1].kind # "unsupported"
    BY <1>5 DEF LoadStatus, Slot
  <2> QED
    BY <1>2, <1>3, <1>4, <2>1, <2>2, Selection
    DEF LoadStatus, ParsedValid, Slot, TargetSlot, NoSlot
<1> QED BY <1>2, <1>4, <1>5

\* The slots after slot i has been rewritten.
Rewritten(a, i, o) == [a EXCEPT ![i] = o]

\* A complete record of a later generation in the other slot becomes current.
LEMMA NewRecordIsCurrent ==
    ASSUME NEW a \in [Slot -> AcceptanceObject], NEW l \in LegacyObject,
           NEW r \in AcceptanceRecord,
           r.generation > LoadRecord(a, l, {}).generation
    PROVE  LET t == TargetSlot(SelectedSlot(a, {}))
               b == Rewritten(a, t, Complete(r))
           IN  /\ SelectedSlot(b, {}) = t
               /\ LoadRecord(b, l, {}) = r
               /\ b[0].kind = "valid" /\ b[1].kind = "valid" =>
                    b[0].rec.generation # b[1].rec.generation
               /\ (\A i \in Slot : a[i].kind # "unsupported")
                    => LoadStatus(b, l, {}) = "ok"
<1> DEFINE t == TargetSlot(SelectedSlot(a, {}))
           b == Rewritten(a, t, Complete(r))
<1>1. t \in Slot
  BY TargetType
<1>2. b \in [Slot -> AcceptanceObject]
  BY <1>1, ObjectTypes DEF Rewritten
<1>3. /\ t \in {0, 1} /\ b[t].kind = "valid" /\ b[t].rec = r
      /\ t = 0 => b[1] = a[1]
      /\ t = 1 => b[0] = a[0]
  BY <1>1 DEF Slot, Complete, Rewritten
<1>4. /\ a[0].rec.generation \in Int /\ a[1].rec.generation \in Int
      /\ r.generation \in Int
  BY DEF Slot, AcceptanceObject, AcceptanceRecord
<1>5. \A i \in {0, 1} : a[i].kind = "valid" => a[i].rec.generation < r.generation
  BY <1>4, Selection DEF NoSlot
<1>6. t = 0 => SelectedSlot(a, {}) # 0
  BY DEF TargetSlot
<1> HIDE DEF b, t
<1>7. /\ SelectedSlot(b, {}) = t
      /\ LoadRecord(b, l, {}) = r
  BY <1>2, <1>3, <1>4, <1>5, Selection DEF NoSlot
<1>8. b[0].kind = "valid" /\ b[1].kind = "valid" =>
        b[0].rec.generation # b[1].rec.generation
  BY <1>3, <1>4, <1>5
<1>9. ASSUME \A i \in Slot : a[i].kind # "unsupported"
      PROVE  LoadStatus(b, l, {}) = "ok"
  BY <1>3, <1>8, <1>9 DEF LoadStatus, ParsedValid, Slot
<1> QED BY <1>7, <1>8, <1>9 DEF b, t

----------------------------------------------------------------------------
(* The acceptance slots.  From here on no slot fails to be read.           *)

LEMMA InitAcceptance == Init => AcceptanceInv
<1> SUFFICES ASSUME Init PROVE AcceptanceInv
  OBVIOUS
<1>1. op.step = "idle" /\ result.kind = "absent"
  BY DEF Init, Returned, NoResult
<1>2. SlotsInv
  <2>1. LegacyRecord(legacy).generation = 0
    BY DEF LegacyRecord, NoRecord
  <2> QED
    BY <2>1 DEF Init, SlotsInv, Slot, Missing, Foreign, Complete, UpdatedRecord
<1> QED
  BY <1>1, <1>2, InitType, InitRequest
  DEF AcceptanceInv, WriteInv, FreezeInv, ResultNeverAhead, ResultStep

\* A step that leaves the slots and the result alone.
LEMMA SlotsUnchanged ==
    ASSUME SlotsInv, ResultNeverAhead, UNCHANGED <<acc, result, legacy>>
    PROVE  /\ Current' = Current
           /\ Loadable' = Loadable
           /\ SlotsInv'
           /\ ResultNeverAhead'
BY DEF SlotsInv, ResultNeverAhead, Current, Loadable

LEMMA ReturnKeepsAcceptance ==
    ASSUME AcceptanceInv, TypeOK', RequestInv', NEW status,
           op' = Returned(status), UNCHANGED <<acc, result, legacy>>
    PROVE  AcceptanceInv'
<1>1. op'.step = "idle"
  BY DEF Returned
<1> QED
  BY <1>1, SlotsUnchanged DEF AcceptanceInv, WriteInv, FreezeInv, ResultStep

\* From the entry of a hostcall to the read-back of its staged payload.
LEMMA StagingKeepsAcceptance ==
    ASSUME AcceptanceInv, TypeOK', RequestInv',
           op'.step \in StageStep \cup {"publish"},
           op'.step \in StageStep => \A i \in Slot : acc[i].kind # "unsupported",
           UNCHANGED <<acc, result, legacy>>
    PROVE  AcceptanceInv'
BY SlotsUnchanged DEF AcceptanceInv, WriteInv, FreezeInv, ResultStep, StageStep

LEMMA BeginKeepsAcceptance ==
    ASSUME AcceptanceInv, TypeOK', RequestInv', NEW status, NEW kind, NEW comp,
           NEW seq, NEW digest, NEW expected, NEW payload, NEW target,
           NEW step \in {"stage_create", "publish"},
           Begin(status, kind, comp, seq, digest, expected, payload, target, step),
           step = "stage_create" /\ status = "ok" => LoadStatus(acc, legacy, {}) = "ok"
    PROVE  AcceptanceInv'
<1>1. UNCHANGED <<acc, result, legacy>>
  BY DEF Begin, stored
<1>2. CASE status # "ok"
  BY <1>1, <1>2, ReturnKeepsAcceptance DEF Begin
<1>3. CASE status = "ok"
  <2>1. op'.step = step
    BY <1>3 DEF Begin
  <2>2. step = "stage_create" => \A i \in Slot : acc[i].kind # "unsupported"
    BY <1>3 DEF LoadStatus
  <2> QED BY <1>1, <2>1, <2>2, StagingKeepsAcceptance DEF StageStep
<1> QED BY <1>2, <1>3

LEMMA PublishKeepsAcceptance ==
    ASSUME AcceptanceInv, TypeOK', RequestInv', Publish({})
    PROVE  AcceptanceInv'
<1> DEFINE status == AcceptanceStatus(LoadStatus(acc, legacy, {}), Current,
                                      op.comp, op.seq, op.digest, op.expected)
<1>1. UNCHANGED <<acc, result, legacy>>
  BY DEF Publish, stored
<1>2. CASE status # "ok"
  <2>1. op' = Returned(status)
    BY <1>2 DEF Publish, Current
  <2> QED BY <1>1, <2>1, ReturnKeepsAcceptance
<1>3. CASE status = "ok"
  <2>1. op' = [op EXCEPT !.step = "slot_create",
                         !.target = TargetSlot(SelectedSlot(acc, {})),
                         !.next = UpdatedRecord(Current, op.comp, op.seq, op.digest)]
    BY <1>3 DEF Publish, Current
  <2>2. /\ op'.step = "slot_create"
        /\ op'.target = TargetSlot(SelectedSlot(acc, {}))
        /\ op'.next.generation = Current.generation + 1
    BY <2>1 DEF AcceptanceInv, TypeOK, Operation, UpdatedRecord
  <2>3. Loadable
    BY <1>3 DEF AcceptanceStatus, Loadable
  <2>4. \A i \in Slot : acc[i].kind # "unsupported"
    BY <2>3 DEF Loadable, LoadStatus
  <2>5. SlotsInv' /\ ResultNeverAhead' /\ Current' = Current /\ Loadable' = Loadable
    BY <1>1, SlotsUnchanged DEF AcceptanceInv
  <2>6. WriteInv'
    BY <1>1, <2>2, <2>3, <2>5 DEF WriteInv, ResultStep
  <2>7. FreezeInv'
    BY <1>1, <2>4 DEF FreezeInv
  <2> QED BY <2>5, <2>6, <2>7 DEF AcceptanceInv
<1> QED BY <1>2, <1>3

\* TEE_CreatePersistentObject on the other slot.
LEMMA SlotCreateKeepsAcceptance ==
    ASSUME AcceptanceInv, TypeOK', RequestInv', SlotCreate
    PROVE  AcceptanceInv' /\ Current' = Current
<1>1. /\ op.step = "slot_create"
      /\ acc' = [acc EXCEPT ![op.target] = Torn]
      /\ UNCHANGED <<result, legacy>>
      /\ op' = [op EXCEPT !.step = "slot_write"]
  BY DEF SlotCreate, SetAcceptance, Goto
<1>2. op.target = TargetSlot(SelectedSlot(acc, {})) /\ op.target \in Slot
  BY <1>1, TargetType DEF AcceptanceInv, WriteInv
<1>3. SelectedSlot(acc', {}) = SelectedSlot(acc, {}) /\ Current' = Current
  BY <1>1, <1>2, IncompleteKeepsCurrent, ObjectTypes
  DEF AcceptanceInv, TypeOK, Torn, Current
<1>4. /\ op'.step = "slot_write" /\ op'.target = op.target /\ op'.next = op.next
      /\ acc'[op.target].kind = "torn"
  BY <1>1, <1>2 DEF AcceptanceInv, TypeOK, Operation, Torn
<1>5. WriteInv'
  BY <1>1, <1>2, <1>3, <1>4 DEF AcceptanceInv, WriteInv, ResultStep
<1>6. SlotsInv'
  <2>1. \A i \in Slot : acc'[i].kind = "valid" => acc'[i] = acc[i]
    BY <1>1, <1>2 DEF AcceptanceInv, TypeOK, Torn
  <2> QED BY <2>1 DEF AcceptanceInv, SlotsInv, Slot
<1>7. FreezeInv'
  BY <1>1, <1>2 DEF AcceptanceInv, FreezeInv, TypeOK, Torn
<1>8. ResultNeverAhead'
  BY <1>1, <1>3 DEF AcceptanceInv, ResultNeverAhead
<1> QED BY <1>3, <1>5, <1>6, <1>7, <1>8 DEF AcceptanceInv

\* TEE_WriteObjectData of the next record: the commit point.
LEMMA SlotWriteKeepsAcceptance ==
    ASSUME AcceptanceInv, TypeOK', RequestInv', SlotWrite
    PROVE  /\ AcceptanceInv'
           /\ Current' = op.next
           /\ op.next.generation = Current.generation + 1
           /\ Loadable'
<1>1. /\ op.step = "slot_write"
      /\ acc' = [acc EXCEPT ![op.target] = Complete(op.next)]
      /\ UNCHANGED <<result, legacy>>
      /\ op' = [op EXCEPT !.step = "slot_verify"]
  BY DEF SlotWrite, SetAcceptance, Goto
<1>2. /\ op.target = TargetSlot(SelectedSlot(acc, {}))
      /\ op.target \in Slot
      /\ op.next.generation = Current.generation + 1
  BY <1>1, TargetType DEF AcceptanceInv, WriteInv
<1>3. /\ op.next \in AcceptanceRecord /\ Current \in AcceptanceRecord
      /\ op.next.generation \in Int /\ Current.generation \in Int
      /\ Current.generation >= 0
  BY LoadRecordType DEF AcceptanceInv, TypeOK, Operation, Current, AcceptanceRecord
<1>4. op.next.generation > LoadRecord(acc, legacy, {}).generation
  BY <1>2, <1>3 DEF Current
<1>5. \A i \in Slot : acc[i].kind # "unsupported"
  BY <1>1 DEF AcceptanceInv, FreezeInv
<1>6. /\ LoadRecord(acc', legacy, {}) = op.next
      /\ LoadStatus(acc', legacy, {}) = "ok"
      /\ acc'[0].kind = "valid" /\ acc'[1].kind = "valid" =>
           acc'[0].rec.generation # acc'[1].rec.generation
  <2>1. acc \in [Slot -> AcceptanceObject] /\ legacy \in LegacyObject
    BY DEF AcceptanceInv, TypeOK
  <2>2. op.next \in AcceptanceRecord
    BY <1>3
  <2>3. op.target = TargetSlot(SelectedSlot(acc, {}))
    BY <1>2
  <2>4. acc' = Rewritten(acc, op.target, Complete(op.next))
    BY <1>1 DEF Rewritten
  <2> QED BY <2>1, <2>2, <2>3, <2>4, <1>4, <1>5, NewRecordIsCurrent
<1>7. Current' = op.next /\ Loadable'
  BY <1>1, <1>6 DEF Current, Loadable
<1>8. op'.step = "slot_verify" /\ op'.next = op.next
  BY <1>1 DEF AcceptanceInv, TypeOK, Operation
<1>9. WriteInv'
  BY <1>2, <1>3, <1>7, <1>8 DEF WriteInv, ResultStep
<1>10. SlotsInv'
  <2>1. acc'[op.target].rec.generation >= 1
    BY <1>1, <1>2, <1>3 DEF AcceptanceInv, TypeOK, Complete
  <2>2. \A i \in Slot : i # op.target => acc'[i] = acc[i]
    BY <1>1 DEF AcceptanceInv, TypeOK
  <2> QED BY <1>6, <2>1, <2>2 DEF AcceptanceInv, SlotsInv
<1>11. FreezeInv'
  BY <1>1, <1>2, <1>5 DEF AcceptanceInv, FreezeInv, TypeOK, Complete
<1>12. ResultNeverAhead'
  <2>1. result.kind = "valid" => result.generation \in 1..Current.generation
    BY DEF AcceptanceInv, ResultNeverAhead
  <2> QED BY <1>1, <1>2, <1>3, <1>7, <2>1 DEF ResultNeverAhead
<1> QED BY <1>2, <1>7, <1>9, <1>10, <1>11, <1>12 DEF AcceptanceInv

LEMMA SlotWriteFailsKeepsAcceptance ==
    ASSUME AcceptanceInv, TypeOK', RequestInv', SlotWriteFails
    PROVE  AcceptanceInv' /\ Current' = Current
<1>1. /\ op.step = "slot_write"
      /\ acc' = [acc EXCEPT ![op.target] = Missing]
      /\ UNCHANGED <<result, legacy>>
      /\ op' = Returned("io")
  BY DEF SlotWriteFails, SetAcceptance
<1>2. op.target = TargetSlot(SelectedSlot(acc, {})) /\ op.target \in Slot
  BY <1>1, TargetType DEF AcceptanceInv, WriteInv
<1>3. Current' = Current
  BY <1>1, <1>2, IncompleteKeepsCurrent, ObjectTypes, ZenonT(40)
  DEF AcceptanceInv, TypeOK, Missing, Current
<1>4. op'.step = "idle"
  BY <1>1 DEF Returned
<1>5. WriteInv' /\ FreezeInv'
  BY <1>4 DEF WriteInv, FreezeInv, ResultStep
<1>6. SlotsInv'
  <2>1. \A i \in Slot : acc'[i].kind = "valid" => acc'[i] = acc[i]
    BY <1>1, <1>2 DEF AcceptanceInv, TypeOK, Missing
  <2> QED BY <2>1 DEF AcceptanceInv, SlotsInv, Slot
<1>7. ResultNeverAhead'
  BY <1>1, <1>3 DEF AcceptanceInv, ResultNeverAhead
<1> QED BY <1>3, <1>5, <1>6, <1>7 DEF AcceptanceInv

\* Storing the acceptance result of the generation just committed.
LEMMA ResultKeepsAcceptance ==
    ASSUME AcceptanceInv, TypeOK', RequestInv', UNCHANGED <<acc, legacy>>,
           op.step \in ResultStep, op'.next = op.next,
           op'.step \in ResultStep \cup {"idle"},
           \/ result' = result
           \/ result'.kind # "valid"
           \/ result'.generation = op.next.generation
    PROVE  AcceptanceInv'
<1>1. Current' = Current /\ Loadable' = Loadable
  BY DEF Current, Loadable
<1>2. op.next.generation = Current.generation /\ op.next.generation >= 1
  BY DEF AcceptanceInv, WriteInv
<1>3. op.next.generation \in Int
  BY DEF AcceptanceInv, TypeOK, Operation, AcceptanceRecord
<1>4. ResultNeverAhead'
  BY <1>1, <1>2, <1>3 DEF AcceptanceInv, ResultNeverAhead
<1>5. WriteInv'
  BY <1>1, <1>2 DEF WriteInv, ResultStep
<1>6. SlotsInv'
  BY DEF AcceptanceInv, SlotsInv
<1>7. FreezeInv'
  BY DEF AcceptanceInv, FreezeInv, ResultStep
<1> QED BY <1>4, <1>5, <1>6, <1>7 DEF AcceptanceInv

LEMMA NextAcceptance ==
    ASSUME UnreadableSets = {{}}, AcceptanceInv, [Next]_vars
    PROVE  AcceptanceInv'
<1>0. TypeOK' /\ RequestInv'
  BY NextType DEF AcceptanceInv
<1>a. op \in Operation
  BY DEF AcceptanceInv, TypeOK
<1>1. ASSUME NEW s \in 0..MaxSequence, NEW d \in Digests,
             NEW g \in 0..MaxGeneration, NEW c \in Component,
             BeginAcceptanceCommit(c, s, d, g)
      PROVE  AcceptanceInv'
  BY <1>0, <1>1, BeginKeepsAcceptance DEF BeginAcceptanceCommit
<1>2. ASSUME NEW s \in 0..MaxSequence, NEW d \in Digests,
             NEW g \in 0..MaxGeneration, NEW p \in Payloads,
             NEW sha \in Payloads, BeginCatalogCommit(s, d, g, p, sha, {})
      PROVE  AcceptanceInv'
  <2> DEFINE cur == LoadRecord(acc, legacy, {})
             status == CatalogStatus(cat, LoadStatus(acc, legacy, {}), cur, s, g,
                                     p, sha)
             target == CatalogTarget(cat, cur.sequences[Catalog])
  <2>1. Begin(status, "catalog", Catalog, s, d, g, p, target, "stage_create")
    BY <1>2 DEF BeginCatalogCommit
  <2>2. status = "ok" => LoadStatus(acc, legacy, {}) = "ok"
    BY DEF CatalogStatus
  <2> HIDE DEF status, target
  <2> QED BY <1>0, <2>1, <2>2, BeginKeepsAcceptance
<1>3. ASSUME NEW s \in 0..MaxSequence, NEW d \in Digests,
             NEW g \in 0..MaxGeneration, NEW p \in Payloads,
             NEW sha \in Payloads, NEW c \in Apps,
             BeginAppCommit(c, s, d, g, p, sha, {})
      PROVE  AcceptanceInv'
  <2> DEFINE cur == LoadRecord(acc, legacy, {})
             status == AppStatus(app, LoadStatus(acc, legacy, {}), cur, c, s, g,
                                 p, sha)
             target == AppTarget(app, cur)
  <2>1. Begin(status, "app", c, s, d, g, p, target, "stage_create")
    BY <1>3 DEF BeginAppCommit
  <2>2. status = "ok" => LoadStatus(acc, legacy, {}) = "ok"
    BY DEF AppStatus
  <2> HIDE DEF status, target
  <2> QED BY <1>0, <2>1, <2>2, BeginKeepsAcceptance
<1>4. CASE EntryFails
  BY <1>0, <1>4, ReturnKeepsAcceptance DEF EntryFails, stored
<1>5. CASE StageCreate \/ StageWrite \/ StageVerify
  <2>1. /\ op.step \in StageStep
        /\ op'.step \in StageStep \cup {"publish"}
        /\ UNCHANGED <<acc, result, legacy>>
    BY <1>5, <1>a DEF StageCreate, StageWrite, StageVerify, Goto, SetStaged,
       StageStep, stored, Operation
  <2>2. \A i \in Slot : acc[i].kind # "unsupported"
    BY <2>1 DEF AcceptanceInv, FreezeInv, StageStep
  <2> QED BY <1>0, <2>1, <2>2, StagingKeepsAcceptance
<1>6. CASE StageWriteFails
  <2>1. op' = Returned("io") /\ UNCHANGED <<acc, result, legacy>>
    BY <1>6 DEF StageWriteFails, SetStaged
  <2> QED BY <1>0, <2>1, ReturnKeepsAcceptance
<1>7. CASE Publish({})
  BY <1>0, <1>7, PublishKeepsAcceptance
<1>8. CASE SlotCreate
  BY <1>0, <1>8, SlotCreateKeepsAcceptance
<1>9. CASE SlotWrite
  BY <1>0, <1>9, SlotWriteKeepsAcceptance
<1>10. CASE SlotWriteFails
  BY <1>0, <1>10, SlotWriteFailsKeepsAcceptance
<1>11. CASE SlotVerify
  <2>1. /\ op.step \in ResultStep /\ op'.step \in ResultStep
        /\ op'.next = op.next /\ UNCHANGED <<acc, result, legacy>>
    BY <1>11, <1>a DEF SlotVerify, Goto, ResultStep, stored, Operation
  <2> QED BY <1>0, <2>1, ResultKeepsAcceptance
<1>12. CASE ResultCreate \/ ResultWrite
  <2>1. /\ op.step \in ResultStep /\ op'.step \in ResultStep
        /\ op'.next = op.next /\ UNCHANGED <<acc, legacy>>
        /\ result'.kind # "valid" \/ result'.generation = op.next.generation
    BY <1>12, <1>a DEF ResultCreate, ResultWrite, Goto, SetResult, ResultStep,
       Operation
  <2> QED BY <1>0, <2>1, ResultKeepsAcceptance
<1>13. CASE ResultWriteFails
  <2>1. op'.step = "idle" /\ UNCHANGED <<acc, legacy>> /\ result'.kind # "valid"
    BY <1>13 DEF ResultWriteFails, SetResult, Returned, NoResult
  <2> QED
    BY <1>0, <2>1 DEF AcceptanceInv, SlotsInv, WriteInv, FreezeInv,
       ResultNeverAhead, ResultStep
<1>14. CASE ResultVerify
  <2>1. /\ op.step \in ResultStep /\ op'.step = "idle"
        /\ op'.next = op.next /\ UNCHANGED <<acc, result, legacy>>
    BY <1>14, <1>a DEF ResultVerify, ResultStep, stored, Operation
  <2> QED BY <1>0, <2>1, ResultKeepsAcceptance
<1>15. CASE StorageFails \/ Crash
  BY <1>0, <1>15, ReturnKeepsAcceptance DEF StorageFails, Crash, stored
<1>16. CASE UNCHANGED vars
  BY <1>0, <1>16 DEF vars, AcceptanceInv, SlotsInv, WriteInv, FreezeInv,
     ResultNeverAhead, Current, Loadable
<1> QED
  BY <1>1, <1>2, <1>3, <1>4, <1>5, <1>6, <1>7, <1>8, <1>9, <1>10, <1>11, <1>12,
     <1>13, <1>14, <1>15, <1>16
  DEF Next

(***************************************************************************)
(* On a device whose slots can be read, the slot invariant holds in every  *)
(* reachable state, across any failed call and any crash.                  *)
(***************************************************************************)
THEOREM AcceptanceCorrect ==
    ASSUME UnreadableSets = {{}}
    PROVE  Spec => []AcceptanceInv
<1>1. AcceptanceInv /\ [Next]_vars => AcceptanceInv'
  BY NextAcceptance
<1> QED BY <1>1, InitAcceptance, PTL DEF Spec

(***************************************************************************)
(* teep_publish_acceptance_result never stores a result for a generation   *)
(* that is not yet committed.                                              *)
(***************************************************************************)
THEOREM ResultCorrect ==
    ASSUME UnreadableSets = {{}}
    PROVE  Spec => []ResultNeverAhead
<1>1. AcceptanceInv => ResultNeverAhead
  BY DEF AcceptanceInv
<1> QED BY <1>1, AcceptanceCorrect, PTL

----------------------------------------------------------------------------
(* What a step may do to the acceptance record.                            *)

LEMMA SlotSteps ==
    ASSUME [Next]_vars
    PROVE  \/ UNCHANGED <<acc, legacy>>
           \/ SlotCreate \/ SlotWrite \/ SlotWriteFails
<1>1. \A s, d, g, c : BeginAcceptanceCommit(c, s, d, g) => UNCHANGED <<acc, legacy>>
  BY DEF BeginAcceptanceCommit, Begin, stored
<1>2. \A s, d, g, p, sha, u :
        BeginCatalogCommit(s, d, g, p, sha, u) => UNCHANGED <<acc, legacy>>
  BY DEF BeginCatalogCommit, Begin, stored
<1>3. \A s, d, g, p, sha, u, c :
        BeginAppCommit(c, s, d, g, p, sha, u) => UNCHANGED <<acc, legacy>>
  BY DEF BeginAppCommit, Begin, stored
<1>4. \A u : Publish(u) => UNCHANGED <<acc, legacy>>
  BY DEF Publish, stored
<1>5. StageCreate \/ StageWrite \/ StageWriteFails \/ StageVerify
        => UNCHANGED <<acc, legacy>>
  BY DEF StageCreate, StageWrite, StageWriteFails, StageVerify, SetStaged, stored
<1>6. ResultCreate \/ ResultWrite \/ ResultWriteFails \/ ResultVerify
        => UNCHANGED <<acc, legacy>>
  BY DEF ResultCreate, ResultWrite, ResultWriteFails, ResultVerify, SetResult,
         stored
<1>7. EntryFails \/ SlotVerify \/ StorageFails \/ Crash \/ UNCHANGED vars
        => UNCHANGED <<acc, legacy>>
  BY DEF EntryFails, SlotVerify, StorageFails, Crash, stored, vars
<1> QED BY <1>1, <1>2, <1>3, <1>4, <1>5, <1>6, <1>7 DEF Next

LEMMA RecordSteps ==
    ASSUME UnreadableSets = {{}}, AcceptanceInv, [Next]_vars
    PROVE  /\ Current'.generation >= Current.generation
           /\ Loadable /\ Current.generation > 0 => Loadable'
<1>0. AcceptanceInv'
  BY NextAcceptance
<1>1. Current.generation \in Int
  BY LoadRecordType DEF AcceptanceInv, TypeOK, Current, AcceptanceRecord
<1>2. CASE UNCHANGED <<acc, legacy>>
  BY <1>1, <1>2 DEF Current, Loadable
<1>3. CASE SlotCreate
  <2>1. Current' = Current
    BY <1>0, <1>3, SlotCreateKeepsAcceptance DEF AcceptanceInv
  <2>2. /\ acc' = [acc EXCEPT ![op.target] = Torn] /\ legacy' = legacy
        /\ op.target = TargetSlot(SelectedSlot(acc, {}))
    BY <1>3 DEF SlotCreate, SetAcceptance, AcceptanceInv, WriteInv
  <2>3. Loadable /\ Current.generation > 0 => Loadable'
    BY <2>2, IncompleteKeepsCurrent, ObjectTypes
    DEF AcceptanceInv, TypeOK, Torn, Current, Loadable
  <2> QED BY <1>1, <2>1, <2>3
<1>4. CASE SlotWrite
  <2>1. /\ Current' = op.next /\ Loadable'
        /\ op.next.generation = Current.generation + 1
    BY <1>0, <1>4, SlotWriteKeepsAcceptance DEF AcceptanceInv
  <2> QED BY <1>1, <2>1
<1>5. CASE SlotWriteFails
  <2>1. Current' = Current
    BY <1>0, <1>5, SlotWriteFailsKeepsAcceptance DEF AcceptanceInv
  <2>2. /\ acc' = [acc EXCEPT ![op.target] = Missing] /\ legacy' = legacy
        /\ op.target = TargetSlot(SelectedSlot(acc, {}))
    BY <1>5 DEF SlotWriteFails, SetAcceptance, AcceptanceInv, WriteInv
  <2>3. Loadable /\ Current.generation > 0 => Loadable'
    BY <2>2, IncompleteKeepsCurrent, ObjectTypes
    DEF AcceptanceInv, TypeOK, Missing, Current, Loadable
  <2> QED BY <1>1, <2>1, <2>3
<1> QED BY <1>2, <1>3, <1>4, <1>5, SlotSteps

(***************************************************************************)
(* After the first commit, no failure and no crash makes load_current      *)
(* fail.                                                                   *)
(***************************************************************************)
THEOREM LoadableCorrect ==
    ASSUME UnreadableSets = {{}}
    PROVE  Spec => StaysLoadable
<1>1. AcceptanceInv /\ [Next]_vars
        => [Loadable /\ Current.generation > 0 => Loadable']_vars
  BY RecordSteps
<1> QED BY <1>1, AcceptanceCorrect, PTL DEF Spec, StaysLoadable

(***************************************************************************)
(* As long as slots can be read the generation never goes back: the        *)
(* transient read error of UnreadableSets is the only way to violate it.   *)
(***************************************************************************)
THEOREM GenerationMonotone ==
    ASSUME UnreadableSets = {{}}
    PROVE  Spec => GenerationNeverDecreases
<1>1. AcceptanceInv /\ [Next]_vars
        => [Current'.generation >= Current.generation]_vars
  BY RecordSteps
<1> QED BY <1>1, AcceptanceCorrect, PTL DEF Spec, GenerationNeverDecreases

(***************************************************************************)
(* A complete slot of an unknown schema stops every commit before it       *)
(* writes anything.                                                        *)
(***************************************************************************)
THEOREM FreezeCorrect ==
    ASSUME UnreadableSets = {{}}
    PROVE  Spec => ForeignSchemaFreezes
<1>1. ASSUME AcceptanceInv, [Next]_vars, \E i \in Slot : acc[i].kind = "unsupported"
      PROVE  UNCHANGED stored
  <2>1. op.step \in {"idle", "publish"}
    BY <1>1 DEF AcceptanceInv, FreezeInv
  <2> QED
    BY <1>1, <2>1
    DEF Next, vars, stored, BeginAcceptanceCommit, BeginCatalogCommit,
        BeginAppCommit, Begin, EntryFails, StageCreate, StageWrite,
        StageWriteFails, StageVerify, Publish, SlotCreate, SlotWrite,
        SlotWriteFails, SlotVerify, ResultCreate, ResultWrite,
        ResultWriteFails, ResultVerify, StorageFails, Crash
<1>2. AcceptanceInv /\ [Next]_vars
        => [(\E i \in Slot : acc[i].kind = "unsupported") => UNCHANGED stored]_vars
  BY <1>1
<1> QED BY <1>2, AcceptanceCorrect, PTL DEF Spec, ForeignSchemaFreezes

----------------------------------------------------------------------------
(***************************************************************************)
(* The payload slots of ProtectedStore: what is served stays served until  *)
(* a commit of that component, a commit that was acknowledged has switched *)
(* it, and no half of a commit is ever served.                             *)
(***************************************************************************)
Sequence == {Unknown} \cup 0..MaxSequence

----------------------------------------------------------------------------
(* load_active_catalog on slots that satisfy CatalogSlotsOK.               *)

\* A complete slot of the accepted sequence is the active one.
LEMMA UniqueCatalog ==
    ASSUME NEW c, NEW k \in 0..MaxSequence, NEW s \in {0, 1},
           \A i \in Slot : c[i].kind # "unsupported",
           c[s].kind = "valid", c[s].rec.sequence = k,
           c[1 - s].kind = "valid" => c[1 - s].rec.sequence # k
    PROVE  /\ ActiveCatalogSlot(c, k) = s
           /\ CatalogLoadStatus(c, k) = "ok"
           /\ ActiveCatalog(c, k) = c[s].rec.payload
           /\ CatalogTarget(c, k) = 1 - s
<1>1. MatchingCatalogs(c, k) = {s}
  BY DEF MatchingCatalogs, Slot
<1>2. ActiveCatalogSlot(c, k) = s
  BY <1>1 DEF ActiveCatalogSlot
<1>3. CatalogLoadStatus(c, k) = "ok"
  <2>1. k # Unknown
    BY BoundsAssumption DEF Unknown
  <2> QED BY <1>1, <2>1 DEF CatalogLoadStatus, Slot
<1>4. ActiveCatalog(c, k) = c[s].rec.payload
  BY <1>2, <1>3 DEF ActiveCatalog
<1>5. CatalogTarget(c, k) = 1 - s
  BY <1>2, BoundsAssumption DEF CatalogTarget, TargetSlot, Unknown
<1> QED BY <1>2, <1>3, <1>4, <1>5

\* A Catalog that can be read is served from one slot, and the other is the target.
LEMMA ServedCatalog ==
    ASSUME NEW c, NEW k \in Sequence, CatalogSlotsOK(c, k),
           CatalogLoadStatus(c, k) = "ok"
    PROVE  /\ k \in 0..MaxSequence
           /\ \E s \in {0, 1} :
               /\ c[s].kind = "valid" /\ c[s].rec.sequence = k
               /\ ActiveCatalog(c, k) = c[s].rec.payload
               /\ c[s].rec.payload \in Payloads
               /\ CatalogTarget(c, k) = 1 - s
<1>1. k \in 0..MaxSequence /\ MatchingCatalogs(c, k) # {}
  BY DEF CatalogLoadStatus, Sequence
<1>2. PICK s \in {0, 1} : c[s].kind = "valid" /\ c[s].rec.sequence = k
  BY <1>1 DEF MatchingCatalogs, Slot
<1>3. /\ \A j \in Slot : c[j].kind # "unsupported"
      /\ c[1 - s].kind = "valid" => c[1 - s].rec.sequence # k
      /\ c[s].rec.payload \in Payloads
  BY <1>2 DEF CatalogSlotsOK, Slot
<1>4. ActiveCatalog(c, k) = c[s].rec.payload /\ CatalogTarget(c, k) = 1 - s
  BY <1>1, <1>2, <1>3, UniqueCatalog
<1> QED BY <1>1, <1>2, <1>3, <1>4

\* What the ledger calls the Catalog.
LEMMA ActiveCatalogType ==
    ASSUME NEW c, NEW k \in Sequence, CatalogSlotsOK(c, k)
    PROVE  /\ ActiveCatalog(c, k) \in Payloads \cup {NoPayload}
           /\ CatalogLoadStatus(c, k) = "ok" <=> ActiveCatalog(c, k) # NoPayload
<1>1. CASE CatalogLoadStatus(c, k) = "ok"
  BY <1>1, ServedCatalog, PayloadsDistinct
<1>2. CASE CatalogLoadStatus(c, k) # "ok"
  BY <1>2 DEF ActiveCatalog
<1> QED BY <1>1, <1>2

\* Staging rewrites the slot that is not served.
LEMMA StagingKeepsCatalog ==
    ASSUME NEW c \in [Slot -> CatalogObject], NEW k \in Sequence,
           CatalogSlotsOK(c, k), k = Unknown \/ CatalogLoadStatus(c, k) = "ok",
           NEW o \in CatalogObject, o.kind \in {"absent", "torn", "valid"},
           o.kind = "valid" => o.rec.payload \in Payloads /\ o.rec.sequence > k
    PROVE  LET t == CatalogTarget(c, k)
               b == Rewritten(c, t, o)
           IN  /\ t \in Slot
               /\ b \in [Slot -> CatalogObject]
               /\ b[t] = o
               /\ CatalogSlotsOK(b, k)
               /\ CatalogLoadStatus(b, k) = "ok" <=> CatalogLoadStatus(c, k) = "ok"
               /\ CatalogTarget(b, k) = t
               /\ ActiveCatalog(b, k) = ActiveCatalog(c, k)
<1> DEFINE t == CatalogTarget(c, k)
           b == Rewritten(c, t, o)
<1>1. t \in Slot
  BY TargetType
<1>2. b \in [Slot -> CatalogObject] /\ b[t] = o
  BY <1>1 DEF Rewritten
<1>3. \A i \in Slot : i # t => b[i] = c[i]
  BY <1>1 DEF Rewritten
<1>a. o.rec.sequence \in Int /\ k \in Int
  BY BoundsAssumption DEF CatalogObject, CatalogRecord, Sequence, Unknown
<1> HIDE DEF b, t
<1>4. \A i \in Slot : /\ b[i].kind # "unsupported"
                      /\ b[i].kind = "valid" => b[i].rec.payload \in Payloads
  BY <1>2, <1>3 DEF CatalogSlotsOK
<1>5. CASE CatalogLoadStatus(c, k) = "ok"
  <2>1. k \in 0..MaxSequence /\ k # Unknown
    BY <1>5, ServedCatalog DEF CatalogLoadStatus
  <2>2. PICK s \in {0, 1} :
          /\ CatalogTarget(c, k) = 1 - s
          /\ c[s].kind = "valid" /\ c[s].rec.sequence = k
          /\ ActiveCatalog(c, k) = c[s].rec.payload
    BY <1>5, ServedCatalog
  <2>3. t = 1 - s /\ b[s] = c[s] /\ b[1 - s] = o
    BY <1>2, <1>3, <2>2 DEF Slot, t
  <2>4. o.kind = "valid" => o.rec.sequence # k
    BY <1>a
  <2>5. /\ b[s].kind = "valid" /\ b[s].rec.sequence = k
        /\ b[1 - s].kind = "valid" => b[1 - s].rec.sequence # k
    BY <2>2, <2>3, <2>4
  <2>6. CatalogSlotsOK(b, k)
    BY <1>4, <2>1, <2>5 DEF CatalogSlotsOK, Slot
  <2>7. /\ ActiveCatalog(b, k) = b[s].rec.payload /\ CatalogTarget(b, k) = 1 - s
        /\ CatalogLoadStatus(b, k) = "ok"
    BY <1>4, <2>1, <2>5, UniqueCatalog
  <2>8. CatalogTarget(b, k) = t /\ ActiveCatalog(b, k) = ActiveCatalog(c, k)
    BY <2>2, <2>3, <2>7
  <2> QED BY <1>1, <1>2, <1>5, <2>6, <2>7, <2>8 DEF b, t
<1>6. CASE k = Unknown
  <2>1. t = 0
    BY <1>6 DEF t, CatalogTarget
  <2>2. b[1].kind = "absent"
    BY <1>3, <1>6, <2>1 DEF CatalogSlotsOK, Slot
  <2>3. CatalogSlotsOK(b, k)
    BY <1>4, <2>2 DEF CatalogSlotsOK
  <2>4. \A x : CatalogLoadStatus(x, k) # "ok" /\ ActiveCatalog(x, k) = NoPayload
    BY <1>6 DEF CatalogLoadStatus, ActiveCatalog
  <2>5. CatalogTarget(b, k) = t
    BY <1>6, <2>1 DEF CatalogTarget
  <2> QED BY <1>1, <1>2, <2>3, <2>4, <2>5 DEF b, t
<1> QED BY <1>5, <1>6

\* The commit makes the staged Catalog the served one.
LEMMA CommitSwitchesCatalog ==
    ASSUME NEW c \in [Slot -> CatalogObject], NEW k \in Sequence,
           CatalogSlotsOK(c, k), NEW q \in 0..MaxSequence,
           c[CatalogTarget(c, k)].kind = "valid",
           c[CatalogTarget(c, k)].rec.sequence = q
    PROVE  ActiveCatalog(c, q) = c[CatalogTarget(c, k)].rec.payload
<1> DEFINE t == CatalogTarget(c, k)
<1>1. t \in {0, 1}
  BY TargetType DEF Slot
<1>2. c[t].kind = "valid" /\ c[t].rec.sequence = q
  OBVIOUS
<1> HIDE DEF t
<1>3. /\ \A i \in Slot : c[i].kind # "unsupported"
      /\ c[1 - t].kind = "valid" => c[1 - t].rec.sequence # q
  BY <1>1, <1>2 DEF CatalogSlotsOK, Slot
<1>4. ActiveCatalog(c, q) = c[t].rec.payload
  BY <1>1, <1>2, <1>3, UniqueCatalog
<1> QED BY <1>4 DEF t

----------------------------------------------------------------------------
(* load_active_app on slots that satisfy AppSlotsOK.                       *)

\* Slot s is served: it counts, and the other slot is older or does not count.
Served(p, cur, s) ==
    /\ s \in {0, 1}
    /\ s \in MatchingApps(p, cur)
    /\ 1 - s \in MatchingApps(p, cur) => p[1 - s].rec.generation < p[s].rec.generation

LEMMA AppTypes ==
    ASSUME NEW p \in [Slot -> AppObject], NEW i \in {0, 1}
    PROVE  /\ p[i] \in AppObject
           /\ p[i].rec.generation \in Int /\ p[i].rec.sequence \in Int
BY BoundsAssumption DEF Slot, AppObject, AppRecord

LEMMA SequenceTypes ==
    ASSUME NEW cur \in AcceptanceRecord
    PROVE  /\ cur.generation \in Int
           /\ \A c \in Component : cur.sequences[c] \in Sequence
           /\ Sequence \subseteq Int
BY BoundsAssumption DEF AcceptanceRecord, SequenceMap, Sequence, Unknown

\* The served slot is the one that load_active_app returns.
LEMMA ServedApp ==
    ASSUME NEW p \in [Slot -> AppObject], NEW cur \in AcceptanceRecord,
           AppSlotsOK(p, cur), NEW s, Served(p, cur, s)
    PROVE  /\ AppLoadStatus(p, cur) = "ok"
           /\ ActiveApp(p, cur) =
                [component |-> p[s].rec.component, payload |-> p[s].rec.payload]
           /\ AppTarget(p, cur) = 1 - s
<1>1. /\ s \in {0, 1} /\ 1 - s \in {0, 1} /\ 1 - s # s
      /\ s \in MatchingApps(p, cur) /\ p[s].kind = "valid"
  BY DEF Served, MatchingApps
<1>2. p[s].rec.generation \in Int /\ p[1 - s].rec.generation \in Int
  BY <1>1, AppTypes
<1>4. 1 - s \in MatchingApps(p, cur) => p[1 - s].rec.generation < p[s].rec.generation
  BY DEF Served
<1>5. ActiveAppSlot(p, cur) = s
  <2>1. CASE s = 0
    BY <1>1, <1>2, <1>4, <2>1 DEF ActiveAppSlot
  <2>2. CASE s = 1
    BY <1>1, <1>2, <1>4, <2>2 DEF ActiveAppSlot
  <2> QED BY <1>1, <2>1, <2>2
<1>6. AppLoadStatus(p, cur) = "ok"
  <2>1. p[0].kind = "valid" /\ p[1].kind = "valid"
          => p[0].rec.generation # p[1].rec.generation
    BY DEF AppSlotsOK
  <2> QED BY <1>1, <2>1 DEF AppLoadStatus
<1>7. AppTarget(p, cur) = 1 - s
  BY <1>1, <1>5, <1>6 DEF AppTarget, TargetSlot
<1> QED BY <1>5, <1>6, <1>7 DEF ActiveApp

\* Two slots that count are of different generations, so one of them is served.
LEMMA SomeApp ==
    ASSUME NEW p \in [Slot -> AppObject], NEW cur, AppSlotsOK(p, cur),
           MatchingApps(p, cur) # {}
    PROVE  \E s \in {0, 1} : Served(p, cur, s)
<1>1. /\ p[0].rec.generation \in Int /\ p[1].rec.generation \in Int
  BY AppTypes
<1>2. 0 \in MatchingApps(p, cur) /\ 1 \in MatchingApps(p, cur) =>
        p[0].rec.generation # p[1].rec.generation
  BY DEF MatchingApps, AppSlotsOK
<1>3. 0 \in MatchingApps(p, cur) \/ 1 \in MatchingApps(p, cur)
  BY DEF MatchingApps, Slot
<1>4. CASE Served(p, cur, 0)
  BY <1>4
<1>5. CASE ~ Served(p, cur, 0)
  <2>1. Served(p, cur, 1)
    BY <1>1, <1>2, <1>3, <1>5 DEF Served
  <2> QED BY <2>1
<1> QED BY <1>4, <1>5

\* No slot counts: nothing is served and slot 0 is the one to stage into.
LEMMA NoApp ==
    ASSUME NEW p, NEW cur, MatchingApps(p, cur) = {}
    PROVE  /\ AppLoadStatus(p, cur) # "ok"
           /\ ActiveApp(p, cur) = [component |-> NoComponent, payload |-> NoPayload]
           /\ AppTarget(p, cur) = 0
<1>1. AppLoadStatus(p, cur) # "ok"
  BY DEF AppLoadStatus
<1> QED BY <1>1 DEF ActiveApp, AppTarget

\* Staging rewrites the slot that is not served.
LEMMA StagingKeepsApp ==
    ASSUME NEW p \in [Slot -> AppObject], NEW cur \in AcceptanceRecord,
           AppSlotsOK(p, cur), NEW o \in AppObject,
           o.kind = "valid" =>
             /\ o.rec.component \in Apps /\ o.rec.payload \in Payloads
             /\ o.rec.generation = cur.generation + 1
             /\ o.rec.sequence > cur.sequences[o.rec.component]
    PROVE  LET t == AppTarget(p, cur)
               b == Rewritten(p, t, o)
           IN  /\ t \in Slot
               /\ b \in [Slot -> AppObject]
               /\ b[t] = o
               /\ AppSlotsOK(b, cur)
               /\ AppTarget(b, cur) = t
               /\ AppLoadStatus(p, cur) = "ok" => AppLoadStatus(b, cur) = "ok"
               /\ ActiveApp(b, cur) = ActiveApp(p, cur)
<1> DEFINE t == AppTarget(p, cur)
           b == Rewritten(p, t, o)
<1>1. t \in Slot
  BY TargetType
<1>2. b \in [Slot -> AppObject] /\ b[t] = o
  BY <1>1 DEF Rewritten
<1>3. \A i \in Slot : i # t => b[i] = p[i]
  BY <1>1 DEF Rewritten
<1> HIDE DEF b
<1>4. cur.generation \in Nat /\ o.rec.generation \in Int
  BY <1>1, <1>2, AppTypes, BoundsAssumption DEF AcceptanceRecord, Slot
<1>5. t \notin MatchingApps(b, cur)
  BY <1>2, <1>4 DEF MatchingApps
<1>6. \A i \in Slot : i # t => (i \in MatchingApps(b, cur) <=> i \in MatchingApps(p, cur))
  BY <1>3 DEF MatchingApps
\* The slot that is kept is not ahead of the record.
<1>7. \A i \in Slot : i # t /\ p[i].kind = "valid" =>
        p[i].rec.generation # cur.generation + 1
  BY DEF AppSlotsOK
<1>8. AppTarget(b, cur) = t => AppSlotsOK(b, cur)
  <2> SUFFICES ASSUME AppTarget(b, cur) = t PROVE AppSlotsOK(b, cur)
    OBVIOUS
  <2>1. ASSUME NEW i \in Slot, b[i].kind = "valid"
        PROVE  /\ b[i].rec.component \in Apps /\ b[i].rec.payload \in Payloads
               /\ b[i].rec.generation \in 1..(cur.generation + 1)
               /\ b[i].rec.generation = cur.generation + 1 =>
                    /\ i = AppTarget(b, cur)
                    /\ b[i].rec.sequence > cur.sequences[b[i].rec.component]
    <3>1. CASE i = t
      BY <1>2, <1>4, <2>1, <3>1
    <3>2. CASE i # t
      <4>1. b[i] = p[i]
        BY <1>3, <3>2
      <4> QED BY <1>7, <2>1, <3>2, <4>1 DEF AppSlotsOK
    <3> QED BY <3>1, <3>2
  <2>2. b[0].kind = "valid" /\ b[1].kind = "valid" =>
          b[0].rec.generation # b[1].rec.generation
    <3>1. \A i \in Slot : i # t /\ b[i].kind = "valid" /\ b[t].kind = "valid" =>
            b[i].rec.generation # b[t].rec.generation
      BY <1>2, <1>3, <1>7
    <3> QED BY <1>1, <3>1 DEF Slot
  <2> QED BY <2>1, <2>2 DEF AppSlotsOK
<1>9. CASE MatchingApps(p, cur) # {}
  <2>1. PICK s \in {0, 1} : Served(p, cur, s)
    BY <1>9, SomeApp
  <2>3. /\ t = 1 - s /\ AppLoadStatus(p, cur) = "ok"
        /\ ActiveApp(p, cur) =
             [component |-> p[s].rec.component, payload |-> p[s].rec.payload]
    BY <2>1, ServedApp
  <2> HIDE DEF t
  <2>4. /\ s \in Slot /\ s # t /\ b[s] = p[s] /\ 1 - s = t
    BY <1>3, <2>3 DEF Slot
  <2>5. s \in MatchingApps(b, cur)
    BY <1>6, <2>1, <2>4 DEF Served
  <2>6. Served(b, cur, s)
    BY <1>5, <2>4, <2>5 DEF Served
  \* The target of b, from the definitions: AppSlotsOK(b, cur) still needs it.
  <2>7. MatchingApps(b, cur) = {s}
    BY <1>5, <2>4, <2>5 DEF MatchingApps, Slot
  <2>8. ActiveAppSlot(b, cur) = s
    BY <2>4, <2>7 DEF ActiveAppSlot, Slot
  <2>9. p[t].kind = "valid" => p[t] \in AppObject
    BY <1>1
  <2>10. AppLoadStatus(b, cur) = "ok"
    <3>1. b[0].kind = "valid" /\ b[1].kind = "valid" =>
            b[0].rec.generation # b[1].rec.generation
      <4>1. b[t].kind = "valid" /\ b[s].kind = "valid" =>
              b[t].rec.generation # b[s].rec.generation
        BY <1>2, <1>7, <2>4
      <4> QED BY <2>4, <4>1 DEF Slot
    <3> QED BY <2>7, <3>1 DEF AppLoadStatus
  <2>11. AppTarget(b, cur) = t
    BY <2>3, <2>4, <2>8, <2>10 DEF AppTarget, TargetSlot, Slot
  <2>12. AppSlotsOK(b, cur)
    BY <1>8, <2>11
  <2>13. ActiveApp(b, cur) =
             [component |-> b[s].rec.component, payload |-> b[s].rec.payload]
    BY <1>2, <2>6, <2>12, ServedApp
  <2> QED BY <1>1, <1>2, <2>3, <2>4, <2>10, <2>11, <2>12, <2>13 DEF b, t
<1>10. CASE MatchingApps(p, cur) = {}
  <2>1. MatchingApps(b, cur) = {}
    <3>1. \A i \in Slot : i \notin MatchingApps(b, cur)
      BY <1>5, <1>6, <1>10
    <3> QED BY <3>1 DEF MatchingApps
  <2>2. /\ t = 0 /\ AppLoadStatus(p, cur) # "ok"
        /\ ActiveApp(p, cur) = [component |-> NoComponent, payload |-> NoPayload]
    BY <1>10, NoApp
  <2>3. /\ AppTarget(b, cur) = 0
        /\ ActiveApp(b, cur) = [component |-> NoComponent, payload |-> NoPayload]
    BY <2>1, NoApp
  <2>4. AppTarget(b, cur) = t
    BY <2>2, <2>3
  <2>5. AppSlotsOK(b, cur)
    BY <1>8, <2>4
  <2> QED BY <1>1, <1>2, <2>2, <2>3, <2>4, <2>5 DEF b, t
<1> QED BY <1>9, <1>10

\* After any commit no slot is ahead of the record.
LEMMA CommitKeepsAppSlots ==
    ASSUME NEW p \in [Slot -> AppObject], NEW cur \in AcceptanceRecord,
           NEW r \in AcceptanceRecord, AppSlotsOK(p, cur),
           r.generation = cur.generation + 1
    PROVE  AppSlotsOK(p, r)
<1>1. cur.generation \in Nat
  BY BoundsAssumption DEF AcceptanceRecord
<1>2. ASSUME NEW i \in Slot, p[i].kind = "valid"
      PROVE  /\ p[i].rec.component \in Apps /\ p[i].rec.payload \in Payloads
             /\ p[i].rec.generation \in 1..(r.generation + 1)
             /\ p[i].rec.generation # r.generation + 1
  BY <1>1, <1>2 DEF AppSlotsOK
<1> QED BY <1>2 DEF AppSlotsOK

(***************************************************************************)
(* A commit of another component leaves the served application alone, but  *)
(* for an application of that component that was staged and abandoned.     *)
(***************************************************************************)
LEMMA OtherCommitKeepsApp ==
    ASSUME NEW p \in [Slot -> AppObject], NEW cur \in AcceptanceRecord,
           NEW r \in AcceptanceRecord, NEW comp, AppSlotsOK(p, cur),
           r.generation = cur.generation + 1,
           \A c \in Apps : c # comp => r.sequences[c] = cur.sequences[c]
    PROVE  /\ \/ ActiveApp(p, r) = ActiveApp(p, cur)
              \/ comp \in {ActiveApp(p, cur).component, ActiveApp(p, r).component}
           /\ AppLoadStatus(p, cur) = "ok" /\ ActiveApp(p, cur).component # comp
                => AppLoadStatus(p, r) = "ok"
<1>0. AppSlotsOK(p, r)
  BY CommitKeepsAppSlots
<1>1. cur.generation \in Int /\ r.generation \in Int
  BY SequenceTypes
<1>2. \A i \in Slot : p[i].kind = "valid" =>
         /\ p[i].rec.component \in Apps /\ p[i].rec.generation \in Int
         /\ p[i].rec.generation <= cur.generation + 1
         /\ p[i].rec.sequence \in Int /\ cur.sequences[p[i].rec.component] \in Int
         /\ p[i].rec.generation = cur.generation + 1 =>
              p[i].rec.sequence # cur.sequences[p[i].rec.component]
  <2> SUFFICES ASSUME NEW i \in Slot, p[i].kind = "valid"
               PROVE  /\ p[i].rec.component \in Apps /\ p[i].rec.generation \in Int
                      /\ p[i].rec.generation <= cur.generation + 1
                      /\ p[i].rec.sequence \in Int
                      /\ cur.sequences[p[i].rec.component] \in Int
                      /\ p[i].rec.generation = cur.generation + 1 =>
                           p[i].rec.sequence # cur.sequences[p[i].rec.component]
    OBVIOUS
  <2>1. /\ p[i].rec.component \in Apps
        /\ p[i].rec.generation \in 1..(cur.generation + 1)
        /\ p[i].rec.generation = cur.generation + 1 =>
             p[i].rec.sequence > cur.sequences[p[i].rec.component]
    BY DEF AppSlotsOK
  <2>2. p[i].rec.generation \in Int /\ p[i].rec.sequence \in Int
    BY AppTypes DEF Slot
  <2>3. cur.sequences[p[i].rec.component] \in Int
    BY <2>1, SequenceTypes DEF Component
  <2> QED BY <1>1, <2>1, <2>2, <2>3
\* A slot of another component counts after the commit exactly when it did before.
<1>3. \A i \in Slot : p[i].rec.component # comp =>
        (i \in MatchingApps(p, r) <=> i \in MatchingApps(p, cur))
  BY <1>1, <1>2 DEF MatchingApps
<1>4. CASE MatchingApps(p, cur) # {}
  <2>1. PICK s \in {0, 1} : Served(p, cur, s)
    BY <1>4, SomeApp
  <2>2. /\ ActiveApp(p, cur) =
             [component |-> p[s].rec.component, payload |-> p[s].rec.payload]
        /\ ActiveApp(p, cur).component = p[s].rec.component
    BY <2>1, ServedApp
  <2>3. CASE p[s].rec.component = comp
    BY <2>2, <2>3
  <2>4. CASE p[s].rec.component # comp
    <3>1. s \in MatchingApps(p, r) /\ s \in Slot /\ 1 - s \in Slot
      BY <1>3, <2>1, <2>4 DEF Served, Slot
    <3>2. PICK z \in {0, 1} : Served(p, r, z)
      BY <1>0, <3>1, SomeApp
    <3>3. /\ AppLoadStatus(p, r) = "ok"
          /\ ActiveApp(p, r) =
               [component |-> p[z].rec.component, payload |-> p[z].rec.payload]
          /\ ActiveApp(p, r).component = p[z].rec.component
      BY <1>0, <3>2, ServedApp
    <3>4. z = s \/ p[z].rec.component = comp
      <4> SUFFICES ASSUME z # s, p[z].rec.component # comp PROVE FALSE
        OBVIOUS
      <4>1. z = 1 - s /\ s = 1 - z /\ z \in MatchingApps(p, cur)
        BY <1>3, <3>2 DEF Served, Slot
      <4>2. /\ p[z].rec.generation < p[s].rec.generation
            /\ p[s].rec.generation < p[z].rec.generation
        BY <2>1, <3>1, <3>2, <4>1 DEF Served
      <4>3. p[z].rec.generation \in Int /\ p[s].rec.generation \in Int
        BY AppTypes
      <4> QED BY <4>2, <4>3
    <3> QED BY <2>2, <3>3, <3>4
  <2> QED BY <2>3, <2>4
<1>5. CASE MatchingApps(p, cur) = {}
  <2>1. /\ AppLoadStatus(p, cur) # "ok"
        /\ ActiveApp(p, cur) = [component |-> NoComponent, payload |-> NoPayload]
    BY <1>5, NoApp
  <2>2. CASE MatchingApps(p, r) = {}
    BY <2>1, <2>2, NoApp
  <2>3. CASE MatchingApps(p, r) # {}
    <3>1. PICK z \in {0, 1} : Served(p, r, z)
      BY <1>0, <2>3, SomeApp
    <3>2. ActiveApp(p, r).component = p[z].rec.component
      BY <1>0, <3>1, ServedApp
    <3>3. p[z].rec.component = comp
      BY <1>3, <1>5, <3>1 DEF Served, Slot
    <3> QED BY <2>1, <3>2, <3>3
  <2> QED BY <2>2, <2>3
<1> QED BY <1>4, <1>5

\* What the ledger calls the application.
LEMMA ActiveAppType ==
    ASSUME NEW p \in [Slot -> AppObject], NEW cur \in AcceptanceRecord,
           AppSlotsOK(p, cur)
    PROVE  /\ ActiveApp(p, cur) \in [component : Apps, payload : Payloads]
                 \cup {[component |-> NoComponent, payload |-> NoPayload]}
           /\ AppLoadStatus(p, cur) = "ok" =>
                /\ ActiveApp(p, cur).component \in Apps
                /\ cur.generation > 0
<1>1. CASE MatchingApps(p, cur) # {}
  <2>1. PICK s \in {0, 1} : Served(p, cur, s)
    BY <1>1, SomeApp
  <2>2. /\ p[s].rec.component \in Apps /\ p[s].rec.payload \in Payloads
        /\ p[s].rec.generation \in Int /\ p[s].rec.generation >= 1
        /\ cur.generation \in Int /\ cur.generation >= p[s].rec.generation
    BY <2>1, AppTypes, SequenceTypes DEF Served, MatchingApps, AppSlotsOK, Slot
  <2> QED BY <2>1, <2>2, ServedApp
<1>2. CASE MatchingApps(p, cur) = {}
  BY <1>2, NoApp
<1> QED BY <1>1, <1>2

\* The commit makes the staged application the served one.
LEMMA CommitSwitchesApp ==
    ASSUME NEW p \in [Slot -> AppObject], NEW cur \in AcceptanceRecord,
           NEW r \in AcceptanceRecord, AppSlotsOK(p, cur),
           r.generation = cur.generation + 1,
           NEW o, o = p[AppTarget(p, cur)], o.kind = "valid",
           o.rec.generation = r.generation,
           r.sequences[o.rec.component] = o.rec.sequence
    PROVE  /\ AppLoadStatus(p, r) = "ok"
           /\ ActiveApp(p, r) =
                [component |-> o.rec.component, payload |-> o.rec.payload]
<1> DEFINE t == AppTarget(p, cur)
<1>1. AppSlotsOK(p, r)
  BY CommitKeepsAppSlots
<1>2. t \in {0, 1} /\ t \in Slot /\ 1 - t \in {0, 1} /\ 1 - t \in Slot
  BY TargetType DEF Slot
<1>3. /\ cur.generation \in Int /\ r.generation \in Int
      /\ p[t].rec.generation \in Int /\ p[1 - t].rec.generation \in Int
  BY <1>2, AppTypes, SequenceTypes
<1>5. o = p[t]
  OBVIOUS
<1> HIDE DEF t
<1>6. t \in MatchingApps(p, r)
  BY <1>2, <1>3, <1>5 DEF MatchingApps
<1>7. p[1 - t].kind = "valid" => p[1 - t].rec.generation < r.generation
  <2> SUFFICES ASSUME p[1 - t].kind = "valid"
               PROVE  p[1 - t].rec.generation < r.generation
    OBVIOUS
  <2>1. p[1 - t].rec.generation \in 1..(cur.generation + 1)
    BY <1>2 DEF AppSlotsOK
  <2>2. p[1 - t].rec.generation # p[t].rec.generation
    BY <1>2, <1>5 DEF AppSlotsOK, Slot
  <2> QED BY <1>3, <1>5, <2>1, <2>2
<1>8. Served(p, r, t)
  BY <1>2, <1>5, <1>6, <1>7 DEF Served, MatchingApps
<1> QED BY <1>1, <1>5, <1>8, ServedApp

----------------------------------------------------------------------------
(* The payload invariant, action by action.  It rests on AcceptanceInv,    *)
(* which says what the current record is before and after each step.       *)

LEMMA CurrentType ==
    ASSUME AcceptanceInv
    PROVE  /\ Current \in AcceptanceRecord
           /\ Current.generation \in Int
           /\ \A c \in Component : Current.sequences[c] \in Sequence
           /\ \A c \in Component : legacy.sequences[c] \in Sequence
           /\ Sequence \subseteq Int
<1>1. Current \in AcceptanceRecord
  BY LoadRecordType DEF AcceptanceInv, TypeOK, Current
<1>2. \A c \in Component : legacy.sequences[c] \in Sequence
  BY DEF AcceptanceInv, TypeOK, LegacyObject, SequenceMap, Sequence
<1> QED BY <1>1, <1>2, SequenceTypes

LEMMA InitPayload == Init => PayloadInv
<1> SUFFICES ASSUME Init PROVE PayloadInv
  OBVIOUS
<1>1. AcceptanceInv
  BY InitAcceptance
<1>2. /\ op.step = "idle" /\ op.ret = "none" /\ op.kind = "none"
      /\ cat = [i \in Slot |-> MissingCatalog] /\ app = [i \in Slot |-> MissingApp]
  BY DEF Init, Returned
<1>3. ~ Committed
  BY <1>2 DEF Committed, ResultStep
<1>4. CommitInv /\ FirstInv
  BY <1>2, <1>3 DEF CommitInv, FirstInv, StageStep
<1>5. CatalogInv
  BY <1>2 DEF CatalogInv, CatalogSlotsOK, CatalogUnused, Slot, MissingCatalog
<1>6. AppInv
  BY <1>2 DEF AppInv, AppSlotsOK, Slot, MissingApp
<1> QED BY <1>4, <1>5, <1>6 DEF PayloadInv

\* A step that ends the request, whatever it leaves in the slot that is not served.
LEMMA ReturnKeepsPayload ==
    ASSUME PayloadInv, NEW status, status # "ok", op' = Returned(status),
           Current' = Current, legacy' = legacy,
           CatalogSlotsOK(cat', Accepted), CatalogUnused(cat'),
           AppSlotsOK(app', Current)
    PROVE  PayloadInv'
<1>1. op'.step = "idle" /\ op'.kind = "none" /\ op'.ret # "ok"
  BY DEF Returned
<1>2. Committed' = FALSE
  BY <1>1 DEF Committed, ResultStep
<1>3. /\ Accepted' = Accepted
     
  BY DEF Accepted
<1>4. CommitInv' /\ FirstInv'
  BY <1>1, <1>2 DEF PayloadInv, CommitInv, FirstInv, StageStep
<1>5. CatalogInv'
  BY <1>1, <1>2, <1>3 DEF CatalogInv, CatalogUnused
<1>6. AppInv'
  BY <1>1, <1>2, <1>3 DEF AppInv
<1> QED BY <1>4, <1>5, <1>6 DEF PayloadInv

LEMMA ReturnUnchanged ==
    ASSUME PayloadInv, NEW status, status # "ok", op' = Returned(status),
           UNCHANGED <<acc, cat, app, legacy>>
    PROVE  PayloadInv'
<1>1. Current' = Current
  BY DEF Current
<1>2. /\ CatalogSlotsOK(cat', Accepted) /\ CatalogUnused(cat')
      /\ AppSlotsOK(app', Current)
  BY DEF PayloadInv, CatalogInv, CatalogUnused, AppInv
<1> QED BY <1>1, <1>2, ReturnKeepsPayload

\* The entry of a commit hostcall: the checks are what the request relies on.
LEMMA BeginKeepsPayload ==
    ASSUME AcceptanceInv, PayloadInv,
           NEW status, NEW kind, NEW comp, NEW seq, NEW digest, NEW expected,
           NEW payload, NEW target, NEW step,
           Begin(status, kind, comp, seq, digest, expected, payload, target, step),
           digest \in Digests,
           \/ kind = "acceptance" /\ step = "publish"
           \/ kind \in {"catalog", "app"} /\ step = "stage_create" /\ payload \in Payloads,
           status = "ok" /\ step = "stage_create" =>
             expected = Current.generation /\ seq > Current.sequences[comp],
           status = "ok" /\ kind = "catalog" =>
             /\ Accepted = Unknown \/ CatalogLoadStatus(cat, Accepted) = "ok"
             /\ target = CatalogTarget(cat, Accepted),
           status = "ok" /\ kind = "app" => target = AppTarget(app, Current)
    PROVE  PayloadInv'
<1>1. UNCHANGED <<acc, cat, app, result, legacy>>
  BY DEF Begin, stored
<1>2. CASE status # "ok"
  BY <1>1, <1>2, ReturnUnchanged DEF Begin
<1>3. CASE status = "ok"
  <2>1. op' = [step |-> step, ret |-> "none", kind |-> kind,
               comp |-> comp, seq |-> seq, digest |-> digest,
               expected |-> expected, payload |-> payload,
               target |-> target, next |-> NoRecord]
    BY <1>3 DEF Begin
  <2>2. /\ op'.step = step /\ op'.ret = "none" /\ op'.kind = kind /\ op'.comp = comp
        /\ op'.seq = seq /\ op'.digest = digest /\ op'.expected = expected
        /\ op'.payload = payload /\ op'.target = target
    BY <2>1
  <2> HIDE DEF Begin
  <2>3. /\ Current' = Current /\ Accepted' = Accepted
       
    BY <1>1 DEF Current, Accepted
  <2>4. step \in {"publish", "stage_create"}
    OBVIOUS
  <2>5. Committed' = FALSE
    BY <2>2, <2>4 DEF Committed, ResultStep
  <2>6. CommitInv'
    BY <1>1, <1>3, <2>2, <2>3, <2>4, <2>5 DEF PayloadInv, CommitInv, StageStep
  <2>7. FirstInv'
    BY <2>2, <2>4 DEF FirstInv
  <2>8. CatalogInv'
    BY <1>1, <1>3, <2>2, <2>3, <2>4, <2>5
    DEF PayloadInv, CatalogInv, CatalogUnused, StageStep, PublishStep
  <2>9. AppInv'
    BY <1>1, <1>3, <2>2, <2>3, <2>4, <2>5
    DEF PayloadInv, AppInv, StageStep, PublishStep
  <2> QED BY <2>6, <2>7, <2>8, <2>9 DEF PayloadInv
<1> QED BY <1>2, <1>3

LEMMA BeginCatalogKeepsPayload ==
    ASSUME AcceptanceInv, PayloadInv,
           NEW s \in 0..MaxSequence, NEW d \in Digests, NEW g \in 0..MaxGeneration,
           NEW p \in Payloads, NEW sha \in Payloads,
           BeginCatalogCommit(s, d, g, p, sha, {})
    PROVE  PayloadInv'
<1> DEFINE status == CatalogStatus(cat, LoadStatus(acc, legacy, {}), Current, s, g,
                                   p, sha)
           target == CatalogTarget(cat, Accepted)
<1>1. Begin(status, "catalog", Catalog, s, d, g, p, target, "stage_create")
  BY DEF BeginCatalogCommit, Current, Accepted
<1>2. Catalog \in Component
  BY DEF Component
<1>3. status = "ok" => g = Current.generation /\ s > Current.sequences[Catalog]
  BY <1>2, CurrentType DEF CatalogStatus, Unknown
<1>4. status = "ok" => Accepted = Unknown \/ CatalogLoadStatus(cat, Accepted) = "ok"
  BY DEF CatalogStatus, Accepted
<1> HIDE DEF status
<1> QED BY <1>1, <1>3, <1>4, BeginKeepsPayload

LEMMA BeginAppKeepsPayload ==
    ASSUME AcceptanceInv, PayloadInv,
           NEW s \in 0..MaxSequence, NEW d \in Digests, NEW g \in 0..MaxGeneration,
           NEW p \in Payloads, NEW sha \in Payloads, NEW c \in Apps,
           BeginAppCommit(c, s, d, g, p, sha, {})
    PROVE  PayloadInv'
<1> DEFINE status == AppStatus(app, LoadStatus(acc, legacy, {}), Current, c, s, g,
                               p, sha)
           target == AppTarget(app, Current)
<1>1. Begin(status, "app", c, s, d, g, p, target, "stage_create")
  BY DEF BeginAppCommit, Current
<1>2. c \in Component
  BY DEF Component
<1>3. status = "ok" => g = Current.generation /\ s > Current.sequences[c]
  BY <1>2, CurrentType DEF AppStatus
<1> HIDE DEF status, target
<1>4. target = AppTarget(app, Current)
  BY DEF target
<1> QED BY <1>1, <1>3, <1>4, BeginKeepsPayload

LEMMA StageCatalogSlot ==
    ASSUME AcceptanceInv, PayloadInv, op.kind = "catalog", op.step \in StageStep,
           NEW o \in CatalogObject, o.kind \in {"absent", "torn", "valid"},
           o.kind = "valid" => o = StagedCatalogObject,
           cat' = [cat EXCEPT ![op.target] = o]
    PROVE  /\ CatalogSlotsOK(cat', Accepted) /\ CatalogUnused(cat')
           /\ CatalogLoadStatus(cat', Accepted) = "ok"
                <=> CatalogLoadStatus(cat, Accepted) = "ok"
           /\ CatalogTarget(cat', Accepted) = op.target
           /\ cat'[op.target] = o
           /\ ActiveCatalog(cat', Accepted) = ActiveCatalog(cat, Accepted)
<1>1. cat \in [Slot -> CatalogObject] /\ Accepted \in Sequence
  BY CurrentType DEF AcceptanceInv, TypeOK, Accepted, Component
<1>2. /\ CatalogSlotsOK(cat, Accepted) /\ CatalogUnused(cat)
      /\ Accepted = Unknown \/ CatalogLoadStatus(cat, Accepted) = "ok"
      /\ op.target = CatalogTarget(cat, Accepted)
  BY DEF PayloadInv, CatalogInv
<1>3. o.kind = "valid" => o.rec.payload \in Payloads /\ o.rec.sequence > Accepted
  <2>1. op.payload \in Payloads
    BY DEF PayloadInv, CatalogInv
  <2>2. op.seq > Accepted
    BY DEF PayloadInv, CommitInv, Accepted, AcceptanceInv, RequestInv
  <2> QED BY <2>1, <2>2 DEF StagedCatalogObject, Complete, StagedCatalog
<1>4. cat' = Rewritten(cat, CatalogTarget(cat, Accepted), o)
  BY <1>2 DEF Rewritten
<1>5. ASSUME NEW k \in Sequence, k = Accepted
      PROVE  /\ CatalogSlotsOK(cat', k)
             /\ CatalogLoadStatus(cat', k) = "ok" <=> CatalogLoadStatus(cat, k) = "ok"
             /\ CatalogTarget(cat', k) = op.target
             /\ cat'[op.target] = o
             /\ ActiveCatalog(cat', k) = ActiveCatalog(cat, k)
  <2>1. /\ CatalogSlotsOK(cat, k) /\ op.target = CatalogTarget(cat, k)
        /\ k = Unknown \/ CatalogLoadStatus(cat, k) = "ok"
        /\ o.kind = "valid" => o.rec.payload \in Payloads /\ o.rec.sequence > k
        /\ cat' = Rewritten(cat, CatalogTarget(cat, k), o)
    BY <1>2, <1>3, <1>4, <1>5
  <2>2. o \in CatalogObject /\ o.kind \in {"absent", "torn", "valid"}
    OBVIOUS
  <2>3. LET t == CatalogTarget(cat, k)
            b == Rewritten(cat, t, o)
        IN  /\ b[t] = o
            /\ CatalogSlotsOK(b, k)
            /\ CatalogLoadStatus(b, k) = "ok" <=> CatalogLoadStatus(cat, k) = "ok"
            /\ CatalogTarget(b, k) = t
            /\ ActiveCatalog(b, k) = ActiveCatalog(cat, k)
    BY ONLY <1>1, <1>5, <2>1, <2>2, StagingKeepsCatalog
  <2> QED BY <2>1, <2>3
<1>6. CatalogUnused(cat')
  <2> SUFFICES ASSUME Current.generation = 0, Accepted # Unknown PROVE FALSE
    BY DEF CatalogUnused
  <2>1. CatalogLoadStatus(cat, Accepted) = "ok" /\ \A i \in Slot : cat[i].kind = "absent"
    BY <1>2 DEF CatalogUnused
  <2>2. PICK s \in {0, 1} : cat[s].kind = "valid"
    BY <1>1, <1>2, <2>1, ServedCatalog
  <2> QED BY <2>1, <2>2 DEF Slot
<1> QED BY <1>1, <1>5, <1>6

LEMMA StageAppSlot ==
    ASSUME AcceptanceInv, PayloadInv, op.kind = "app", op.step \in StageStep,
           NEW o \in AppObject,
           o.kind = "valid" => o = StagedAppObject,
           app' = [app EXCEPT ![op.target] = o]
    PROVE  /\ AppSlotsOK(app', Current)
           /\ AppTarget(app', Current) = op.target
           /\ app'[op.target] = o
           /\ AppLoadStatus(app, Current) = "ok" => AppLoadStatus(app', Current) = "ok"
           /\ ActiveApp(app', Current) = ActiveApp(app, Current)
<1>1. /\ app \in [Slot -> AppObject] /\ Current \in AcceptanceRecord
      /\ Current.generation \in Int /\ op.comp \in Apps
  BY CurrentType DEF AcceptanceInv, TypeOK, RequestInv
<1>2. AppSlotsOK(app, Current)
  BY DEF PayloadInv, AppInv
<1>3. op.target = AppTarget(app, Current) /\ op.payload \in Payloads
  BY DEF PayloadInv, AppInv
<1>4. op.seq > Current.sequences[op.comp] /\ op.expected = Current.generation
  BY DEF PayloadInv, CommitInv
<1>5. o.kind = "valid" =>
             /\ o.rec.component \in Apps /\ o.rec.payload \in Payloads
             /\ o.rec.generation = Current.generation + 1
             /\ o.rec.sequence > Current.sequences[o.rec.component]
  BY <1>1, <1>3, <1>4 DEF StagedAppObject, Complete, StagedApp
<1>6. app' = Rewritten(app, op.target, o)
  BY DEF Rewritten
<1>7. ASSUME NEW cur \in AcceptanceRecord, cur = Current
      PROVE  /\ AppSlotsOK(app', cur)
             /\ AppTarget(app', cur) = op.target
             /\ app'[op.target] = o
             /\ AppLoadStatus(app, cur) = "ok" => AppLoadStatus(app', cur) = "ok"
             /\ ActiveApp(app', cur) = ActiveApp(app, cur)
  <2>1. o \in AppObject
    OBVIOUS
  <2>2. /\ AppSlotsOK(app, cur) /\ op.target = AppTarget(app, cur)
        /\ o.kind = "valid" =>
             /\ o.rec.component \in Apps /\ o.rec.payload \in Payloads
             /\ o.rec.generation = cur.generation + 1
             /\ o.rec.sequence > cur.sequences[o.rec.component]
    BY <1>2, <1>3, <1>5, <1>7
  <2>3. LET t == AppTarget(app, cur)
            b == Rewritten(app, t, o)
        IN  /\ b[t] = o
            /\ AppSlotsOK(b, cur)
            /\ AppTarget(b, cur) = t
            /\ AppLoadStatus(app, cur) = "ok" => AppLoadStatus(b, cur) = "ok"
            /\ ActiveApp(b, cur) = ActiveApp(app, cur)
    BY ONLY <1>1, <1>7, <2>1, <2>2, StagingKeepsApp
  <2> QED BY <1>6, <2>2, <2>3
<1> QED BY <1>1, <1>7

\* A staging step that goes on, whatever it leaves in the slot that is not served.
LEMMA StagingKeepsPayload ==
    ASSUME AcceptanceInv, PayloadInv, op.step \in StageStep,
           NEW step \in StageStep \cup {"publish"}, Goto(step),
           UNCHANGED <<acc, legacy>>,
           CatalogSlotsOK(cat', Accepted), CatalogUnused(cat'),
           AppSlotsOK(app', Current),
           op.kind = "catalog" =>
             /\ CatalogLoadStatus(cat', Accepted) = "ok"
                  <=> CatalogLoadStatus(cat, Accepted) = "ok"
             /\ op.target = CatalogTarget(cat', Accepted),
           op.kind = "app" => op.target = AppTarget(app', Current),
           step = "publish" /\ op.kind = "catalog" =>
             cat'[op.target] = StagedCatalogObject,
           step = "publish" /\ op.kind = "app" => app'[op.target] = StagedAppObject
    PROVE  PayloadInv'
<1>1. /\ op' = [op EXCEPT !.step = step]
      /\ op.kind \in {"catalog", "app"} /\ op.ret = "none"
  BY DEF Goto, AcceptanceInv, RequestInv, StageStep
<1>2. /\ op'.step = step /\ op'.ret = "none" /\ op'.kind = op.kind
      /\ op'.comp = op.comp /\ op'.seq = op.seq /\ op'.digest = op.digest
      /\ op'.expected = op.expected /\ op'.payload = op.payload
      /\ op'.target = op.target
  BY <1>1 DEF AcceptanceInv, TypeOK, Operation
<1>3. /\ Current' = Current /\ Accepted' = Accepted
     
      /\ StagedCatalogObject' = StagedCatalogObject
      /\ StagedAppObject' = StagedAppObject
  BY <1>2 DEF Current, Accepted,
     StagedCatalogObject, StagedAppObject
<1>4. Committed' = FALSE /\ step \notin {"idle", "slot_create", "slot_write"}
  BY <1>2 DEF Committed, ResultStep, StageStep
<1>5. op.step # "idle"
  BY DEF StageStep
<1>6. CommitInv'
  BY <1>1, <1>2, <1>3, <1>4, <1>5 DEF PayloadInv, CommitInv
<1>7. FirstInv'
  BY <1>2, <1>4 DEF FirstInv
<1>8. step \in PublishStep => step = "publish"
  BY <1>4 DEF PublishStep
<1>9. CatalogInv'
  BY <1>2, <1>3, <1>4, <1>8 DEF PayloadInv, CatalogInv, CatalogUnused
<1>10. AppInv'
  BY <1>2, <1>3, <1>4, <1>8 DEF PayloadInv, AppInv
<1> QED BY <1>6, <1>7, <1>9, <1>10 DEF PayloadInv

\* write_catalog_slot and write_app_slot: what is served stays served.
LEMMA SetStagedKeepsServed ==
    ASSUME AcceptanceInv, PayloadInv, op.step \in StageStep, NEW co, NEW ao,
           SetStaged(co, ao),
           op.kind = "catalog" =>
             /\ co \in CatalogObject /\ co.kind \in {"absent", "torn", "valid"}
             /\ co.kind = "valid" => co = StagedCatalogObject,
           op.kind = "app" =>
             ao \in AppObject /\ (ao.kind = "valid" => ao = StagedAppObject)
    PROVE  /\ UNCHANGED <<acc, legacy>>
           /\ CatalogSlotsOK(cat', Accepted) /\ CatalogUnused(cat')
           /\ AppSlotsOK(app', Current)
           /\ op.kind = "catalog" => op.target = CatalogTarget(cat', Accepted)
           /\ op.kind = "app" => op.target = AppTarget(app', Current)
           /\ CatalogLoadStatus(cat', Accepted) = "ok"
                <=> CatalogLoadStatus(cat, Accepted) = "ok"
           /\ AppLoadStatus(app, Current) = "ok" => AppLoadStatus(app', Current) = "ok"
           /\ ActiveCatalog(cat', Accepted) = ActiveCatalog(cat, Accepted)
           /\ ActiveApp(app', Current) = ActiveApp(app, Current)
<1>1. op.kind \in {"catalog", "app"}
  BY DEF AcceptanceInv, RequestInv
<1>2. /\ CatalogSlotsOK(cat, Accepted) /\ CatalogUnused(cat)
      /\ AppSlotsOK(app, Current)
  BY DEF PayloadInv, CatalogInv, AppInv
<1>3. CASE op.kind = "catalog"
  <2>1. cat' = [cat EXCEPT ![op.target] = co] /\ UNCHANGED <<acc, app, legacy>>
    BY <1>3 DEF SetStaged
  <2>2. /\ CatalogSlotsOK(cat', Accepted) /\ CatalogUnused(cat')
        /\ CatalogTarget(cat', Accepted) = op.target
        /\ CatalogLoadStatus(cat', Accepted) = "ok"
             <=> CatalogLoadStatus(cat, Accepted) = "ok"
        /\ ActiveCatalog(cat', Accepted) = ActiveCatalog(cat, Accepted)
    BY <1>3, <2>1, StageCatalogSlot
  <2> QED BY <1>2, <1>3, <2>1, <2>2
<1>4. CASE op.kind = "app"
  <2>1. app' = [app EXCEPT ![op.target] = ao] /\ UNCHANGED <<acc, cat, legacy>>
    BY <1>4 DEF SetStaged
  <2>2. /\ AppSlotsOK(app', Current)
        /\ AppTarget(app', Current) = op.target
        /\ AppLoadStatus(app, Current) = "ok" => AppLoadStatus(app', Current) = "ok"
        /\ ActiveApp(app', Current) = ActiveApp(app, Current)
    BY <1>4, <2>1, StageAppSlot
  <2>3. CatalogUnused(cat')
    BY <1>2, <2>1 DEF CatalogUnused
  <2> QED BY <1>2, <1>4, <2>1, <2>2, <2>3
<1> QED BY <1>1, <1>3, <1>4

LEMMA StageKeepsPayload ==
    ASSUME AcceptanceInv, PayloadInv,
           StageCreate \/ StageWrite \/ StageWriteFails \/ StageVerify
    PROVE  /\ PayloadInv'
           /\ UNCHANGED <<acc, legacy>>
           /\ CatalogLoadStatus(cat, Accepted) = "ok" =>
                CatalogLoadStatus(cat', Accepted) = "ok"
           /\ AppLoadStatus(app, Current) = "ok" => AppLoadStatus(app', Current) = "ok"
           /\ ActiveCatalog(cat', Accepted) = ActiveCatalog(cat, Accepted)
           /\ ActiveApp(app', Current) = ActiveApp(app, Current)
<1>0. TypeOK /\ RequestInv
  BY DEF AcceptanceInv
<1>1. CASE StageCreate
  <2>1. op.step \in StageStep /\ SetStaged(TornCatalog, TornApp) /\ Goto("stage_write")
    BY <1>1 DEF StageCreate, StageStep
  <2>2. /\ TornCatalog \in CatalogObject /\ TornCatalog.kind = "torn"
        /\ TornApp \in AppObject /\ TornApp.kind = "torn"
    BY ObjectTypes DEF TornCatalog, TornApp
  <2>3. "stage_write" \in StageStep
    BY DEF StageStep
  <2> HIDE DEF StageStep
  <2> QED BY <2>1, <2>2, <2>3, SetStagedKeepsServed, StagingKeepsPayload
<1>2. CASE StageWrite
  <2>1. /\ op.step \in StageStep /\ SetStaged(StagedCatalogObject, StagedAppObject)
        /\ Goto("stage_verify")
    BY <1>2 DEF StageWrite, StageStep
  <2>2. /\ op.kind = "catalog" => StagedCatalogObject \in CatalogObject
        /\ op.kind = "app" => StagedAppObject \in AppObject
        /\ StagedCatalogObject.kind = "valid"
    BY <1>0, <2>1, StagedType DEF StagedCatalogObject, Complete
  <2>3. "stage_verify" \in StageStep
    BY DEF StageStep
  <2> QED BY <2>1, <2>2, <2>3, SetStagedKeepsServed, StagingKeepsPayload
<1>3. CASE StageWriteFails
  <2>1. /\ op.step \in StageStep /\ SetStaged(MissingCatalog, MissingApp)
        /\ op' = Returned("io")
    BY <1>3 DEF StageWriteFails, StageStep
  <2>2. /\ MissingCatalog \in CatalogObject /\ MissingCatalog.kind = "absent"
        /\ MissingApp \in AppObject /\ MissingApp.kind = "absent"
    BY ObjectTypes DEF MissingCatalog, MissingApp
  <2>3. /\ UNCHANGED <<acc, legacy>>
        /\ CatalogSlotsOK(cat', Accepted) /\ CatalogUnused(cat')
        /\ AppSlotsOK(app', Current)
        /\ CatalogLoadStatus(cat, Accepted) = "ok" =>
             CatalogLoadStatus(cat', Accepted) = "ok"
        /\ AppLoadStatus(app, Current) = "ok" => AppLoadStatus(app', Current) = "ok"
        /\ ActiveCatalog(cat', Accepted) = ActiveCatalog(cat, Accepted)
        /\ ActiveApp(app', Current) = ActiveApp(app, Current)
    BY <2>1, <2>2, SetStagedKeepsServed
  <2>4. Current' = Current
    BY <2>3 DEF Current
  <2> QED BY <2>1, <2>3, <2>4, ReturnKeepsPayload
<1>4. CASE StageVerify
  <2>1. /\ op.step \in StageStep /\ Goto("publish") /\ op.step = "stage_verify"
        /\ UNCHANGED <<acc, cat, app, legacy>>
        /\ op.kind = "catalog" => cat[op.target] = StagedCatalogObject
        /\ op.kind = "app" => app[op.target] = StagedAppObject
    BY <1>4 DEF StageVerify, StageStep, stored
  <2>2. /\ CatalogSlotsOK(cat, Accepted) /\ CatalogUnused(cat')
        /\ AppSlotsOK(app, Current)
        /\ op.kind = "catalog" => op.target = CatalogTarget(cat, Accepted)
        /\ op.kind = "app" => op.target = AppTarget(app, Current)
    BY <2>1 DEF PayloadInv, CatalogInv, CatalogUnused, AppInv
  <2> QED BY <2>1, <2>2, StagingKeepsPayload
<1> QED BY <1>1, <1>2, <1>3, <1>4

LEMMA PublishKeepsPayload ==
    ASSUME AcceptanceInv, PayloadInv, Publish({})
    PROVE  PayloadInv' /\ UNCHANGED <<acc, cat, app, legacy>>
<1> DEFINE status == AcceptanceStatus(LoadStatus(acc, legacy, {}), Current,
                                      op.comp, op.seq, op.digest, op.expected)
<1>1. UNCHANGED <<acc, cat, app, result, legacy>> /\ op.step = "publish"
  BY DEF Publish, stored
<1>2. CASE status # "ok"
  <2>1. op' = Returned(status)
    BY <1>2 DEF Publish, Current
  <2> HIDE DEF status
  <2> QED BY <1>1, <1>2, <2>1, ReturnUnchanged
<1>3. CASE status = "ok"
  <2>1. op' = [op EXCEPT !.step = "slot_create",
                         !.target = TargetSlot(SelectedSlot(acc, {})),
                         !.next = UpdatedRecord(Current, op.comp, op.seq, op.digest)]
    BY <1>3 DEF Publish, Current
  <2>2. /\ op'.step = "slot_create" /\ op'.ret = op.ret /\ op'.kind = op.kind
        /\ op'.comp = op.comp /\ op'.seq = op.seq /\ op'.digest = op.digest
        /\ op'.expected = op.expected /\ op'.payload = op.payload
        /\ op'.next = UpdatedRecord(Current, op.comp, op.seq, op.digest)
    BY <2>1 DEF AcceptanceInv, TypeOK, Operation
  <2>3. op.ret = "none" /\ op.comp \in Component
    BY <1>1 DEF AcceptanceInv, RequestInv
  <2>4. op.seq \in Int /\ Current.sequences[op.comp] \in Int
    BY <2>3, CurrentType, BoundsAssumption DEF AcceptanceInv, TypeOK, Operation
  <2>5. /\ op.expected = Current.generation
        /\ op.seq > Current.sequences[op.comp]
        /\ AcceptanceStatus("ok", Current, op.comp, op.seq, op.digest,
                            op.expected) = "ok"
    BY <1>3, <2>4 DEF AcceptanceStatus, EncodeStatus
  <2>6. /\ Current' = Current /\ Accepted' = Accepted
       
        /\ StagedCatalogObject' = StagedCatalogObject
        /\ StagedAppObject' = StagedAppObject
    BY <1>1, <2>2 DEF Current, Accepted,
       StagedCatalogObject, StagedAppObject
  <2>7. Committed' = FALSE
    BY <2>2, <2>3 DEF Committed, ResultStep
  <2> HIDE DEF status
  <2>8. CommitInv'
    BY <1>1, <2>2, <2>3, <2>5, <2>6, <2>7 DEF PayloadInv, CommitInv
  <2>9. FirstInv'
    BY <2>2 DEF FirstInv
  <2>10. CatalogInv'
    BY <1>1, <2>2, <2>6, <2>7 DEF PayloadInv, CatalogInv, CatalogUnused, StageStep, PublishStep
  <2>11. AppInv'
    BY <1>1, <2>2, <2>6, <2>7 DEF PayloadInv, AppInv, StageStep, PublishStep
  <2> QED BY <1>1, <2>8, <2>9, <2>10, <2>11 DEF PayloadInv
<1> QED BY <1>2, <1>3

\* Generation 0 is the record of a device whose slots are not used yet.
LEMMA NoGeneration ==
    ASSUME AcceptanceInv, Current.generation = 0
    PROVE  /\ \A i \in Slot : acc[i].kind # "valid"
           /\ ParsedValid(acc, {}) = {}
           /\ Loadable => legacy.ok /\ \A i \in Slot : acc[i].kind = "absent"
<1>1. acc \in [Slot -> AcceptanceObject] /\ legacy \in LegacyObject
  BY DEF AcceptanceInv, TypeOK
<1>2. acc[0].kind # "valid" /\ acc[1].kind # "valid"
  BY <1>1, Selection DEF AcceptanceInv, SlotsInv, Current, Slot, NoSlot
<1>3. ParsedValid(acc, {}) = {}
  BY <1>2 DEF ParsedValid, Slot
<1>4. Loadable => legacy.ok /\ \A i \in Slot : acc[i].kind = "absent"
  BY <1>3 DEF Loadable, LoadStatus, Slot
<1> QED BY <1>2, <1>3, <1>4 DEF Slot

\* Tearing or removing the slot that is not selected leaves the record to be read.
LEMMA OtherSlotKeepsLoadable ==
    ASSUME AcceptanceInv, Loadable, Current.generation > 0,
           NEW o \in AcceptanceObject, o.kind \in {"absent", "torn"},
           NEW t, t = TargetSlot(SelectedSlot(acc, {})),
           acc' = [acc EXCEPT ![t] = o], legacy' = legacy
    PROVE  Loadable'
<1>1. acc \in [Slot -> AcceptanceObject] /\ legacy \in LegacyObject
  BY DEF AcceptanceInv, TypeOK
<1>2. LoadRecord(acc, legacy, {}).generation > 0 /\ LoadStatus(acc, legacy, {}) = "ok"
  BY DEF Current, Loadable
<1>3. LET b == [acc EXCEPT ![t] = o]
      IN  LoadRecord(acc, legacy, {}).generation > 0 /\ LoadStatus(acc, legacy, {}) = "ok"
            => LoadStatus(b, legacy, {}) = "ok"
  BY ONLY <1>1, o \in AcceptanceObject, o.kind \in {"absent", "torn"},
     t = TargetSlot(SelectedSlot(acc, {})), IncompleteKeepsCurrent, Zenon
<1>4. LoadStatus([acc EXCEPT ![t] = o], legacy, {}) = "ok"
  BY <1>2, <1>3, Zenon
<1> QED BY <1>4 DEF Loadable

LEMMA SlotCreateKeepsPayload ==
    ASSUME AcceptanceInv, PayloadInv, AcceptanceInv', SlotCreate
    PROVE  /\ PayloadInv' /\ Current' = Current /\ UNCHANGED <<cat, app, legacy>>
           /\ Loadable
<1>1. /\ op.step = "slot_create" /\ op' = [op EXCEPT !.step = "slot_write"]
      /\ acc' = [acc EXCEPT ![op.target] = Torn]
      /\ UNCHANGED <<cat, app, result, legacy>>
  BY DEF SlotCreate, SetAcceptance, Goto
<1>2. Current' = Current /\ Loadable
  BY <1>1, SlotCreateKeepsAcceptance DEF AcceptanceInv, WriteInv
<1>3. /\ op'.step = "slot_write" /\ op'.ret = op.ret /\ op'.kind = op.kind
      /\ op'.comp = op.comp /\ op'.seq = op.seq /\ op'.digest = op.digest
      /\ op'.expected = op.expected /\ op'.payload = op.payload
      /\ op'.next = op.next /\ op'.target = op.target
  BY <1>1 DEF AcceptanceInv, TypeOK, Operation
<1>4. /\ Accepted' = Accepted
     
      /\ StagedCatalogObject' = StagedCatalogObject
      /\ StagedAppObject' = StagedAppObject
  BY <1>1, <1>2, <1>3 DEF Accepted,
     StagedCatalogObject, StagedAppObject
<1>5. op.ret = "none"
  BY <1>1 DEF AcceptanceInv, RequestInv
<1>6. Committed' = FALSE
  BY <1>3, <1>5 DEF Committed, ResultStep
<1>7. CommitInv'
  BY <1>1, <1>2, <1>3, <1>5, <1>6 DEF PayloadInv, CommitInv
<1>8. FirstInv'
  <2>1. CASE Current.generation > 0
    <3>1. op.target = TargetSlot(SelectedSlot(acc, {}))
      BY <1>1 DEF AcceptanceInv, WriteInv
    <3>2. Torn \in AcceptanceObject /\ Torn.kind \in {"absent", "torn"}
      BY ObjectTypes DEF Torn
    <3>3. Loadable'
      BY <1>1, <1>2, <2>1, <3>1, <3>2, OtherSlotKeepsLoadable
    <3> QED BY <3>3 DEF FirstInv
  <2>2. CASE Current.generation = 0
    <3>1. legacy.ok /\ \A i \in Slot : acc[i].kind = "absent"
      BY <1>2, <2>2, NoGeneration
    <3>3. op.target \in Slot /\ acc \in [Slot -> AcceptanceObject]
      BY DEF AcceptanceInv, TypeOK, Operation
    <3>2. ParsedValid(acc', {}) = {}
      BY <1>1, <3>1, <3>3 DEF ParsedValid, Torn
    <3>4. acc'[1 - op.target].kind = "absent"
      BY <1>1, <3>1, <3>3 DEF Slot
    <3> QED BY <1>1, <1>3, <3>1, <3>2, <3>4 DEF FirstInv, FirstCommitInFlight
  <2>3. Current.generation >= 0 /\ Current.generation \in Int
    BY CurrentType DEF AcceptanceRecord
  <2> QED BY <2>1, <2>2, <2>3
<1>9. CatalogInv'
  BY <1>1, <1>2, <1>3, <1>4, <1>6
  DEF PayloadInv, CatalogInv, CatalogUnused, StageStep, PublishStep
<1>10. AppInv'
  BY <1>1, <1>2, <1>3, <1>4, <1>6 DEF PayloadInv, AppInv, StageStep, PublishStep
<1> QED BY <1>1, <1>2, <1>7, <1>8, <1>9, <1>10 DEF PayloadInv

\* The commit point: the record and the payload staged for it become current.
LEMMA SlotWriteKeepsPayload ==
    ASSUME AcceptanceInv, PayloadInv, AcceptanceInv', SlotWrite
    PROVE  /\ PayloadInv' /\ UNCHANGED <<cat, app, legacy>>
           /\ Current' = UpdatedRecord(Current, op.comp, op.seq, op.digest)
           /\ Loadable' /\ op.comp \in Component /\ Current' \in AcceptanceRecord
           /\ op.comp # Catalog => Accepted' = Accepted
           /\ op.kind = "catalog" => CatalogLoadStatus(cat', Accepted') = "ok"
           /\ op.kind # "app" =>
                \/ ActiveApp(app', Current') = ActiveApp(app, Current)
                \/ op.comp \in {ActiveApp(app, Current).component,
                                ActiveApp(app', Current').component}
           /\ /\ AppLoadStatus(app, Current) = "ok"
              /\ op.kind = "app" \/ op.comp # ActiveApp(app, Current).component
              => AppLoadStatus(app', Current') = "ok"
<1>1. /\ op.step = "slot_write" /\ op' = [op EXCEPT !.step = "slot_verify"]
      /\ UNCHANGED <<cat, app, result, legacy>>
  BY DEF SlotWrite, SetAcceptance, Goto
<1>2. /\ Current' = op.next /\ Loadable'
      /\ op.next = UpdatedRecord(Current, op.comp, op.seq, op.digest)
      /\ op.expected = Current.generation /\ op.seq > Current.sequences[op.comp]
  BY <1>1, SlotWriteKeepsAcceptance DEF AcceptanceInv, PayloadInv, CommitInv
<1>3. /\ op'.step = "slot_verify" /\ op'.ret = op.ret /\ op'.kind = op.kind
      /\ op'.comp = op.comp /\ op'.seq = op.seq /\ op'.digest = op.digest
      /\ op'.expected = op.expected /\ op'.payload = op.payload
      /\ op'.next = op.next
  BY <1>1 DEF AcceptanceInv, TypeOK, Operation
<1>4. /\ op.ret = "none" /\ op.comp \in Component
      /\ op.kind \in {"acceptance", "catalog", "app"}
      /\ op.seq \in 0..MaxSequence /\ op.seq \in Int
      /\ op.kind = "catalog" => op.comp = Catalog
      /\ op.kind = "app" => op.comp \in Apps
  BY <1>1, BoundsAssumption
  DEF AcceptanceInv, RequestInv, PayloadInv, CommitInv, TypeOK, Operation
<1>5. /\ Current \in AcceptanceRecord /\ Current' \in AcceptanceRecord
      /\ Current.generation \in Int /\ Current.generation >= 0
      /\ Current.sequences \in [Component -> Sequence]
  BY <1>2, CurrentType, BoundsAssumption
  DEF AcceptanceInv, TypeOK, Operation, AcceptanceRecord, SequenceMap, Sequence
<1>6. /\ Current'.generation = Current.generation + 1
      /\ Current'.digest = op.digest
      /\ Current'.sequences = [Current.sequences EXCEPT ![op.comp] = op.seq]
  BY <1>2 DEF UpdatedRecord
<1>7. /\ Current'.sequences[op.comp] = op.seq
      /\ \A c \in Component : c # op.comp => Current'.sequences[c] = Current.sequences[c]
  BY <1>4, <1>5, <1>6
<1>10. CommitInv'
  <2>1. op.digest \in Digests
    BY <1>1 DEF PayloadInv, CommitInv
  <2>2. /\ op'.next = Current' /\ Current'.generation = op'.expected + 1
        /\ Current'.sequences[op'.comp] = op'.seq /\ Current'.digest = op'.digest
        /\ op'.step = "slot_verify" /\ op'.ret # "ok" /\ op'.kind # "none"
        /\ op'.digest \in Digests
    BY <1>2, <1>3, <1>4, <1>6, <1>7, <2>1
  <2>3. "slot_verify" \notin StageStep
    BY DEF StageStep
  <2> QED BY <1>2, <2>2, <2>3 DEF CommitInv
<1>11. FirstInv'
  BY <1>3 DEF FirstInv
<1>12. op'.step \notin StageStep \cup PublishStep
  BY <1>3 DEF StageStep, PublishStep
<1>13. /\ CatalogInv'
       /\ op.comp # Catalog => Accepted' = Accepted
       /\ op.kind = "catalog" => CatalogLoadStatus(cat', Accepted') = "ok"
  <2>1. CatalogSlotsOK(cat, Accepted) /\ Accepted \in Sequence
    BY <1>5 DEF PayloadInv, CatalogInv, Accepted, Component
  <2>2. CatalogUnused(cat)'
    BY <1>5, <1>6 DEF CatalogUnused
  <2>3. CASE op.comp # Catalog
    <3>1. Accepted' = Accepted
      BY <1>7, <2>3 DEF Accepted, Component
    <3>2. op'.kind # "catalog"
      BY <1>3, <1>4, <2>3
    <3> QED BY <1>1, <1>3, <2>1, <2>2, <3>1, <3>2 DEF CatalogInv
  <2>4. CASE op.comp = Catalog
    <3>1. Accepted' = op.seq
      BY <1>7, <2>4 DEF Accepted
    <3>2. CatalogSlotsOK(cat', Accepted')
      <4>1. op.seq # Unknown
        BY <1>4, BoundsAssumption DEF Unknown
      <4> QED BY <1>1, <2>1, <3>1, <4>1 DEF CatalogSlotsOK
    <3>3. CASE op.kind # "catalog"
      BY <1>3, <1>12, <2>2, <2>4, <3>2, <3>3 DEF CatalogInv
    <3>4. CASE op.kind = "catalog"
      <4>1. /\ cat[CatalogTarget(cat, Accepted)] = StagedCatalogObject
            /\ op.payload \in Payloads
        BY <1>1, <3>4 DEF PayloadInv, CatalogInv, PublishStep
      <4>2. /\ cat[CatalogTarget(cat, Accepted)].kind = "valid"
            /\ cat[CatalogTarget(cat, Accepted)].rec.sequence = op.seq
            /\ cat[CatalogTarget(cat, Accepted)].rec.payload = op.payload
        BY <4>1 DEF StagedCatalogObject, Complete, StagedCatalog
      <4>3. cat \in [Slot -> CatalogObject]
        BY DEF AcceptanceInv, TypeOK
      <4>4. ActiveCatalog(cat, op.seq) = op.payload
        BY <1>4, <2>1, <4>2, <4>3, CommitSwitchesCatalog
      <4>5. CatalogLoadStatus(cat, op.seq) = "ok"
        BY <4>1, <4>4, PayloadsDistinct DEF ActiveCatalog
      <4> QED BY <1>1, <1>3, <1>12, <2>2, <2>4, <3>1, <3>2, <4>4, <4>5 DEF CatalogInv
    <3> QED BY <3>3, <3>4
  <2> QED BY <2>3, <2>4
<1>14. /\ AppInv'
       /\ op.kind # "app" =>
            \/ ActiveApp(app', Current') = ActiveApp(app, Current)
            \/ op.comp \in {ActiveApp(app, Current).component,
                            ActiveApp(app', Current').component}
       /\ /\ AppLoadStatus(app, Current) = "ok"
          /\ op.kind = "app" \/ op.comp # ActiveApp(app, Current).component
          => AppLoadStatus(app', Current') = "ok"
  <2>1. AppSlotsOK(app, Current) /\ app \in [Slot -> AppObject] /\ app' = app
    BY <1>1 DEF PayloadInv, AppInv, AcceptanceInv, TypeOK
  <2>2. PICK cur \in AcceptanceRecord, r \in AcceptanceRecord :
           cur = Current /\ r = Current'
    BY <1>5
  <2>3. /\ AppSlotsOK(app, cur) /\ r.generation = cur.generation + 1
        /\ \A c \in Apps : c # op.comp => r.sequences[c] = cur.sequences[c]
    BY <1>6, <1>7, <2>1, <2>2 DEF Component
  <2>4. AppSlotsOK(app, r)
    BY ONLY <2>1, <2>2, <2>3, CommitKeepsAppSlots
  <2>5. CASE op.kind # "app"
    <3>1. /\ \/ ActiveApp(app, r) = ActiveApp(app, cur)
             \/ op.comp \in {ActiveApp(app, cur).component, ActiveApp(app, r).component}
          /\ AppLoadStatus(app, cur) = "ok" /\ ActiveApp(app, cur).component # op.comp
               => AppLoadStatus(app, r) = "ok"
      BY ONLY <2>1, <2>2, <2>3, OtherCommitKeepsApp
    <3>2. AppInv'
      BY <1>3, <2>1, <2>2, <2>4, <2>5 DEF AppInv
    <3> QED BY <2>1, <2>2, <2>5, <3>1, <3>2
  <2>6. CASE op.kind = "app"
    <3>1. app[AppTarget(app, Current)] = StagedAppObject
      BY <1>1, <2>6 DEF PayloadInv, AppInv, PublishStep
    <3>2. PICK o : o = StagedAppObject
      OBVIOUS
    <3>3. /\ o = app[AppTarget(app, cur)]
          /\ o.kind = "valid" /\ o.rec.generation = r.generation
          /\ r.sequences[o.rec.component] = o.rec.sequence
          /\ o.rec.component = op.comp /\ o.rec.payload = op.payload
      BY <1>2, <1>6, <1>7, <2>2, <3>1, <3>2 DEF StagedAppObject, Complete, StagedApp
    <3>4. /\ AppLoadStatus(app, r) = "ok"
          /\ ActiveApp(app, r) =
                [component |-> o.rec.component, payload |-> o.rec.payload]
      BY ONLY <2>1, <2>2, <2>3, <3>3, CommitSwitchesApp
    <3>5. ActiveApp(app, r) = [component |-> op.comp, payload |-> op.payload]
      BY <3>3, <3>4
    <3>6. AppInv'
      BY <1>3, <1>12, <2>1, <2>2, <2>4, <3>5 DEF AppInv
    <3> QED BY <2>1, <2>2, <2>6, <3>4, <3>6
  <2> QED BY <2>5, <2>6
<1> QED BY <1>1, <1>2, <1>4, <1>5, <1>10, <1>11, <1>13, <1>14 DEF PayloadInv

LEMMA SlotWriteFailsKeepsPayload ==
    ASSUME AcceptanceInv, PayloadInv, AcceptanceInv', SlotWriteFails
    PROVE  PayloadInv' /\ Current' = Current /\ UNCHANGED <<cat, app, legacy>> /\ Loadable'
<1>1. /\ op.step = "slot_write" /\ op' = Returned("io")
      /\ acc' = [acc EXCEPT ![op.target] = Missing]
      /\ UNCHANGED <<cat, app, result, legacy>>
  BY DEF SlotWriteFails, SetAcceptance
<1>2. Current' = Current
  BY SlotWriteFailsKeepsAcceptance DEF AcceptanceInv
<1>3. /\ CatalogSlotsOK(cat', Accepted) /\ CatalogUnused(cat')
      /\ AppSlotsOK(app', Current)
  BY <1>1 DEF PayloadInv, CatalogInv, CatalogUnused, AppInv
<1>4. PayloadInv'
  BY <1>1, <1>2, <1>3, ReturnKeepsPayload
<1>5. /\ acc \in [Slot -> AcceptanceObject] /\ legacy \in LegacyObject
      /\ op.target \in Slot
      /\ op.target = TargetSlot(SelectedSlot(acc, {}))
      /\ acc[op.target].kind = "torn"
  BY <1>1 DEF AcceptanceInv, TypeOK, Operation, WriteInv
<1>6. CASE Current.generation > 0
  <2>1. Loadable
    <3>1. ParsedValid(acc, {}) # {}
      BY <1>5, <1>6, Selection DEF ParsedValid, Slot, NoSlot, Current
    <3> QED BY <1>1, <3>1 DEF PayloadInv, FirstInv, FirstCommitInFlight
  <2>2. Missing \in AcceptanceObject /\ Missing.kind \in {"absent", "torn"}
    BY ObjectTypes DEF Missing
  <2>3. Loadable'
    BY <1>1, <1>5, <1>6, <2>1, <2>2, OtherSlotKeepsLoadable
  <2> QED BY <1>1, <1>2, <1>4, <2>3
<1>7. CASE Current.generation = 0
  <2>1. ~ Loadable
    BY <1>5, <1>7, NoGeneration
  <2>2. legacy.ok /\ acc[1 - op.target].kind = "absent"
    BY <1>1, <2>1 DEF PayloadInv, FirstInv
  <2>3. \A i \in Slot : acc'[i].kind = "absent"
    BY <1>1, <1>5, <2>2 DEF Slot, Missing
  <2>4. Loadable'
    <3>1. ParsedValid(acc', {}) = {}
      BY <2>3 DEF ParsedValid
    <3> QED BY <1>1, <2>2, <2>3, <3>1 DEF Loadable, LoadStatus, Slot
  <2> QED BY <1>1, <1>2, <1>4, <2>4
<1>8. Current.generation >= 0 /\ Current.generation \in Int
  BY CurrentType DEF AcceptanceRecord
<1> QED BY <1>6, <1>7, <1>8

\* Storing the acceptance result changes neither the record nor what is served.
LEMMA ResultKeepsPayload ==
    ASSUME AcceptanceInv, PayloadInv,
           SlotVerify \/ ResultCreate \/ ResultWrite \/ ResultVerify
    PROVE  PayloadInv' /\ UNCHANGED <<acc, cat, app, legacy>>
<1>1. /\ UNCHANGED <<acc, cat, app, legacy>> /\ op.step \in ResultStep
      /\ op'.step \in ResultStep \/ (op'.step = "idle" /\ op'.ret = "ok")
      /\ op'.step # "idle" => op'.ret = op.ret
      /\ op'.kind = op.kind /\ op'.comp = op.comp /\ op'.seq = op.seq
      /\ op'.digest = op.digest /\ op'.expected = op.expected
      /\ op'.payload = op.payload /\ op'.next = op.next
      /\ op'.ret = "ok" /\ op.ret # "ok" =>
           result' = [kind |-> "valid", generation |-> op.next.generation]
  <2>0. op \in Operation
    BY DEF AcceptanceInv, TypeOK
  <2>1. CASE SlotVerify
    BY <2>0, <2>1 DEF SlotVerify, Goto, stored, Operation, ResultStep
  <2>2. CASE ResultCreate
    BY <2>0, <2>2 DEF ResultCreate, SetResult, Goto, Operation, ResultStep
  <2>3. CASE ResultWrite
    BY <2>0, <2>3 DEF ResultWrite, SetResult, Goto, Operation, ResultStep
  <2>4. CASE ResultVerify
    BY <2>0, <2>4 DEF ResultVerify, stored, Operation, ResultStep
  <2> QED BY <2>1, <2>2, <2>3, <2>4
<1>2. op.ret = "none" /\ op.step # "idle"
  BY <1>1 DEF AcceptanceInv, RequestInv, ResultStep
<1>3. /\ Current' = Current /\ Accepted' = Accepted /\ Loadable' = Loadable
     
  BY <1>1 DEF Current, Loadable, Accepted
<1>4. op'.step \notin StageStep \cup PublishStep
  BY <1>1 DEF ResultStep, StageStep, PublishStep
<1>5. Committed
  BY <1>1 DEF Committed
<1>6. CommitInv'
  <2>1. op'.step \notin StageStep \cup {"slot_create", "slot_write", "publish"}
    BY <1>4 DEF PublishStep
  <2>2. /\ op.next = Current /\ Current.generation = op.expected + 1
        /\ Current.sequences[op.comp] = op.seq /\ Current.digest = op.digest
        /\ Loadable /\ op.kind # "none" /\ op.digest \in Digests
    BY <1>2, <1>5 DEF PayloadInv, CommitInv
  <2> QED BY <1>1, <1>2, <1>3, <2>1, <2>2 DEF CommitInv
<1>7. FirstInv'
  BY <1>4 DEF FirstInv, PublishStep
<1>8. CatalogInv'
  BY <1>1, <1>3, <1>4, <1>5 DEF PayloadInv, CatalogInv, CatalogUnused
<1>9. AppInv'
  BY <1>1, <1>3, <1>4, <1>5 DEF PayloadInv, AppInv
<1> QED BY <1>1, <1>6, <1>7, <1>8, <1>9 DEF PayloadInv

LEMMA NextPayload ==
    ASSUME UnreadableSets = {{}}, AcceptanceInv, PayloadInv, [Next]_vars
    PROVE  PayloadInv'
<1>0. AcceptanceInv'
  BY NextAcceptance
<1>1. ASSUME NEW s \in 0..MaxSequence, NEW d \in Digests,
             NEW g \in 0..MaxGeneration, NEW c \in Component,
             BeginAcceptanceCommit(c, s, d, g)
      PROVE  PayloadInv'
  BY <1>1, BeginKeepsPayload DEF BeginAcceptanceCommit
<1>2. ASSUME NEW s \in 0..MaxSequence, NEW d \in Digests,
             NEW g \in 0..MaxGeneration, NEW p \in Payloads,
             NEW sha \in Payloads, BeginCatalogCommit(s, d, g, p, sha, {})
      PROVE  PayloadInv'
  BY <1>2, BeginCatalogKeepsPayload
<1>3. ASSUME NEW s \in 0..MaxSequence, NEW d \in Digests,
             NEW g \in 0..MaxGeneration, NEW p \in Payloads,
             NEW sha \in Payloads, NEW c \in Apps,
             BeginAppCommit(c, s, d, g, p, sha, {})
      PROVE  PayloadInv'
  BY <1>3, BeginAppKeepsPayload
<1>4. CASE StageCreate \/ StageWrite \/ StageWriteFails \/ StageVerify
  BY <1>4, StageKeepsPayload
<1>5. CASE Publish({})
  BY <1>5, PublishKeepsPayload
<1>6. CASE SlotCreate
  BY <1>0, <1>6, SlotCreateKeepsPayload
<1>7. CASE SlotWrite
  BY <1>0, <1>7, SlotWriteKeepsPayload
<1>8. CASE SlotWriteFails
  BY <1>0, <1>8, SlotWriteFailsKeepsPayload
<1>9. CASE SlotVerify \/ ResultCreate \/ ResultWrite \/ ResultVerify
  BY <1>9, ResultKeepsPayload
<1>10. CASE EntryFails \/ StorageFails \/ Crash \/ ResultWriteFails
  <2>1. /\ op' = Returned("io") \/ op' = Returned("none")
        /\ UNCHANGED <<acc, cat, app, legacy>>
    BY <1>10 DEF EntryFails, StorageFails, Crash, ResultWriteFails, SetResult, stored
  <2> QED BY <2>1, ReturnUnchanged
<1>11. CASE UNCHANGED vars
  <2>1. UNCHANGED <<acc, cat, app, result, legacy, op>>
    BY <1>11 DEF vars
  <2>2. /\ Current' = Current /\ Loadable' = Loadable /\ Accepted' = Accepted
       
        /\ Committed' = Committed /\ FirstCommitInFlight' = FirstCommitInFlight
        /\ StagedCatalogObject' = StagedCatalogObject
        /\ StagedAppObject' = StagedAppObject
    BY <2>1 DEF Current, Loadable, Accepted,
       Committed, FirstCommitInFlight, StagedCatalogObject, StagedAppObject
  <2>3. CommitInv' /\ FirstInv'
    BY <2>1, <2>2 DEF PayloadInv, CommitInv, FirstInv
  <2>4. CatalogInv' /\ AppInv'
    BY <2>1, <2>2 DEF PayloadInv, CatalogInv, CatalogUnused, AppInv
  <2> QED BY <2>3, <2>4 DEF PayloadInv
<1> QED
  BY <1>1, <1>2, <1>3, <1>4, <1>5, <1>6, <1>7, <1>8, <1>9, <1>10, <1>11 DEF Next

(***************************************************************************)
(* On a device whose slots can be read, in every reachable state, across   *)
(* any failed call and any crash: the request in progress is for the       *)
(* record it will replace, its payload is staged in the slot that is not   *)
(* served, and the served payload is the one of the current record.        *)
(***************************************************************************)
THEOREM PayloadCorrect ==
    ASSUME UnreadableSets = {{}}
    PROVE  Spec => []PayloadInv
<1>1. AcceptanceInv /\ PayloadInv /\ [Next]_vars => PayloadInv'
  BY NextPayload
<1> QED BY <1>1, InitPayload, AcceptanceCorrect, PTL DEF Spec

\* What a step may do to a payload that is served.
LEMMA ServedSteps ==
    ASSUME UnreadableSets = {{}}, AcceptanceInv, PayloadInv, [Next]_vars,
           Loadable, Current.generation > 0
    PROVE  /\ Loadable'
           /\ CatalogLoadStatus(cat, Accepted) = "ok" =>
                CatalogLoadStatus(cat', Accepted') = "ok" \/ BareCommit(Catalog)
           /\ AppLoadStatus(app, Current) = "ok" =>
                \/ AppLoadStatus(app', Current') = "ok"
                \/ BareCommit(ActiveApp(app, Current).component)
<1>1. Loadable'
  BY RecordSteps
<1>2. AcceptanceInv'
  BY NextAcceptance
<1>3. CASE StageCreate \/ StageWrite \/ StageWriteFails \/ StageVerify
  <2>1. /\ UNCHANGED <<acc, legacy>>
        /\ CatalogLoadStatus(cat, Accepted) = "ok" =>
                CatalogLoadStatus(cat', Accepted) = "ok"
        /\ AppLoadStatus(app, Current) = "ok" => AppLoadStatus(app', Current) = "ok"
    BY <1>3, StageKeepsPayload
  <2>2. Current' = Current /\ Accepted' = Accepted
    BY <2>1 DEF Current, Accepted
  <2> QED BY <1>1, <2>1, <2>2
<1>4. CASE SlotWrite
  <2>1. op.step = "slot_write" /\ op.kind \in {"acceptance", "catalog", "app"}
    BY <1>4 DEF SlotWrite, PayloadInv, CommitInv, AcceptanceInv, TypeOK, Operation
  <2>2. /\ op.kind = "catalog" => op.comp = Catalog
        /\ op.kind = "app" => op.comp \in Apps
    BY DEF AcceptanceInv, RequestInv
  <2>3. /\ UNCHANGED <<cat, app>>
        /\ op.comp # Catalog => Accepted' = Accepted
        /\ op.kind = "catalog" => CatalogLoadStatus(cat', Accepted') = "ok"
        /\ /\ AppLoadStatus(app, Current) = "ok"
           /\ op.kind = "app" \/ op.comp # ActiveApp(app, Current).component
           => AppLoadStatus(app', Current') = "ok"
    BY <1>2, <1>4, SlotWriteKeepsPayload
  <2>4. op.kind = "app" => op.comp # Catalog
    BY <2>2, ComponentsDistinct
  <2>5. CatalogLoadStatus(cat, Accepted) = "ok" =>
          CatalogLoadStatus(cat', Accepted') = "ok" \/ BareCommit(Catalog)
    <3>1. CASE op.kind = "catalog"
      BY <2>3, <3>1
    <3>2. CASE op.comp # Catalog
      BY <2>3, <3>2
    <3>3. CASE op.kind = "acceptance" /\ op.comp = Catalog
      BY <2>1, <3>3 DEF BareCommit
    <3> QED BY <2>1, <2>4, <3>1, <3>2, <3>3
  <2>6. AppLoadStatus(app, Current) = "ok" =>
          \/ AppLoadStatus(app', Current') = "ok"
          \/ BareCommit(ActiveApp(app, Current).component)
    <3>1. ASSUME AppLoadStatus(app, Current) = "ok", op.kind = "catalog"
          PROVE  op.comp # ActiveApp(app, Current).component
      <4>1. /\ app \in [Slot -> AppObject] /\ Current \in AcceptanceRecord
            /\ AppSlotsOK(app, Current)
        BY CurrentType DEF AcceptanceInv, TypeOK, PayloadInv, AppInv
      <4> QED BY <2>2, <3>1, <4>1, ActiveAppType, ComponentsDistinct
    <3> QED BY <2>1, <2>3, <3>1 DEF BareCommit
  <2> QED BY <1>1, <2>5, <2>6
<1>5. CASE SlotCreate
  <2>1. Current' = Current /\ UNCHANGED <<cat, app>>
    BY <1>2, <1>5, SlotCreateKeepsPayload
  <2> QED BY <1>1, <2>1 DEF Accepted
<1>6. CASE SlotWriteFails
  <2>1. Current' = Current /\ UNCHANGED <<cat, app>>
    BY <1>2, <1>6, SlotWriteFailsKeepsPayload
  <2> QED BY <1>1, <2>1 DEF Accepted
<1>7. CASE UNCHANGED <<acc, cat, app, legacy>>
  <2>1. Current' = Current /\ Accepted' = Accepted
    BY <1>7 DEF Current, Accepted
  <2> QED BY <1>1, <1>7, <2>1
<1>8. \/ StageCreate \/ StageWrite \/ StageWriteFails \/ StageVerify
      \/ SlotWrite \/ SlotCreate \/ SlotWriteFails
      \/ UNCHANGED <<acc, cat, app, legacy>>
  BY DEF Next, vars, stored, BeginAcceptanceCommit, BeginCatalogCommit,
     BeginAppCommit, Begin, EntryFails, Publish, SlotVerify, ResultCreate,
     ResultWrite, ResultWriteFails, ResultVerify, StorageFails, Crash, SetResult
<1> QED BY <1>3, <1>4, <1>5, <1>6, <1>7, <1>8

(***************************************************************************)
(* twep_catalog_read_active finds a Catalog that it has found once in      *)
(* every state of every later commit, and after a crash in one, unless an  *)
(* acceptance-only commit moves the Catalog component past it.             *)
(***************************************************************************)
THEOREM CatalogCorrect ==
    ASSUME UnreadableSets = {{}}
    PROVE  Spec => CatalogReadable
<1>1. ASSUME AcceptanceInv, PayloadInv, [Next]_vars, ServesCatalog
      PROVE  ServesCatalog' \/ BareCommit(Catalog)
  <2>1. Loadable /\ CatalogLoadStatus(cat, Accepted) = "ok"
    BY <1>1 DEF ServesCatalog
  <2>2. Accepted \in Sequence /\ Accepted # Unknown
    BY <1>1, <2>1, CurrentType DEF Accepted, Component, CatalogLoadStatus
  <2>3. CatalogSlotsOK(cat, Accepted) /\ CatalogUnused(cat)
    BY <1>1 DEF PayloadInv, CatalogInv
  <2>4. PICK s \in {0, 1} : cat[s].kind = "valid"
    BY <2>1, <2>2, <2>3, ServedCatalog
  <2>5. Current.generation # 0
    BY <2>2, <2>3, <2>4 DEF CatalogUnused, Slot
  <2>6. Current.generation > 0
    BY <1>1, <2>5, CurrentType DEF AcceptanceRecord
  <2> QED BY <1>1, <2>1, <2>6, ServedSteps DEF ServesCatalog
<1>2. AcceptanceInv /\ PayloadInv /\ [Next]_vars
        => [ServesCatalog => ServesCatalog' \/ BareCommit(Catalog)]_vars
  BY <1>1
<1> QED BY <1>2, AcceptanceCorrect, PayloadCorrect, PTL DEF Spec, CatalogReadable

(***************************************************************************)
(* twep_app_read_active finds an application in every state once it has    *)
(* found one, whatever other components are staged, abandoned or accepted, *)
(* unless an acceptance-only commit moves the active component past it.    *)
(***************************************************************************)
THEOREM AppCorrect ==
    ASSUME UnreadableSets = {{}}
    PROVE  Spec => AppReadable
<1>1. ASSUME AcceptanceInv, PayloadInv, [Next]_vars, ServesApp
      PROVE  ServesApp' \/ BareCommit(ActiveApp(app, Current).component)
  <2>1. Loadable /\ AppLoadStatus(app, Current) = "ok"
    BY <1>1 DEF ServesApp
  <2>2. /\ app \in [Slot -> AppObject] /\ Current \in AcceptanceRecord
        /\ AppSlotsOK(app, Current)
    BY <1>1, CurrentType DEF AcceptanceInv, TypeOK, PayloadInv, AppInv
  <2>3. Current.generation > 0
    BY <2>1, <2>2, ActiveAppType
  <2> QED BY <1>1, <2>1, <2>3, ServedSteps DEF ServesApp
<1>2. AcceptanceInv /\ PayloadInv /\ [Next]_vars
        => [ServesApp => ServesApp' \/ BareCommit(ActiveApp(app, Current).component)]_vars
  BY <1>1
<1> QED BY <1>2, AcceptanceCorrect, PayloadCorrect, PTL DEF Spec, AppReadable

(***************************************************************************)
(* A commit hostcall that returned 0 is in force: its digest, sequence and *)
(* generation are in the record, its payload is the one served, and the    *)
(* acceptance result is of that generation.                                *)
(***************************************************************************)
THEOREM AcknowledgementCorrect ==
    ASSUME UnreadableSets = {{}}
    PROVE  Spec => []AcknowledgedIsCommitted
<1>1. ASSUME AcceptanceInv, PayloadInv PROVE AcknowledgedIsCommitted
  <2> SUFFICES ASSUME op.ret = "ok" PROVE AcknowledgedIsCommitted
    BY DEF AcknowledgedIsCommitted
  <2>1. Committed
    BY DEF Committed
  <2>2. /\ op.next = Current /\ Current.generation = op.expected + 1
        /\ Current.sequences[op.comp] = op.seq /\ Current.digest = op.digest /\ Loadable
        /\ result = [kind |-> "valid", generation |-> op.next.generation]
    BY <1>1, <2>1 DEF PayloadInv, CommitInv
  <2>3. op.kind = "catalog" => ActiveCatalog(cat, op.seq) = op.payload
    BY <1>1, <2>1, <2>2 DEF PayloadInv, CatalogInv, Accepted, AcceptanceInv, RequestInv
  <2>4. op.kind = "app" => ActiveApp(app, Current) =
                 [component |-> op.comp, payload |-> op.payload]
    BY <1>1, <2>1 DEF PayloadInv, AppInv
  <2> QED BY <2>2, <2>3, <2>4 DEF AcknowledgedIsCommitted
<1>2. AcceptanceInv /\ PayloadInv => AcknowledgedIsCommitted
  BY <1>1
<1> QED BY <1>2, AcceptanceCorrect, PayloadCorrect, PTL

(***************************************************************************)
(* Compare-and-commit: between the entry check and the last write nothing  *)
(* lets a request write a slot for another generation than the one it was  *)
(* checked against.                                                        *)
(***************************************************************************)
THEOREM CompareAndCommit ==
    ASSUME UnreadableSets = {{}}
    PROVE  Spec => StaleCommitWritesNothing
<1>1. ASSUME PayloadInv, [Next]_vars, <<acc, cat, app>>' # <<acc, cat, app>>
      PROVE  op.expected = Current.generation
  <2>1. op.step \in StageStep \cup {"slot_create", "slot_write"}
    BY <1>1
    DEF Next, vars, stored, BeginAcceptanceCommit, BeginCatalogCommit,
        BeginAppCommit, Begin, EntryFails, StageCreate, StageWrite,
        StageWriteFails, StageVerify, Publish, SlotCreate, SlotWrite,
        SlotWriteFails, SlotVerify, ResultCreate, ResultWrite,
        ResultWriteFails, ResultVerify, StorageFails, Crash, SetResult, StageStep
  <2> QED BY <1>1, <2>1 DEF PayloadInv, CommitInv
<1>2. PayloadInv /\ [Next]_vars
        => [<<acc, cat, app>>' # <<acc, cat, app>>
              => op.expected = Current.generation]_vars
  BY <1>1
<1> QED BY <1>2, PayloadCorrect, PTL DEF Spec, StaleCommitWritesNothing

----------------------------------------------------------------------------
(* The slots implement the ledger of AcceptanceLedger, step by step.       *)

Available == Loadable \/ FirstCommitInFlight
Applications == [component : Apps, payload : Payloads]
                  \cup {[component |-> NoComponent, payload |-> NoPayload]}

LEMMA InitLedger == Init => Ledger!Init
<1> SUFFICES ASSUME Init PROVE Ledger!Init
  OBVIOUS
<1>1. AcceptanceInv
  BY InitAcceptance
<1>2. /\ Current \in AcceptanceRecord
      /\ Current.generation \in 0..MaxGeneration /\ Current.sequences \in SequenceMap
      /\ Current.digest \in Digests \cup {NoDigest}
  BY <1>1, CurrentType DEF AcceptanceRecord
<1>3. /\ cat = [i \in Slot |-> MissingCatalog] /\ app = [i \in Slot |-> MissingApp]
      /\ op.step = "idle"
  BY DEF Init, Returned
<1>4. ActiveCatalog(cat, Current.sequences[Catalog]) = NoPayload
  <2>1. \A i \in Slot : cat[i].kind = "absent"
    BY <1>3 DEF MissingCatalog
  <2>2. \A k : MatchingCatalogs(cat, k) = {}
    BY <2>1 DEF MatchingCatalogs
  <2>3. \A k : CatalogLoadStatus(cat, k) # "ok"
    BY <2>1, <2>2 DEF CatalogLoadStatus
  <2> QED BY <2>3 DEF ActiveCatalog
<1>5. ActiveApp(app, Current) = [component |-> NoComponent, payload |-> NoPayload]
  <2>1. MatchingApps(app, Current) = {}
    BY <1>3 DEF MatchingApps, MissingApp
  <2>2. AppLoadStatus(app, Current) # "ok"
    BY <2>1 DEF AppLoadStatus
  <2> QED BY <2>2 DEF ActiveApp
<1>6. (Loadable \/ FirstCommitInFlight) =>
        Current.generation = 0 /\ Current.digest = NoDigest
  <2> SUFFICES ASSUME Loadable
               PROVE  Current.generation = 0 /\ Current.digest = NoDigest
    BY <1>3 DEF FirstCommitInFlight
  <2>1. acc[1].kind # "unsupported"
    BY DEF Loadable, LoadStatus, Slot
  <2>2. acc = [i \in Slot |-> Missing]
    BY <2>1 DEF Init, Slot, Foreign
  <2>3. SelectedSlot(acc, {}) = NoSlot
    BY <2>2 DEF SelectedSlot, ParsedValid, Missing
  <2>4. Current = LegacyRecord(legacy)
    BY <2>3 DEF Current, LoadRecord
  <2> QED BY <2>4 DEF LegacyRecord, NoRecord
<1>7. (Loadable \/ FirstCommitInFlight) \in BOOLEAN
  BY DEF Loadable, FirstCommitInFlight
<1> QED BY <1>2, <1>4, <1>5, <1>6, <1>7
    DEF Ledger!Init, Ledger!NoApplication, Ledger!SequenceMap, SequenceMap,
        Ledger!Component, Component, Ledger!Unknown, Unknown

LEMMA LedgerStutters ==
    ASSUME Current' = Current, Available' = Available,
           ActiveCatalog(cat', Accepted') = ActiveCatalog(cat, Accepted),
           ActiveApp(app', Current') = ActiveApp(app, Current)
    PROVE  UNCHANGED Ledger!ledgerVars
BY DEF Ledger!ledgerVars, Available, Accepted

\* The ledger's guard is what EncodeStatus and the checks before it established.
LEMMA LedgerAdvances ==
    ASSUME AcceptanceInv, PayloadInv, AcceptanceInv', SlotWrite
    PROVE  Ledger!Next
<1>1. op.step = "slot_write" /\ Available /\ Available'
  BY SlotWriteKeepsPayload DEF SlotWrite, PayloadInv, FirstInv, Available
<1>2. /\ PayloadInv' /\ UNCHANGED <<cat, app, legacy>>
      /\ Current' = UpdatedRecord(Current, op.comp, op.seq, op.digest)
      /\ op.comp # Catalog =>
           ActiveCatalog(cat', Accepted') = ActiveCatalog(cat, Accepted)
      /\ op.kind # "app" =>
           \/ ActiveApp(app', Current') = ActiveApp(app, Current)
           \/ op.comp \in {ActiveApp(app, Current).component,
                           ActiveApp(app', Current').component}
  BY SlotWriteKeepsPayload
<1>3. AcceptanceStatus("ok", Current, op.comp, op.seq, op.digest, op.expected) = "ok"
  BY <1>1 DEF PayloadInv, CommitInv
<1>4. /\ op.seq \in 1..MaxSequence /\ op.digest \in Digests /\ op.comp \in Component
      /\ op.kind \in {"acceptance", "catalog", "app"}
      /\ op.kind = "catalog" => op.comp = Catalog /\ op.payload \in Payloads
      /\ op.kind = "app" => op.comp \in Apps /\ op.payload \in Payloads
  <2>1. op.seq \in 0..MaxSequence /\ op.seq # 0
    BY <1>3 DEF AcceptanceStatus, AcceptanceInv, TypeOK, Operation
  <2>2. op.seq \in 1..MaxSequence
    BY <2>1, BoundsAssumption
  <2>3. "slot_write" \in PublishStep
    BY DEF PublishStep
  <2>4. op.kind \in {"catalog", "app"} => op.payload \in Payloads
    BY <1>1, <2>3 DEF PayloadInv, CatalogInv, AppInv
  <2>5. /\ op.digest \in Digests /\ op.kind # "none" /\ op.comp \in Component
        /\ op.kind = "catalog" => op.comp = Catalog
        /\ op.kind = "app" => op.comp \in Apps
    BY <1>1 DEF PayloadInv, CommitInv, AcceptanceInv, RequestInv
  <2> QED BY <2>2, <2>4, <2>5 DEF AcceptanceInv, TypeOK, Operation
<1>5. Ledger!Advance(op.comp, op.seq, op.digest)
  <2>1. /\ Current.generation # MaxGeneration /\ Current.generation \in 0..MaxGeneration
        /\ Current.digest # op.digest
        /\ EncodeStatus(Current, op.comp, op.seq) = "ok"
    BY <1>3, CurrentType DEF AcceptanceStatus, AcceptanceRecord
  <2>2. Current.generation < MaxGeneration
    BY <2>1, BoundsAssumption
  <2>3. op.seq > Current.sequences[op.comp]
    BY <1>1 DEF PayloadInv, CommitInv
  <2>4. Current.sequences[op.comp] = Unknown =>
          Cardinality({c \in Component : Current.sequences[c] # Unknown}) # MaxComponents
    BY <2>1 DEF EncodeStatus, Known
  <2>5. /\ Current'.sequences = [Current.sequences EXCEPT ![op.comp] = op.seq]
        /\ Current'.digest = op.digest
    BY <1>2 DEF UpdatedRecord
  <2>6. \A S : Ledger!Cardinality(S) = Cardinality(S)
    BY DEF Ledger!Cardinality, Cardinality
  <2>7. Ledger!Component = Component /\ Ledger!Unknown = Unknown
    BY DEF Ledger!Component, Component, Ledger!Unknown, Unknown
  <2> QED
    BY <1>1, <2>1, <2>2, <2>3, <2>4, <2>5, <2>6, <2>7 DEF Ledger!Advance, Available
<1>6. Current'.generation = Current.generation + 1
  BY <1>2 DEF UpdatedRecord
<1>a. /\ ActiveApp(app, Current) \in Applications
      /\ ActiveApp(app', Current') \in Applications
  <2>1. app \in [Slot -> AppObject] /\ Current \in AcceptanceRecord
    BY CurrentType DEF AcceptanceInv, TypeOK
  <2>2. app' \in [Slot -> AppObject] /\ Current' \in AcceptanceRecord
    BY <1>2, <2>1, SlotWriteKeepsPayload
  <2>3. AppSlotsOK(app, Current) /\ AppSlotsOK(app', Current')
    BY <1>2 DEF PayloadInv, AppInv
  <2> QED BY <2>1, <2>2, <2>3, ActiveAppType DEF Applications
<1>b. op.kind # "app" =>
        \/ ActiveApp(app', Current') = ActiveApp(app, Current)
        \/ /\ op.comp \in Apps
           /\ op.comp \in {ActiveApp(app, Current).component,
                           ActiveApp(app', Current').component}
  <2>1. \A x \in Applications : x.component = op.comp => op.comp \in Apps
    BY <1>4, NoComponentDistinct DEF Applications
  <2> QED BY <1>2, <1>a, <2>1
<1>7. CASE op.kind = "acceptance"
  <2>1. ActiveCatalog(cat', Accepted') \in Payloads \cup {NoPayload}
    <3>1. Current' \in AcceptanceRecord
      BY SlotWriteKeepsPayload
    <3>2. Current'.sequences[Catalog] \in Sequence
      BY <3>1, SequenceTypes DEF Component
    <3>3. CatalogSlotsOK(cat', Accepted') /\ Accepted' \in Sequence
      BY <1>2, <3>2 DEF PayloadInv, CatalogInv, Accepted
    <3> QED BY <3>3, ActiveCatalogType
  <2>4. Ledger!Accept(op.comp, op.seq, op.digest)
    BY <1>2, <1>5, <1>7, <1>a, <1>b, <2>1
    DEF Ledger!Accept, Ledger!Applications, Ledger!NoApplication, Applications, Accepted
  <2> QED BY <1>4, <1>6, <2>4 DEF Ledger!Next, Ledger!Component, Component
<1>8. Committed'
  <2>1. op'.step = "slot_verify"
    BY DEF SlotWrite, Goto, AcceptanceInv, TypeOK, Operation
  <2> QED BY <2>1 DEF Committed, ResultStep
<1>9. op'.kind = op.kind /\ op'.comp = op.comp /\ op'.payload = op.payload
  BY DEF SlotWrite, Goto, AcceptanceInv, TypeOK, Operation
<1>10. CASE op.kind = "catalog"
  <2>1. ActiveCatalog(cat', Accepted') = op.payload
    BY <1>2, <1>8, <1>9, <1>10 DEF PayloadInv, CatalogInv
  <2>2. Accepted # Unknown => ActiveCatalog(cat, Accepted) # NoPayload
    <3> SUFFICES ASSUME Accepted # Unknown PROVE ActiveCatalog(cat, Accepted) # NoPayload
      OBVIOUS
    <3>1. CatalogLoadStatus(cat, Accepted) = "ok" /\ CatalogSlotsOK(cat, Accepted)
      BY <1>1, <1>10 DEF PayloadInv, CatalogInv, PublishStep
    <3>2. Accepted \in Sequence
      BY CurrentType DEF Accepted, Component
    <3> QED BY <3>1, <3>2, ActiveCatalogType
  <2>3. Ledger!InstallCatalog(op.seq, op.digest, op.payload)
    BY <1>2, <1>4, <1>5, <1>10, <1>b, <2>1, <2>2, ComponentsDistinct
    DEF Ledger!InstallCatalog, Accepted, Ledger!Unknown, Unknown
  <2> QED BY <1>4, <1>6, <1>10, <2>3 DEF Ledger!Next
<1>11. CASE op.kind = "app"
  <2>1. ActiveApp(app', Current') = [component |-> op.comp, payload |-> op.payload]
    BY <1>2, <1>8, <1>9, <1>11 DEF PayloadInv, AppInv
  <2>2. Ledger!InstallApplication(op.comp, op.seq, op.digest, op.payload)
    BY <1>2, <1>4, <1>5, <1>11, <2>1, ComponentsDistinct
    DEF Ledger!InstallApplication, Accepted
  <2> QED BY <1>4, <1>6, <1>11, <2>2 DEF Ledger!Next
<1> QED BY <1>4, <1>7, <1>10, <1>11

\* A step that touches no slot, unless it is the crash that loses a first commit.
LEMMA QuietStep ==
    ASSUME UNCHANGED <<acc, cat, app, legacy>>,
           op.step # "slot_write", op'.step # "slot_write"
    PROVE  UNCHANGED Ledger!ledgerVars
<1>1. /\ Current' = Current /\ Accepted' = Accepted /\ Loadable' = Loadable
  BY DEF Current, Accepted, Loadable
<1>2. FirstCommitInFlight = FALSE /\ FirstCommitInFlight' = FALSE
  BY DEF FirstCommitInFlight
<1>3. Available' = Available
  BY <1>1, <1>2 DEF Available
<1> QED BY <1>1, <1>3, LedgerStutters

LEMMA CrashStep ==
    ASSUME AcceptanceInv, PayloadInv, Crash
    PROVE  Ledger!Next \/ UNCHANGED Ledger!ledgerVars
<1>1. UNCHANGED <<acc, cat, app, legacy>> /\ op'.step = "idle"
  BY DEF Crash, stored, Returned
<1>2. /\ Current' = Current /\ Accepted' = Accepted /\ Loadable' = Loadable
      /\ FirstCommitInFlight' = FALSE
  BY <1>1 DEF Current, Accepted, Loadable, FirstCommitInFlight
<1>3. CASE ~ FirstCommitInFlight
  <2>1. Available' = Available
    BY <1>2, <1>3 DEF Available, FirstCommitInFlight
  <2> QED BY <1>1, <1>2, <2>1, LedgerStutters
<1>4. CASE FirstCommitInFlight
  <2>1. op.step = "slot_write" /\ \A i \in Slot : acc[i].kind # "valid"
    BY <1>4 DEF FirstCommitInFlight, ParsedValid
  <2>2. Current.generation = 0
    BY <2>1, Selection DEF AcceptanceInv, TypeOK, Current, Slot, NoSlot
  <2>3. acc[op.target].kind = "torn" /\ op.target \in Slot
    BY <2>1 DEF AcceptanceInv, WriteInv, TypeOK, Operation
  <2>4. ~ Loadable
    BY <2>2, <2>3, NoGeneration
  <2>5. (Loadable \/ FirstCommitInFlight)' = FALSE
    BY <1>2, <2>4
  <2>6. Ledger!LoseFirstCommit
    BY <1>1, <1>2, <1>4, <2>2, <2>5 DEF Ledger!LoseFirstCommit, Accepted
  <2> QED BY <2>6 DEF Ledger!Next
<1> QED BY <1>3, <1>4

LEMMA LedgerStep ==
    ASSUME UnreadableSets = {{}}, AcceptanceInv, PayloadInv, [Next]_vars
    PROVE  Ledger!Next \/ UNCHANGED Ledger!ledgerVars
<1>0. AcceptanceInv' /\ PayloadInv' /\ op \in Operation
  BY NextAcceptance, NextPayload DEF AcceptanceInv, TypeOK
<1> DEFINE Quiet == UNCHANGED Ledger!ledgerVars
<1>1. ASSUME NEW status, NEW kind, NEW comp, NEW seq, NEW digest, NEW expected,
             NEW payload, NEW target, NEW step \in {"stage_create", "publish"},
             Begin(status, kind, comp, seq, digest, expected, payload, target, step)
      PROVE  Quiet
  <2>1. /\ UNCHANGED <<acc, cat, app, legacy>> /\ op.step = "idle"
        /\ op'.step # "slot_write"
    BY <1>1 DEF Begin, Returned, stored
  <2> QED BY <2>1, QuietStep
<1>2. ASSUME NEW s, NEW d, NEW g, NEW c, BeginAcceptanceCommit(c, s, d, g)
      PROVE  Quiet
  BY <1>1, <1>2 DEF BeginAcceptanceCommit
<1>3. ASSUME NEW s, NEW d, NEW g, NEW p, NEW sha, NEW u,
             BeginCatalogCommit(s, d, g, p, sha, u)
      PROVE  Quiet
  BY <1>1, <1>3 DEF BeginCatalogCommit
<1>4. ASSUME NEW s, NEW d, NEW g, NEW p, NEW sha, NEW u, NEW c,
             BeginAppCommit(c, s, d, g, p, sha, u)
      PROVE  Quiet
  BY <1>1, <1>4 DEF BeginAppCommit
<1>5. CASE StageCreate \/ StageWrite \/ StageWriteFails \/ StageVerify
  <2>1. /\ UNCHANGED <<acc, legacy>>
        /\ ActiveCatalog(cat', Accepted) = ActiveCatalog(cat, Accepted)
        /\ ActiveApp(app', Current) = ActiveApp(app, Current)
    BY <1>5, StageKeepsPayload
  <2>2. op.step # "slot_write" /\ op'.step # "slot_write"
    BY <1>0, <1>5 DEF StageCreate, StageWrite, StageWriteFails, StageVerify, Goto,
       Returned, Operation
  <2>3. /\ Current' = Current /\ Accepted' = Accepted /\ Loadable' = Loadable
        /\ FirstCommitInFlight' = FirstCommitInFlight
    BY <2>1, <2>2 DEF Current, Accepted, Loadable, FirstCommitInFlight
  <2>4. Available' = Available
    BY <2>3 DEF Available
  <2> QED BY <2>1, <2>3, <2>4, LedgerStutters
<1>6. ASSUME NEW u, Publish(u) PROVE Quiet
  <2>1. /\ UNCHANGED <<acc, cat, app, legacy>> /\ op.step = "publish"
        /\ op'.step # "slot_write"
    BY <1>0, <1>6 DEF Publish, Returned, stored, Operation
  <2> QED BY <2>1, QuietStep
<1>7. CASE SlotCreate
  <2>1. Current' = Current /\ UNCHANGED <<cat, app, legacy>> /\ Loadable
    BY <1>0, <1>7, SlotCreateKeepsPayload
  <2>2. op'.step = "slot_write"
    BY <1>0, <1>7 DEF SlotCreate, Goto, Operation
  <2>3. Available /\ Available'
    BY <1>0, <2>1, <2>2 DEF Available, PayloadInv, FirstInv
  <2>4. Accepted' = Accepted /\ Available' = Available
    BY <2>1, <2>3 DEF Accepted, Available
  <2> QED BY <2>1, <2>4, LedgerStutters
<1>8. CASE SlotWrite
  BY <1>0, <1>8, LedgerAdvances
<1>9. CASE SlotWriteFails
  <2>1. Current' = Current /\ UNCHANGED <<cat, app, legacy>> /\ Loadable'
    BY <1>0, <1>9, SlotWriteFailsKeepsPayload
  <2>2. op.step = "slot_write"
    BY <1>9 DEF SlotWriteFails
  <2>3. Available /\ Available'
    BY <2>1, <2>2 DEF Available, PayloadInv, FirstInv
  <2>4. Accepted' = Accepted /\ Available' = Available
    BY <2>1, <2>3 DEF Accepted, Available
  <2> QED BY <2>1, <2>4, LedgerStutters
<1>10. CASE \/ EntryFails \/ SlotVerify \/ StorageFails
            \/ ResultCreate \/ ResultWrite \/ ResultWriteFails \/ ResultVerify
  <2>1. /\ UNCHANGED <<acc, cat, app, legacy>>
        /\ op.step # "slot_write" /\ op'.step # "slot_write"
    <3>1. CASE EntryFails \/ StorageFails
      BY <3>1 DEF EntryFails, StorageFails, Returned, stored
    <3>2. CASE SlotVerify \/ ResultCreate \/ ResultWrite
      BY <1>0, <3>2 DEF SlotVerify, ResultCreate, ResultWrite, SetResult, Goto,
         stored, Operation
    <3>3. CASE ResultWriteFails
      BY <3>3 DEF ResultWriteFails, SetResult, Returned
    <3>4. CASE ResultVerify
      BY <1>0, <3>4 DEF ResultVerify, stored, Operation
    <3> QED BY <1>10, <3>1, <3>2, <3>3, <3>4
  <2> QED BY <2>1, QuietStep
<1>11. CASE Crash
  BY <1>11, CrashStep
<1>12. CASE UNCHANGED vars
  <2>1. /\ Current' = Current /\ Accepted' = Accepted
        /\ UNCHANGED <<cat, app>> /\ Available' = Available
    BY <1>12 DEF vars, Current, Accepted, Available, Loadable, FirstCommitInFlight
  <2> QED BY <2>1, LedgerStutters
<1> HIDE DEF Quiet
<1> QED
  BY <1>2, <1>3, <1>4, <1>5, <1>6, <1>7, <1>8, <1>9, <1>10, <1>11, <1>12
  DEF Next, Quiet

(***************************************************************************)
(* The commit hostcalls implement the ledger: one atomic switch at the     *)
(* write of the acceptance slot, and everything before and after it, every *)
(* failure and every crash invisible to a reader, but for the crash in the *)
(* first commit of a device.                                               *)
(***************************************************************************)
THEOREM ImplementsLedger ==
    ASSUME UnreadableSets = {{}}
    PROVE  Spec => LedgerSpec
<1>1. AcceptanceInv /\ PayloadInv /\ [Next]_vars => [Ledger!Next]_(Ledger!ledgerVars)
  BY LedgerStep
<1> QED
  BY <1>1, InitLedger, AcceptanceCorrect, PayloadCorrect, PTL
  DEF Spec, LedgerSpec, Ledger!Spec

============================================================================
