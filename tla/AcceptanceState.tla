-------------------------- MODULE AcceptanceState --------------------------
(***************************************************************************)
(* The D043 acceptance record of the trusted application, as the C code of *)
(* optee/twep-wr-ta/ta/acceptance_state.c reads and extends it: two        *)
(* persistent objects ("slots"), a legacy sequence map that is imported    *)
(* while no slot exists, and the compare-and-commit checks.                *)
(*                                                                         *)
(* Everything here is a constant-level operator on slot contents; the      *)
(* module ProtectedStore runs them as a state machine.                     *)
(***************************************************************************)
EXTENDS Integers, FiniteSets

CONSTANTS
    Catalog,        \* the one default Catalog component id
    Apps,           \* application component ids (twep-app-v1)
    Plain,          \* components accepted without a protected payload
    Digests,        \* SHA-256 digests of QueryResponse bodies
    NoDigest,       \* have_digest = false
    MaxGeneration,  \* UINT64_MAX
    MaxSequence,    \* largest manifest sequence number
    MaxComponents   \* ACCEPTANCE_STATE_MAX_COMPONENTS

ASSUME ComponentsDistinct ==
    /\ Catalog \notin Apps \cup Plain
    /\ Apps \cap Plain = {}

ASSUME DigestsDistinct == NoDigest \notin Digests

ASSUME BoundsAssumption ==
    /\ MaxGeneration \in Nat \ {0}
    /\ MaxSequence \in Nat \ {0}
    /\ MaxComponents \in Nat

----------------------------------------------------------------------------
(* The record and the objects that hold it.                                *)

Component == {Catalog} \cup Apps \cup Plain

\* A component that component_sequences does not list.
Unknown == -1

SequenceMap == [Component -> {Unknown} \cup 0..MaxSequence]

NoSequences == [c \in Component |-> Unknown]

\* struct acceptance_state without its encoding.
AcceptanceRecord ==
    [generation : 0..MaxGeneration,
     sequences  : SequenceMap,
     digest     : Digests \cup {NoDigest}]

NoRecord ==
    [generation |-> 0, sequences |-> NoSequences, digest |-> NoDigest]

Slot == {0, 1}

NoSlot == -1

(***************************************************************************)
(* What a read of a slot object finds.  "torn": the object exists but has  *)
(* no complete record in it (created and not yet written).  "unsupported": *)
(* a complete record whose schema_version this build does not know.        *)
(***************************************************************************)
ObjectKind == {"absent", "torn", "unsupported", "valid"}

AcceptanceObject == [kind : ObjectKind, rec : AcceptanceRecord]

Missing == [kind |-> "absent", rec |-> NoRecord]
Torn == [kind |-> "torn", rec |-> NoRecord]
Foreign == [kind |-> "unsupported", rec |-> NoRecord]
Complete(r) == [kind |-> "valid", rec |-> r]

(***************************************************************************)
(* protected-sequence-freshness.cbor: `ok` says that it is absent (the map *)
(* is then empty) or canonical; it is FALSE for a malformed object.        *)
(***************************************************************************)
LegacyObject == [ok : BOOLEAN, sequences : SequenceMap]

----------------------------------------------------------------------------
(* load_current.  u is the set of slots whose read fails for a reason of   *)
(* its own (no memory, storage not available) at this call.                *)

ParsedValid(a, u) == {i \in Slot \ u : a[i].kind = "valid"}

\* The highest-generation valid slot; slot 0 when both are equal.
SelectedSlot(a, u) ==
    LET V == ParsedValid(a, u) IN
    IF V = {} THEN NoSlot
    ELSE IF 1 \in V /\ (0 \in V => a[1].rec.generation > a[0].rec.generation)
    THEN 1 ELSE 0

LegacyRecord(l) == [NoRecord EXCEPT !.sequences = l.sequences]

MutIgnoresForeign(a, l, u) ==
    LET V == ParsedValid(a, u) IN
    IF V = Slot /\ a[0].rec.generation = a[1].rec.generation
                /\ a[0].rec # a[1].rec THEN "security"
    ELSE IF V # {} THEN "ok"
    ELSE IF \E i \in Slot : i \in u \/ a[i].kind # "absent" THEN "corrupt"
    ELSE IF l.ok THEN "ok" ELSE "corrupt"

LoadStatus(a, l, u) ==
    LET V == ParsedValid(a, u) IN
    IF \E i \in Slot \ u : a[i].kind = "unsupported" THEN "unsupported"
    ELSE IF V = Slot /\ a[0].rec.generation = a[1].rec.generation
                     /\ a[0].rec # a[1].rec THEN "security"
    ELSE IF V # {} THEN "ok"
    ELSE IF \E i \in Slot : i \in u \/ a[i].kind # "absent" THEN "corrupt"
    ELSE IF l.ok THEN "ok" ELSE "corrupt"

\* The record load_current hands out when LoadStatus is "ok".
LoadRecord(a, l, u) ==
    LET i == SelectedSlot(a, u) IN
    IF i = NoSlot THEN LegacyRecord(l) ELSE a[i].rec

----------------------------------------------------------------------------
(* twep_acceptance_commit: the checks, the new record and its slot.        *)

Known(cur) == {c \in Component : cur.sequences[c] # Unknown}

(***************************************************************************)
(* encode_updated: strictly newer sequence, and room for a new component.  *)
(* (The 4096-byte limit of the encoding is the same refusal and is         *)
(* represented by MaxComponents.)                                          *)
(***************************************************************************)
EncodeStatus(cur, comp, seq) ==
    IF seq <= cur.sequences[comp] THEN "conflict"
    ELSE IF comp \notin Known(cur) /\ Cardinality(Known(cur)) = MaxComponents
    THEN "excess" ELSE "ok"

MutWrongComponent(cur, comp, seq, digest) ==
    [cur EXCEPT !.generation = @ + 1, !.digest = digest]

UpdatedRecord(cur, comp, seq, digest) ==
    [generation |-> cur.generation + 1,
     sequences  |-> [cur.sequences EXCEPT ![comp] = seq],
     digest     |-> digest]

MutNoOverflowCheck(load, cur, comp, seq, digest, expected) ==
    IF seq = 0 THEN "bad_parameters"
    ELSE IF load # "ok" THEN load
    ELSE IF cur.generation # expected THEN "conflict"
    ELSE IF cur.digest = digest THEN "conflict"
    ELSE EncodeStatus(cur, comp, seq)

MutNoDigestCheck(load, cur, comp, seq, digest, expected) ==
    IF seq = 0 THEN "bad_parameters"
    ELSE IF load # "ok" THEN load
    ELSE IF cur.generation # expected THEN "conflict"
    ELSE IF cur.generation = MaxGeneration THEN "overflow"
    ELSE EncodeStatus(cur, comp, seq)

\* The checks of twep_acceptance_commit; load and cur are load_current's answer.
AcceptanceStatus(load, cur, comp, seq, digest, expected) ==
    IF seq = 0 THEN "bad_parameters"
    ELSE IF load # "ok" THEN load
    ELSE IF cur.generation # expected THEN "conflict"
    ELSE IF cur.generation = MaxGeneration THEN "overflow"
    ELSE IF cur.digest = digest THEN "conflict"
    ELSE EncodeStatus(cur, comp, seq)

MutSameSlot(active) == IF active = 1 THEN 1 ELSE 0

\* The slot that is not active; slot 0 when none is.
TargetSlot(active) == IF active = 0 THEN 1 ELSE 0

============================================================================
