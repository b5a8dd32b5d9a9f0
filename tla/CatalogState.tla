---------------------------- MODULE CatalogState ----------------------------
(***************************************************************************)
(* The D047 protected Catalog (second half of acceptance_state.c): two     *)
(* slots, of which the active one is the slot whose sequence equals the    *)
(* accepted sequence of the Catalog component in the D043 record.          *)
(***************************************************************************)
EXTENDS AcceptanceState

CONSTANTS
    Payloads,   \* Catalog documents and application binaries
    NoPayload   \* nothing stored

ASSUME PayloadsDistinct == NoPayload \notin Payloads

\* struct catalog_state; a payload stands for its bytes and their SHA-256.
CatalogRecord ==
    [generation : 0..MaxGeneration,
     sequence   : 0..MaxSequence,
     payload    : Payloads \cup {NoPayload}]

CatalogObject == [kind : ObjectKind, rec : CatalogRecord]

NoCatalogRecord == [generation |-> 0, sequence |-> 0, payload |-> NoPayload]

MissingCatalog == [kind |-> "absent", rec |-> NoCatalogRecord]
TornCatalog == [kind |-> "torn", rec |-> NoCatalogRecord]

----------------------------------------------------------------------------
\* The complete slots that carry the accepted sequence.
MatchingCatalogs(c, accepted) ==
    {i \in Slot : c[i].kind = "valid" /\ c[i].rec.sequence = accepted}

\* load_active_catalog's choice among the matching slots.
ActiveCatalogSlot(c, accepted) ==
    LET M == MatchingCatalogs(c, accepted) IN
    IF M = {} THEN NoSlot
    ELSE IF 1 \in M /\ (0 \in M => c[1].rec.generation > c[0].rec.generation)
    THEN 1 ELSE 0

\* load_active_catalog's result, once load_current has succeeded.
CatalogLoadStatus(c, accepted) ==
    LET M == MatchingCatalogs(c, accepted) IN
    IF accepted = Unknown THEN "not_found"
    ELSE IF \E i \in Slot : c[i].kind = "unsupported" THEN "unsupported"
    ELSE IF M = {} THEN IF \E i \in Slot : c[i].kind # "absent"
                        THEN "corrupt" ELSE "not_found"
    ELSE IF M = Slot /\ c[0].rec.payload # c[1].rec.payload THEN "security"
    ELSE "ok"

\* The bytes twep_catalog_read_active returns.
ActiveCatalog(c, accepted) ==
    IF CatalogLoadStatus(c, accepted) = "ok"
    THEN c[ActiveCatalogSlot(c, accepted)].rec.payload
    ELSE NoPayload

MutCatalogOverwritesActive(c, accepted) ==
    IF accepted = Unknown THEN 0 ELSE ActiveCatalogSlot(c, accepted)

\* The slot twep_catalog_commit stages into.
CatalogTarget(c, accepted) ==
    IF accepted = Unknown THEN 0 ELSE TargetSlot(ActiveCatalogSlot(c, accepted))

(***************************************************************************)
(* The checks of twep_catalog_commit before anything is written; sha is    *)
(* the digest supplied with the payload, load and cur what load_current    *)
(* returned.  A known component needs a readable active Catalog.           *)
(***************************************************************************)
CatalogStatus(c, load, cur, seq, expected, payload, sha) ==
    LET accepted == cur.sequences[Catalog] IN
    IF seq = 0 \/ expected = MaxGeneration THEN "bad_parameters"
    ELSE IF sha # payload THEN "security"
    ELSE IF load # "ok" THEN load
    ELSE IF cur.generation # expected THEN "conflict"
    ELSE IF accepted = Unknown THEN "ok"
    ELSE IF seq <= accepted THEN "conflict"
    ELSE CatalogLoadStatus(c, accepted)

\* encode_catalog_record.
StagedCatalog(seq, expected, payload) ==
    [generation |-> expected + 1, sequence |-> seq, payload |-> payload]

============================================================================
