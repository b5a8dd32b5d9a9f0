---------------------------- MODULE ProtectedApp ----------------------------
(***************************************************************************)
(* The one active protected application (protected_app.c): two slots, each *)
(* naming its own component.  A slot counts when its sequence is the       *)
(* accepted sequence of its component and its generation has been reached; *)
(* the newest such slot is active.                                         *)
(***************************************************************************)
EXTENDS CatalogState

CONSTANT NoComponent   \* no application component

ASSUME NoComponentDistinct == NoComponent \notin Component

\* struct app_state.
AppRecord ==
    [generation : 0..MaxGeneration,
     sequence   : 0..MaxSequence,
     component  : Apps \cup {NoComponent},
     payload    : Payloads \cup {NoPayload}]

AppObject == [kind : ObjectKind \ {"unsupported"}, rec : AppRecord]

NoAppRecord == [generation |-> 0, sequence |-> 0,
                component |-> NoComponent, payload |-> NoPayload]

MissingApp == [kind |-> "absent", rec |-> NoAppRecord]
TornApp == [kind |-> "torn", rec |-> NoAppRecord]

----------------------------------------------------------------------------
\* The slots load_active_app considers.
MatchingApps(p, cur) ==
    {i \in Slot :
        /\ p[i].kind = "valid"
        /\ cur.sequences[p[i].rec.component] = p[i].rec.sequence
        /\ cur.generation >= p[i].rec.generation}

ActiveAppSlot(p, cur) ==
    LET M == MatchingApps(p, cur) IN
    IF M = {} THEN NoSlot
    ELSE IF 1 \in M /\ (0 \in M => p[1].rec.generation > p[0].rec.generation)
    THEN 1 ELSE 0

AppLoadStatus(p, cur) ==
    IF MatchingApps(p, cur) = {}
    THEN IF \E i \in Slot : p[i].kind # "absent" THEN "corrupt" ELSE "not_found"
    ELSE IF /\ p[0].kind = "valid" /\ p[1].kind = "valid"
            /\ p[0].rec.generation = p[1].rec.generation
            /\ p[0].rec # p[1].rec THEN "security"
    ELSE "ok"

\* What twep_app_read_active returns, with the component it belongs to.
ActiveApp(p, cur) ==
    IF AppLoadStatus(p, cur) = "ok"
    THEN LET r == p[ActiveAppSlot(p, cur)].rec IN
         [component |-> r.component, payload |-> r.payload]
    ELSE [component |-> NoComponent, payload |-> NoPayload]

MutAppSlotZero(p, cur) == 0

\* The slot twep_app_commit stages into; slot 0 when no slot is active.
AppTarget(p, cur) ==
    IF AppLoadStatus(p, cur) = "ok" THEN TargetSlot(ActiveAppSlot(p, cur)) ELSE 0

\* The checks of twep_app_commit before anything is written.
AppStatus(p, load, cur, comp, seq, expected, payload, sha) ==
    IF seq = 0 \/ expected = MaxGeneration THEN "bad_parameters"
    ELSE IF sha # payload THEN "security"
    ELSE IF load # "ok" THEN load
    ELSE IF cur.generation # expected THEN "conflict"
    ELSE IF seq <= cur.sequences[comp] THEN "conflict"
    ELSE IF AppLoadStatus(p, cur) = "security" THEN "security"
    ELSE "ok"

StagedApp(comp, seq, expected, payload) ==
    [generation |-> expected + 1, sequence |-> seq,
     component |-> comp, payload |-> payload]

============================================================================
