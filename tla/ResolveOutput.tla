--------------------------- MODULE ResolveOutput ---------------------------
(***************************************************************************)
(* What the two runtimes make of one output of the TEEP Agent.  The Agent  *)
(* is the same binary on Linux and in the TA, and answers a resolve        *)
(* request with a CBOR map: a status, an error map or an app map, in it    *)
(* the digest and the resource limits that the Catalog gives.  The REE     *)
(* runtime reads it with parse_teep_resolve_output; the TA runs            *)
(* teep_output_is_need_host_io, parse_teep_error_output and                *)
(* parse_teep_resource_limits_output over it, one after the other.         *)
(*                                                                         *)
(* An action is one pair of the output, read by all of them.  A pair that  *)
(* every reader skips is no action; one that none can skip is Malformed.   *)
(* The REE's twep_wr_cbor_* and the TA's cbor_* functions do not accept    *)
(* the same CBOR: LongHead and Skip are what only one side reads.          *)
(***************************************************************************)
EXTENDS Naturals

CONSTANTS
    Digests,        \* values of sha256
    Codes,          \* error codes of the Agent
    TextFields,     \* command, component_id, version, abi, wasm_file
    LimitFields,    \* stack_bytes, heap_bytes, max_output_bytes
    ReeDefault,     \* apply_default_resource_limits, for each of them
    ReeMax,         \* TWEP_WR_GLOBAL_MAX_...
    TaMax,          \* PRODUCTION_..., which is also the default of the TA
    MaxUint32, MaxInt32,
    Values,         \* the limits and timeouts tried
    PerMs,          \* instructions per millisecond: 100000
    FallbackTimeout,\* 5000 ms
    MaxDepth,       \* nesting that cbor_skip_item of the TA follows: 8
    Depths,         \* nestings of skipped values tried
    Bad             \* a value of the wrong type, length or range

ASSUME LimitsAssumption ==
    /\ MaxUint32 \in Nat \ {0} /\ MaxInt32 \in Nat \ {0}
    /\ Values \subseteq 0..MaxUint32
    /\ ReeMax \in [LimitFields -> 1..MaxUint32]
    /\ TaMax \in [LimitFields -> 1..MaxUint32]
    /\ ReeDefault \in [LimitFields -> 1..MaxUint32]
    /\ PerMs \in Nat \ {0} /\ FallbackTimeout \in 1..MaxUint32
    /\ MaxDepth \in Nat /\ Depths \subseteq Nat
ASSUME BadAssumption ==
    /\ Bad \notin Digests /\ Bad \notin Codes /\ Bad \notin 0..MaxUint32
    /\ Bad \notin {"ok", "error", "other"}
    /\ "sha256" \notin TextFields

AppFields == TextFields \cup {"sha256"}
TEEPStatus == {"OK", "CATALOG", "SECURITY", "TEEP_NETWORK", "TEEP_ATTESTATION_UNSUPPORTED", "TEEP"}
Limits == [LimitFields -> 0..MaxUint32]

VARIABLES
    at,       \* the map whose pairs are read: top, error, app, limits; or end
    ree,      \* parse_teep_resolve_output
    taError,  \* parse_teep_error_output
    taApp,    \* parse_teep_resource_limits_output
    need,     \* teep_output_is_need_host_io
    verdict,  \* what the TA goes on with
    keys,     \* the keys status, error and app of the output read so far
    repeated, \* one of them was read twice
    uneven    \* what only one runtime's CBOR functions accept: a head, a value

vars == <<at, ree, taError, taApp, need, verdict, keys, repeated, uneven>>

Readers ==
    [status : TEEPStatus \cup {"reading"}, ok : BOOLEAN, error : BOOLEAN, app : BOOLEAN,
     errorStatus : TEEPStatus \ {"OK"}, haveCode : BOOLEAN, have : SUBSET AppFields,
     digest : Digests \cup {Bad}, limits : Limits, timeout : 0..MaxUint32]
ErrorReaders == [bad : BOOLEAN, error : BOOLEAN, code : Codes \cup {Bad}, message : BOOLEAN]
AppReaders == [bad : BOOLEAN, ok : BOOLEAN, app : BOOLEAN, digest : Digests \cup {Bad},
               limits : Limits, timeout : 0..MaxUint32]

TypeOK ==
    /\ at \in {"top", "error", "app", "limits", "end"}
    /\ ree \in Readers /\ taError \in ErrorReaders /\ taApp \in AppReaders
    /\ need \in {"no", "yes", "refused"}
    /\ verdict \in {"reading", "need", "error", "run", "BAD_FORMAT", "trailing"}
    /\ keys \subseteq {"status", "error", "app"} /\ repeated \in BOOLEAN
    /\ uneven \subseteq {"head", "value"}

ReeFresh == [status |-> "reading", ok |-> FALSE, error |-> FALSE, app |-> FALSE,
             errorStatus |-> "TEEP", haveCode |-> FALSE, have |-> {}, digest |-> Bad,
             limits |-> ReeDefault, timeout |-> 0]
ErrorFresh == [bad |-> FALSE, error |-> FALSE, code |-> Bad, message |-> FALSE]
AppFresh == [bad |-> FALSE, ok |-> FALSE, app |-> FALSE, digest |-> Bad,
             limits |-> TaMax, timeout |-> 0]

Init ==
    /\ at = "top" /\ verdict = "reading"
    /\ ree = ReeFresh /\ taError = ErrorFresh /\ taApp = AppFresh
    /\ need = "no" /\ keys = {} /\ repeated = FALSE /\ uneven = {}

----------------------------------------------------------------------------
(* The readers.                                                            *)

teep_error_status_from_code(code) ==
    CASE code \in {"catalog.not_found", "catalog.invalid"} -> "CATALOG"
      [] code = "app.hash_mismatch" -> "SECURITY"
      [] code = "teep.network" -> "TEEP_NETWORK"
      [] code = "teep.attestation_unsupported" -> "TEEP_ATTESTATION_UNSUPPORTED"
      [] OTHER -> "TEEP"

MutClamped(limits, max) ==
    [f \in LimitFields |-> IF limits[f] > max[f] THEN max[f] ELSE limits[f]]

\* clamp_resource_limits, production_resource_limits_clamp: 0 and everything above
\* the maximum become the maximum.
Clamped(limits, max) ==
    [f \in LimitFields |-> IF limits[f] = 0 \/ limits[f] > max[f] THEN max[f] ELSE limits[f]]

\* A reader that has refused the output has returned: nothing that follows changes it.
Refused == [ReeFresh EXCEPT !.status = "TEEP"]
ErrorRefused == [ErrorFresh EXCEPT !.bad = TRUE]
AppRefused == [AppFresh EXCEPT !.bad = TRUE]

Read(new) == ree' = IF ree.status = "reading" THEN new ELSE ree
ReadError(new) == taError' = IF taError.bad THEN taError ELSE new
ReadApp(new) == taApp' = IF taApp.bad THEN taApp ELSE new

Key(k) == /\ at = "top"
          /\ keys' = keys \cup {k}
          /\ repeated' = (repeated \/ k \in keys)

Status(v) ==
    /\ Key("status")
    /\ Read(CASE v = "ok" -> [ree EXCEPT !.ok = TRUE]
              [] v = "error" -> [ree EXCEPT !.error = TRUE]
              [] OTHER -> Refused)
    /\ ReadError(IF v = Bad THEN ErrorRefused
                  ELSE [taError EXCEPT !.error = (v = "error")])
    /\ ReadApp(IF v = Bad THEN AppRefused
                ELSE [taApp EXCEPT !.ok = (v = "ok")])
    /\ UNCHANGED <<at, need, verdict, uneven>>

NeedHostIo ==
    /\ at = "top"
    /\ need' = IF need = "refused" THEN need ELSE "yes"
    /\ UNCHANGED <<at, ree, taError, taApp, verdict, keys, repeated, uneven>>

EnterError ==
    /\ Key("error")
    /\ at' = "error"
    /\ Read([ree EXCEPT !.haveCode = FALSE])
    /\ UNCHANGED <<taError, taApp, need, verdict, uneven>>

Code(c) ==
    /\ at = "error"
    /\ Read(IF c = Bad THEN Refused
            ELSE [ree EXCEPT !.errorStatus = teep_error_status_from_code(c), !.haveCode = TRUE])
    /\ ReadError(IF c = Bad THEN ErrorRefused ELSE [taError EXCEPT !.code = c])
    /\ UNCHANGED <<at, taApp, need, verdict, keys, repeated, uneven>>

\* The REE skips the message, and so it may be of any type; the TA needs a text.
Message(text) ==
    /\ at = "error"
    /\ ReadError(IF text THEN [taError EXCEPT !.message = TRUE] ELSE ErrorRefused)
    /\ UNCHANGED <<at, ree, taApp, need, verdict, keys, repeated, uneven>>

LeaveError ==
    /\ at = "error"
    /\ at' = "top"
    /\ Read(IF ree.haveCode THEN ree ELSE Refused)
    /\ UNCHANGED <<taError, taApp, need, verdict, keys, repeated, uneven>>

EnterApp ==
    /\ Key("app")
    /\ at' = "app"
    /\ Read([ree EXCEPT !.have = {}])
    /\ ReadApp([taApp EXCEPT !.app = TRUE])
    /\ UNCHANGED <<taError, need, verdict, uneven>>

\* command, component_id, version, abi, wasm_file: the TA skips them, the REE
\* refuses a value that is not the one it expects.
AppField(f, good) ==
    /\ at = "app"
    /\ Read(IF good THEN [ree EXCEPT !.have = @ \cup {f}] ELSE Refused)
    /\ UNCHANGED <<at, taError, taApp, need, verdict, keys, repeated, uneven>>

Sha256(d) ==
    /\ at = "app"
    /\ Read(IF d = Bad THEN Refused
            ELSE [ree EXCEPT !.digest = d, !.have = @ \cup {"sha256"}])
    /\ ReadApp(IF d = Bad THEN AppRefused ELSE [taApp EXCEPT !.digest = d])
    /\ UNCHANGED <<at, taError, need, verdict, keys, repeated, uneven>>

MutComplete(r) == AppFields \ {"sha256"} \subseteq r.have

\* Every field is required.
Complete(r) == r.have = AppFields

LeaveApp ==
    /\ at = "app"
    /\ at' = "top"
    /\ Read(IF Complete(ree) THEN [ree EXCEPT !.app = TRUE] ELSE Refused)
    /\ UNCHANGED <<taError, taApp, need, verdict, keys, repeated, uneven>>

EnterLimits ==
    /\ at = "app"
    /\ at' = "limits"
    /\ UNCHANGED <<ree, taError, taApp, need, verdict, keys, repeated, uneven>>

Limit(f, v) ==
    /\ at = "limits"
    /\ Read(IF v = Bad THEN Refused ELSE [ree EXCEPT !.limits[f] = v])
    /\ ReadApp(IF v = Bad THEN AppRefused ELSE [taApp EXCEPT !.limits[f] = v])
    /\ UNCHANGED <<at, taError, need, verdict, keys, repeated, uneven>>

Timeout(v) ==
    /\ at = "limits"
    /\ Read(IF v = Bad THEN Refused ELSE [ree EXCEPT !.timeout = v])
    /\ ReadApp(IF v = Bad THEN AppRefused ELSE [taApp EXCEPT !.timeout = v])
    /\ UNCHANGED <<at, taError, need, verdict, keys, repeated, uneven>>

\* The TA clamps at the end of the map, the REE at the end of the output.
LeaveLimits ==
    /\ at = "limits"
    /\ at' = "app"
    /\ ReadApp([taApp EXCEPT !.limits = Clamped(@, TaMax)])
    /\ UNCHANGED <<ree, taError, need, verdict, keys, repeated, uneven>>

\* The value of error, app or resource_limits is not a map.  A reader that does not
\* look into it skips it.
NotAMap(k) ==
    /\ IF k = "resource_limits"
       THEN at = "app" /\ UNCHANGED <<keys, repeated>>
       ELSE Key(k)
    /\ Read(Refused)
    /\ ReadError(IF k = "error" THEN ErrorRefused ELSE taError)
    /\ ReadApp(IF k = "error" THEN taApp ELSE AppRefused)
    /\ UNCHANGED <<at, need, verdict, uneven>>

\* A key of an inner map is not a text.  A reader that does not look into it skips it.
KeyNotText ==
    /\ at \in {"error", "app", "limits"}
    /\ Read(Refused)
    /\ ReadError(IF at = "error" THEN ErrorRefused ELSE taError)
    /\ ReadApp(IF at = "error" THEN taApp ELSE AppRefused)
    /\ UNCHANGED <<at, need, verdict, keys, repeated, uneven>>

\* A head of the next pair has an 8-byte argument: cbor_read_len takes it,
\* twep_wr_cbor_read_head does not.
LongHead ==
    /\ at # "end"
    /\ Read(Refused)
    /\ uneven' = uneven \cup {"head"}
    /\ UNCHANGED <<at, taError, taApp, need, verdict, keys, repeated>>

\* The maps around a pair that a reader of the TA skips whole, as deep as they nest.
NeedLevel == [top |-> 0, error |-> 1, app |-> 1, limits |-> 2]
ErrorLevel == [top |-> 0, error |-> 0, app |-> 1, limits |-> 2]
AppLevel == [top |-> 0, error |-> 1, app |-> 0, limits |-> 0]

\* A value nested depth deep that twep_wr_cbor_skip_value passes over: it knows no depth
\* and takes every simple value and float.  cbor_skip_item takes false, true, null and
\* undefined (plain), down to MaxDepth.
Skip(depth, plain) ==
    LET Refuses(level) == ~plain \/ level[at] + depth > MaxDepth
    IN  /\ at # "end"
        /\ ReadError(IF Refuses(ErrorLevel) THEN ErrorRefused ELSE taError)
        /\ ReadApp(IF Refuses(AppLevel) THEN AppRefused ELSE taApp)
        /\ need' = IF Refuses(NeedLevel) THEN "refused" ELSE need
        /\ uneven' = IF Refuses(AppLevel) THEN uneven \cup {"value"} ELSE uneven
        /\ UNCHANGED <<at, ree, verdict, keys, repeated>>

\* A key of the output that is not a text, or a value that no reader can skip.
Malformed ==
    /\ at # "end"
    /\ at' = "end"
    /\ Read(Refused)
    /\ ReadError(ErrorRefused)
    /\ ReadApp(AppRefused)
    /\ verdict' = "BAD_FORMAT"
    /\ UNCHANGED <<need, keys, repeated, uneven>>

----------------------------------------------------------------------------
(* The end of the output, after which only the TA looks for more bytes.    *)

EndStatus ==
    CASE ree.ok /\ ree.app -> "OK"
      [] ~(ree.ok /\ ree.app) /\ ree.error -> ree.errorStatus
      [] OTHER -> "TEEP"

ErrorRead == ~taError.bad /\ taError.error /\ taError.code # Bad /\ taError.message
AppRead == ~taApp.bad /\ taApp.ok /\ taApp.app /\ taApp.digest # Bad

\* twep_ta_cmd_production_envelope, resume_pending_teep_live: the readers in turn.  Bytes
\* after the map are BAD_FORMAT too.
EndVerdict(trailing) ==
    CASE trailing -> "trailing"
      [] ~trailing /\ need = "yes" -> "need"
      [] ~trailing /\ need # "yes" /\ ErrorRead -> "error"
      [] ~trailing /\ need # "yes" /\ ~ErrorRead /\ AppRead -> "run"
      [] OTHER -> "BAD_FORMAT"

End(trailing) ==
    /\ at = "top"
    /\ at' = "end"
    /\ Read([ree EXCEPT !.status = EndStatus,
                        !.limits = IF EndStatus = "OK" THEN Clamped(@, ReeMax) ELSE @])
    /\ verdict' = EndVerdict(trailing)
    /\ UNCHANGED <<taError, taApp, need, keys, repeated, uneven>>

\* The runtimes take the next output, of another request.
Again ==
    /\ at = "end"
    /\ at' = "top" /\ verdict' = "reading"
    /\ ree' = ReeFresh /\ taError' = ErrorFresh /\ taApp' = AppFresh
    /\ need' = "no" /\ keys' = {} /\ repeated' = FALSE /\ uneven' = {}

Next ==
    \/ \E v \in {"ok", "error", "other", Bad} : Status(v)
    \/ NeedHostIo
    \/ EnterError \/ LeaveError
    \/ \E c \in Codes \cup {Bad} : Code(c)
    \/ \E text \in BOOLEAN : Message(text)
    \/ EnterApp \/ LeaveApp
    \/ \E f \in TextFields, good \in BOOLEAN : AppField(f, good)
    \/ \E d \in Digests \cup {Bad} : Sha256(d)
    \/ EnterLimits \/ LeaveLimits
    \/ \E f \in LimitFields, v \in Values \cup {Bad} : Limit(f, v)
    \/ \E v \in Values \cup {Bad} : Timeout(v)
    \/ \E k \in {"error", "app", "resource_limits"} : NotAMap(k)
    \/ KeyNotText \/ LongHead
    \/ \E depth \in Depths, plain \in BOOLEAN : Skip(depth, plain)
    \/ Malformed
    \/ \E trailing \in BOOLEAN : End(trailing)
    \/ Again

Spec == Init /\ [][Next]_vars

----------------------------------------------------------------------------
(* The instruction budget of the app that runs with these limits, where    *)
(* the daemon was configured with a default timeout and the request asks   *)
(* for one; 0 is none.                                                     *)

Capped(budget) == IF budget > MaxInt32 THEN MaxInt32 ELSE budget

\* twep_wr_create: 0 is 5000 ms.
DefaultTimeout(default) == IF default = 0 THEN FallbackTimeout ELSE default

\* A request may shorten the timeout.
Shortened(upper, request) == IF request # 0 /\ request < upper THEN request ELSE upper

\* twep_wr_run_app_wasm and apply_instruction_budget of the REE.
ReeBudget(timeout, default, request) ==
    LET upper == Shortened(IF timeout = 0 THEN DefaultTimeout(default) ELSE timeout, request)
    IN  Capped((IF upper = 0 THEN FallbackTimeout ELSE upper) * PerMs)

\* twep_optee_execute: a request without a timeout carries the client's default.
SentTimeout(default, request) == IF request = 0 THEN DefaultTimeout(default) ELSE request

\* twep_ta_apply_instruction_budget.  The client sends no INIT, so the session's default
\* stays what twep_ta_session_open sets.
TaBudget(timeout, default, request) ==
    Capped(Shortened(IF timeout = 0 THEN FallbackTimeout ELSE timeout,
                     SentTimeout(default, request)) * PerMs)

----------------------------------------------------------------------------
(* Both runtimes are driven by the same Agent.                             *)

Ended == at = "end"

\* What the REE accepts, the TA runs, with the digest that the REE checks: no app
\* is installed by one runtime and refused, or taken for another, by the other.  Only
\* the TA refuses bytes after the map and a float or a deep value to skip (SkippedAlike),
\* and only it waits for a host I/O.
ResolvedAlike ==
    (Ended /\ ~repeated /\ "value" \notin uneven /\ ree.status = "OK"
       /\ verdict \notin {"need", "trailing"}) =>
        verdict = "run" /\ taApp.digest = ree.digest

\* The TA runs no other app than the REE, whatever it had to skip.
SameApp ==
    (Ended /\ ree.status = "OK" /\ verdict = "run") => taApp.digest = ree.digest

\* An error that the TA passes on is the one the REE would report, unless an app map
\* comes with it, which the REE reads too and may refuse, or an 8-byte head.
ErrorsAlike ==
    (Ended /\ ~repeated /\ "app" \notin keys /\ "head" \notin uneven /\ verdict = "error") =>
        ree.status = teep_error_status_from_code(taError.code)

\* One output means the same to both runtimes as far as the CBOR functions of both accept
\* it: an app that the REE runs is one that the TA runs, by the same digest, and an error is
\* the same error (parse_teep_resolve_output, the TA's three passes over the output).
ReadAlike == ResolvedAlike /\ SameApp /\ ErrorsAlike

\* What the REE accepts the TA runs, whatever there is to skip: does not hold, since the
\* Agent copies members of the Catalog that neither looks at (SkippedAlike.cfg).
SkippedAlike ==
    (Ended /\ ~repeated /\ ree.status = "OK" /\ verdict \notin {"need", "trailing"}) =>
        verdict = "run"

\* Whatever the Catalog says, an app runs within the maxima of its runtime, and with
\* some memory and some output (docs/Security.md, resource limits).
LimitsBounded ==
    Ended => \A f \in LimitFields :
        /\ ree.status = "OK" => ree.limits[f] \in 1..ReeMax[f]
        /\ verdict = "run" => taApp.limits[f] \in 1..TaMax[f]

\* An app that both would run gets a budget from both, never none, never more than the
\* Catalog's timeout allows or than the request asks for, nor than the default without
\* these; and it is the same budget where the Catalog and the request both give a
\* timeout (docs/Interface.md, timeout policy).
BudgetBounded ==
    (Ended /\ ree.status = "OK" /\ verdict = "run") =>
        \A default, request \in Values :
            LET onRee == ReeBudget(ree.timeout, default, request)
                onTa == TaBudget(taApp.timeout, default, request)
            IN  /\ \A budget \in {onRee, onTa} :
                     /\ budget \in 1..MaxInt32
                     /\ ree.timeout # 0 => budget <= ree.timeout * PerMs
                     /\ request # 0 => budget <= request * PerMs
                     /\ ree.timeout = 0 /\ request = 0 => budget <= DefaultTimeout(default) * PerMs
                /\ ree.timeout # 0 /\ request # 0 => onRee = onTa

\* The limits and the budget of an app are within bounds, whatever the Catalog, the
\* configuration and the request say.
WithinLimits == LimitsBounded /\ BudgetBounded

\* The same budget in both runtimes: does not hold.  The TA knows the client's default
\* only as a request timeout, which it then lets shorten the Catalog's, and replaces by
\* 5000 ms when the request has its own (SameBudget.cfg; docs/Interface.md:218).
SameBudget ==
    (Ended /\ ree.status = "OK" /\ verdict = "run") =>
        \A default, request \in Values :
            ReeBudget(ree.timeout, default, request) = TaBudget(taApp.timeout, default, request)

----------------------------------------------------------------------------
(* The inductive strengthening: what the readers agree on between two      *)
(* pairs of the output.                                                    *)

Reading == ree.status = "reading"

\* The position and the keys.
PlaceInv ==
    /\ at = "error" => "error" \in keys
    /\ at \in {"app", "limits"} => "app" \in keys
    /\ "app" \notin keys => ~ree.app /\ ~taApp.app
    /\ "status" \notin keys => ~ree.ok /\ ~ree.error /\ ~taError.error
    /\ "error" \notin keys => ~ree.haveCode /\ taError.code = Bad
    /\ at # "end" => ree.status \in {"reading", "TEEP"}

\* While the REE goes on, the TA has read the same app map, or has refused a value to skip.
AppAgrees ==
    at # "end" /\ Reading =>
        /\ "value" \notin uneven => ~taApp.bad
        /\ "sha256" \in ree.have => ree.digest # Bad
        /\ ree.app => ree.digest # Bad
        /\ ~repeated /\ ree.ok => ~taError.error
        /\ ~taApp.bad =>
              /\ taApp.digest = ree.digest /\ taApp.timeout = ree.timeout
              /\ at \in {"app", "limits"} \/ ree.app => taApp.app
              /\ ~repeated /\ ree.ok => taApp.ok

\* While the TA's error reader goes on, the REE has read the same error map, or has
\* refused an output that is no error to the TA either.
ErrorAgrees ==
    at # "end" /\ ~repeated /\ "app" \notin keys /\ "head" \notin uneven /\ ~taError.bad =>
        IF Reading
        THEN /\ ree.error <=> taError.error
             /\ ree.haveCode <=> taError.code # Bad
             /\ ree.haveCode => ree.errorStatus = teep_error_status_from_code(taError.code)
        ELSE \/ "status" \in keys /\ ~taError.error
             \/ "error" \in keys /\ at # "error" /\ taError.code = Bad

\* The TA's limits are clamped outside of the map that sets them.
ClampInv ==
    taApp.bad \/ at # "limits" =>
        \A f \in LimitFields : taApp.limits[f] \in 1..TaMax[f]

\* Only an output that has been read to its end gives limits to run with.
EndInv ==
    ree.status = "OK" \/ verdict = "run" => at = "end"

\* The readers of one output agree at every pair of it.
AgreeInv ==
    /\ TypeOK /\ PlaceInv /\ AppAgrees /\ ErrorAgrees /\ ClampInv /\ EndInv
    /\ ReadAlike /\ LimitsBounded
    /\ Ended /\ ree.status = "OK" /\ verdict = "run" => ree.timeout = taApp.timeout
=============================================================================
