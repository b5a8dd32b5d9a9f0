------------------------------ MODULE Messages ------------------------------
(***************************************************************************)
(* The CBOR messages between the REE, the TA and the Agent.  Each is built *)
(* by a function that first computes the length of the message (Reserved), *)
(* gets or checks a buffer of that length, and then writes the message     *)
(* item by item (Items) without looking at the buffer's end again.  The    *)
(* TA returns the computed length to its caller, the REE what it wrote.    *)
(* The receiver then reads the message pair by pair and needs to come out  *)
(* exactly at its end.                                                     *)
(*                                                                         *)
(* An item is known by its kind and its length; its bytes are left out.    *)
(***************************************************************************)
EXTENDS Integers, Sequences

CONSTANT Lengths   \* for each builder: what the texts, byte strings and numbers that it
                   \* is given may have as lengths and values, field by field

----------------------------------------------------------------------------
(* Items.                                                                  *)

Map(n) == [kind |-> "map", n |-> n]
Key(s) == [kind |-> "key", s |-> s]        \* a literal text, of any length
Short(s) == [kind |-> "short", s |-> s]    \* write_text of the REE: 23 bytes or nothing
One == [kind |-> "one"]                    \* an unsigned number below 24
Flag == [kind |-> "flag"]                  \* true or false
Text(f) == [kind |-> "text", f |-> f]
Bytes(f) == [kind |-> "bytes", f |-> f]
Uint(f) == [kind |-> "uint", f |-> f]
Digest == [kind |-> "digest"]

\* Two texts of the responses, by a name of their own.
NoText == ""
LimitText == "resource limit exceeded"

MutTypeLenSize(n) == IF n <= 24 THEN 1 ELSE IF n <= 255 THEN 2 ELSE IF n <= 65535 THEN 3 ELSE 5

\* cbor_type_len_size of the REE and of the TA, cbor_len_size, type_len_size, for
\* numbers of 32 bits.
TypeLenSize(n) == IF n < 24 THEN 1 ELSE IF n <= 255 THEN 2 ELSE IF n <= 65535 THEN 3 ELSE 5

\* The bytes that write_type_len, cbor_write_type_len advance the pointer by.
HeadWritten(n) == IF n < 24 THEN 1 ELSE IF n <= 255 THEN 2 ELSE IF n <= 65535 THEN 3 ELSE 5

\* A negative return code is written as -1 - n.
Magnitude(n) == IF n < 0 THEN -1 - n ELSE n

Written(item, l) ==
    CASE item.kind = "key" -> HeadWritten(Len(item.s)) + Len(item.s)
      [] item.kind = "short" -> IF Len(item.s) > 23 THEN 0 ELSE 1 + Len(item.s)
      [] item.kind \in {"text", "bytes"} -> HeadWritten(l[item.f]) + l[item.f]
      [] item.kind = "uint" -> HeadWritten(Magnitude(l[item.f]))
      [] item.kind = "digest" -> HeadWritten(32) + 32
      [] OTHER -> 1

----------------------------------------------------------------------------
(* The error of an application, by its return code.                        *)

AppError(status) ==
    CASE status = 1 -> <<"app.input_cbor", "invalid input">>
      [] status = 2 -> <<"app.invalid_argument", "invalid argument">>
      [] status = 3 -> <<"app.output_generation", "output generation error">>
      [] status = 4 -> <<"app.no_memory", "no memory">>
      [] status = 5 -> <<"app.unsupported_command", "unsupported command">>
      [] status = 6 -> <<"app.unsupported_format", "unsupported format">>
      [] status = 7 -> <<"app.resource_limit", "resource limit exceeded">>
      [] status = 127 -> <<"app.internal", "internal app error">>
      [] OTHER -> <<"app.runtime", "runtime error">>

ReeBuilders == {"make_response", "make_app_error_response", "make_teep_resolve_input",
                "make_execute_envelope", "make_http_post_result", "make_create_evidence_result",
                "make_resume_envelope"}
TaBuilders == {"build_execute_response", "build_final_response_wrapper",
               "build_teep_error_execute_response", "build_app_runtime_error_execute_response",
               "build_teep_resolve_input_for_command", "build_need_host_io_response",
               "build_need_evidence_response_with_payload"}
Builders == ReeBuilders \cup TaBuilders

----------------------------------------------------------------------------
(* What each builder writes, in its order.                                 *)

\* These keys have at most 23 bytes: the write_text of the REE and of the TA write them alike.
Ok ==
    <<Map(6), Key("schema_version"), One, Key("request_id"), Text("request_id"),
      Key("status"), Key("ok"), Key("exit_code"), One, Key("stdout"), Bytes("stdout"),
      Key("app_output"), Bytes("app_output")>>

Error ==
    <<Map(5), Key("schema_version"), One, Key("request_id"), Text("request_id"),
      Key("status"), Key("error"), Key("exit_code"), One, Key("error"), Map(3)>>

NeedHostIo(io_id, kind) ==
    <<Map(3), Key("schema_version"), One, Key("request_id"), Text("request_id"),
      Key("need_host_io"), Map(7), Key("io_id"), io_id, Key("kind"), Key(kind)>>

NeedDigests ==
    <<Key("sequence"), One, Key("request_body_sha256"), Digest,
      Key("normalized_input_sha256"), Digest>>

make_app_error_response(l) ==
    Error \o
    <<Short("code"), Short(AppError(l.return_code)[1]),
      Short("message"), Short(AppError(l.return_code)[2]), Short("details"), Map(3),
      Short("return_code"), Uint("return_code"), Short("command"), Text("command"),
      Short("wasm_file"), Text("wasm_file")>>

build_teep_error_execute_response ==
    Error \o
    <<Key("code"), Text("code"), Key("message"), Text("message"), Key("details"), Map(3),
      Key("source"), Key("teep-agent"), Key("teep_code"), Text("code"),
      Key("command"), Text("command")>>

build_app_runtime_error_execute_response ==
    Error \o
    <<Key("code"), Key("app.resource_limit"), Key("message"), Key(LimitText),
      Key("details"), Map(3), Key("source"), Key("app-runtime"), Key("command"),
      Text("command"), Key("reason"), Key("max_output_bytes")>>

build_final_response_wrapper ==
    <<Map(3), Key("schema_version"), One, Key("request_id"), Text("request_id"),
      Key("final_response_cbor"), Bytes("final_response_cbor")>>

build_need_host_io_response ==
    NeedHostIo(Text("io_id"), "http_post") \o
    <<Key("url"), Text("url"), Key("body"), Bytes("body")>> \o NeedDigests

build_need_evidence_response_with_payload ==
    NeedHostIo(Key("teep-evidence-1"), "create_evidence") \o
    <<Key("challenge"), Bytes("challenge"), Key("agent_public_key_cose"),
      Bytes("agent_public_key_cose")>> \o NeedDigests

make_teep_resolve_input ==
    <<Map(6), Short("schema_version"), One, Short("command"), Short("resolve_app"),
      Short("target_command"), Text("target_command"), Short("resolver_mode"),
      Text("resolver_mode"), Short("state_dir"), Text("state_dir"),
      Short("attestam_url"), Text("attestam_url")>>

build_teep_resolve_input_for_command ==
    <<Map(6), Key("schema_version"), One, Key("command"), Key("resolve_app"),
      Key("target_command"), Text("target_command"), Key("resolver_mode"),
      Text("resolver_mode"), Key("state_dir"), Key(NoText),
      Key("attestam_url"), Text("attestam_url")>>

make_execute_envelope ==
    <<Map(11), Key("request_id"), Text("request_id"), Key("command"), Text("command"),
      Key("resolver_mode"), Text("resolver_mode"), Key("attestam_url"), Text("attestam_url"),
      Key("insecure"), Flag, Key("app_input_cbor"), Bytes("app_input_cbor"),
      Key("request_timeout_ms"), Uint("request_timeout_ms"),
      Key("wasm_bytes"), Bytes("wasm_bytes"), Key("catalog_cbor"), Bytes("catalog_cbor"),
      Key("app_wasm_bytes"), Bytes("app_wasm_bytes"),
      Key("dev_agent_public_key_cbor"), Bytes("dev_agent_public_key_cbor")>>

make_resume_envelope ==
    <<Map(2), Key("request_id"), Text("request_id"),
      Key("host_io_result_cbor"), Bytes("host_io_result_cbor")>>

make_host_io_result_cbor(kind, result_key) ==
    <<Map(7), Key("io_id"), Text("io_id"), Key("kind"), Key(kind),
      Key("status"), Uint("status"), Key(result_key), Bytes("result"),
      Key("sequence"), One, Key("request_body_sha256"), Digest,
      Key("normalized_input_sha256"), Digest>>

Items(b, l) ==
    CASE b \in {"make_response", "build_execute_response"} -> Ok
      [] b = "make_app_error_response" -> make_app_error_response(l)
      [] b = "build_teep_error_execute_response" -> build_teep_error_execute_response
      [] b = "build_app_runtime_error_execute_response" -> build_app_runtime_error_execute_response
      [] b = "build_final_response_wrapper" -> build_final_response_wrapper
      [] b = "build_need_host_io_response" -> build_need_host_io_response
      [] b = "build_need_evidence_response_with_payload" -> build_need_evidence_response_with_payload
      [] b = "make_teep_resolve_input" -> make_teep_resolve_input
      [] b = "build_teep_resolve_input_for_command" -> build_teep_resolve_input_for_command
      [] b = "make_execute_envelope" -> make_execute_envelope
      [] b = "make_resume_envelope" -> make_resume_envelope
      [] b = "make_http_post_result" -> make_host_io_result_cbor("http_post", "response_body")
      [] b = "make_create_evidence_result" -> make_host_io_result_cbor("create_evidence", "evidence")

\* How long the literals are.  To TLC a text is a sequence of characters and this is
\* evaluated; to the provers a text is only a name.
ASSUME TextLengths ==
    /\ Len(NoText) = 0 /\ Len(LimitText) = 23
    /\ \A s \in {"ok"} : Len(s) = 2
    /\ \A s \in {"url"} : Len(s) = 3
    /\ \A s \in {"body", "code", "kind"} : Len(s) = 4
    /\ \A s \in {"error", "io_id"} : Len(s) = 5
    /\ \A s \in {"reason", "source", "status", "stdout"} : Len(s) = 6
    /\ \A s \in {"command", "details", "message"} : Len(s) = 7
    /\ \A s \in {"evidence", "insecure", "sequence"} : Len(s) = 8
    /\ \A s \in {"challenge", "exit_code", "http_post", "state_dir", "teep_code",
                 "wasm_file"} : Len(s) = 9
    /\ \A s \in {"app_output", "request_id", "teep-agent", "wasm_bytes"} : Len(s) = 10
    /\ \A s \in {"app-runtime", "app.runtime", "resolve_app", "return_code"} : Len(s) = 11
    /\ \A s \in {"app.internal", "attestam_url", "catalog_cbor",
                 "need_host_io"} : Len(s) = 12
    /\ \A s \in {"app.no_memory", "resolver_mode", "response_body"} : Len(s) = 13
    /\ \A s \in {"app.input_cbor", "app_input_cbor", "app_wasm_bytes",
                 "schema_version", "target_command"} : Len(s) = 14
    /\ \A s \in {"create_evidence", "teep-evidence-1"} : Len(s) = 15
    /\ \A s \in {"max_output_bytes"} : Len(s) = 16
    /\ \A s \in {"app.resource_limit", "request_timeout_ms"} : Len(s) = 18
    /\ \A s \in {"final_response_cbor", "host_io_result_cbor",
                 "request_body_sha256"} : Len(s) = 19
    /\ \A s \in {"app.invalid_argument"} : Len(s) = 20
    /\ \A s \in {"agent_public_key_cose", "app.output_generation"} : Len(s) = 21
    /\ \A s \in {"app.unsupported_format"} : Len(s) = 22
    /\ \A s \in {"app.unsupported_command", "normalized_input_sha256"} : Len(s) = 23
    /\ \A s \in {"dev_agent_public_key_cbor"} : Len(s) = 25

\* The words of AppError.
ASSUME WordLengths ==
    \A s \in {"invalid input", "invalid argument", "output generation error", "no memory",
              "unsupported command", "unsupported format", "resource limit exceeded",
              "internal app error", "runtime error"} : Len(s) \in {9, 13, 16, 18, 19, 23}

----------------------------------------------------------------------------
(* The length each builder computes before it writes.                      *)

FieldLen(key, n) == TypeLenSize(Len(key)) + Len(key) + TypeLenSize(n) + n

\* An item of length n with its head; and the members every response begins with.
Len1(n) == TypeLenSize(n) + n
IdLen(l) == 1 + 1 + 14 + 1 + 1 + 10 + Len1(l.request_id)
DigestsLen == 1 + 19 + Len1(32) + 1 + 23 + Len1(32)

ResponseLen(l) ==
    IdLen(l) + 1 + 6 + 1 + 2 + 1 + 9 + 1 + 1 + 6 + Len1(l.stdout) + 1 + 10 + Len1(l.app_output)

AppErrorResponseLen(l) ==
    IdLen(l) + 1 + 6 + 1 + 5 + 1 + 9 + 1 + 1 + 5
       + 1 + 4 + 1 + Len(AppError(l.return_code)[1])
       + 1 + 7 + 1 + Len(AppError(l.return_code)[2]) + 1 + 7 + 1
       + 1 + 11 + TypeLenSize(Magnitude(l.return_code))
       + 1 + 7 + Len1(l.command) + 1 + 9 + Len1(l.wasm_file)

TeepErrorResponseLen(l) ==
    IdLen(l) + 1 + 6 + 1 + 5 + 1 + 9 + 1 + 1 + 5 + 1 + 1 + 4 + Len1(l.code) + 1 + 7 + Len1(l.message)
       + 1 + 7 + 1 + 1 + 6 + Len1(10) + 1 + 9 + Len1(l.code) + 1 + 7 + Len1(l.command)

AppRuntimeErrorResponseLen(l) ==
    IdLen(l) + 1 + 6 + 1 + 5 + 1 + 9 + 1 + 1 + 5 + 1 + 1 + 4 + Len1(18) + 1 + 7 + Len1(23)
       + 1 + 7 + 1 + 1 + 6 + Len1(11) + 1 + 7 + Len1(l.command) + 1 + 6 + Len1(16)

FinalResponseWrapperLen(l) == IdLen(l) + 1 + 19 + Len1(l.final_response_cbor)

NeedHostIoResponseLen(l) ==
    IdLen(l) + 1 + 12 + 1 + 1 + 5 + Len1(l.io_id) + 1 + 4 + Len1(9)
       + 1 + 3 + Len1(l.url) + 1 + 4 + Len1(l.body) + 1 + 8 + 1 + DigestsLen

NeedEvidenceResponseLen(l) ==
    IdLen(l) + 1 + 12 + 1 + 1 + 5 + Len1(15) + 1 + 4 + Len1(15) + 1 + 9 + Len1(l.challenge)
       + 1 + 21 + Len1(l.agent_public_key_cose) + 1 + 8 + 1 + DigestsLen

TeepResolveInputLen(l) ==
    1 + Len1(14) + 1 + FieldLen("command", 11)
      + FieldLen("target_command", l.target_command) + FieldLen("resolver_mode", l.resolver_mode)
      + FieldLen("state_dir", l.state_dir) + FieldLen("attestam_url", l.attestam_url)

\* attestam_url is counted twice, once without its value.
TeepResolveInputForCommandLen(l) ==
    1 + Len1(14) + 1 + FieldLen("command", 11)
      + FieldLen("target_command", l.target_command) + Len1(9) + 1 + Len1(12) + 1
      + FieldLen("resolver_mode", l.resolver_mode) + FieldLen("attestam_url", l.attestam_url)

ExecuteEnvelopeLen(l) ==
    1 + FieldLen("request_id", l.request_id) + FieldLen("command", l.command)
      + FieldLen("resolver_mode", l.resolver_mode) + FieldLen("attestam_url", l.attestam_url)
      + Len1(8) + 1 + FieldLen("app_input_cbor", l.app_input_cbor)
      + Len1(18) + TypeLenSize(l.request_timeout_ms)
      + FieldLen("wasm_bytes", l.wasm_bytes) + FieldLen("catalog_cbor", l.catalog_cbor)
      + FieldLen("app_wasm_bytes", l.app_wasm_bytes)
      + FieldLen("dev_agent_public_key_cbor", l.dev_agent_public_key_cbor)

ResumeEnvelopeLen(l) ==
    1 + FieldLen("request_id", l.request_id) + FieldLen("host_io_result_cbor", l.host_io_result_cbor)

HostIoResultLen(kind, result_key, l) ==
    1 + FieldLen("io_id", l.io_id) + FieldLen("kind", Len(kind))
      + Len1(6) + TypeLenSize(l.status) + FieldLen(result_key, l.result)
      + Len1(8) + TypeLenSize(1)
      + FieldLen("request_body_sha256", 32) + FieldLen("normalized_input_sha256", 32)

Reserved(b, l) ==
    CASE b \in {"make_response", "build_execute_response"} -> ResponseLen(l)
      [] b = "make_app_error_response" -> AppErrorResponseLen(l)
      [] b = "build_teep_error_execute_response" -> TeepErrorResponseLen(l)
      [] b = "build_app_runtime_error_execute_response" -> AppRuntimeErrorResponseLen(l)
      [] b = "build_final_response_wrapper" -> FinalResponseWrapperLen(l)
      [] b = "build_need_host_io_response" -> NeedHostIoResponseLen(l)
      [] b = "build_need_evidence_response_with_payload" -> NeedEvidenceResponseLen(l)
      [] b = "make_teep_resolve_input" -> TeepResolveInputLen(l)
      [] b = "build_teep_resolve_input_for_command" -> TeepResolveInputForCommandLen(l)
      [] b = "make_execute_envelope" -> ExecuteEnvelopeLen(l)
      [] b = "make_resume_envelope" -> ResumeEnvelopeLen(l)
      [] b = "make_http_post_result" -> HostIoResultLen("http_post", "response_body", l)
      [] b = "make_create_evidence_result" -> HostIoResultLen("create_evidence", "evidence", l)

\* build_teep_resolve_input_for_command returns the length it wrote.
ReportsReserved == TaBuilders \ {"build_teep_resolve_input_for_command"}

----------------------------------------------------------------------------
(* The receivers.                                                          *)

\* The Agent is the only reader of the input that the REE writes; what the TA writes is
\* read by the TA before the Agent gets it.
Reader(b) ==
    CASE b \in {"make_execute_envelope", "make_resume_envelope"} -> "parse_production_envelope"
      [] b \in {"make_http_post_result", "make_create_evidence_result"} -> "host_io_result_ok"
      [] b = "build_teep_resolve_input_for_command" -> "parse_teep_resolve_input"
      [] b = "make_teep_resolve_input" -> "twep_app_main"
      [] b \in {"make_response", "make_app_error_response"} -> "client"
      [] OTHER -> "twep_optee_parse_response"

\* The kinds of item that each reader takes as the value of a key; it skips the values
\* of all other keys.  text is a text that must not be empty.
parse_production_envelope(key) ==
    CASE key \in {"resolver_mode", "request_id", "command"} -> {"text"}
      [] key = "attestam_url" -> {"text", "empty"}
      [] key = "insecure" -> {"flag"}
      [] key = "request_timeout_ms" -> {"uint", "one"}
      [] key \in {"app_input_cbor", "host_io_result_cbor", "wasm_bytes", "catalog_cbor",
                  "app_wasm_bytes", "dev_agent_public_key_cbor"} -> {"bytes"}
      [] OTHER -> {}

twep_optee_parse_response(key) ==
    CASE key \in {"request_id", "io_id", "kind", "url"} -> {"text", "empty"}
      [] key \in {"final_response_cbor", "body", "challenge", "agent_public_key_cose",
                  "request_body_sha256", "normalized_input_sha256"} -> {"bytes"}
      [] key = "need_host_io" -> {"map"}
      [] key = "sequence" -> {"uint", "one"}
      [] OTHER -> {}

\* With parse_host_io_result_payload, which reads the same map again for the result.
host_io_result_ok(key) ==
    CASE key \in {"io_id", "kind"} -> {"text"}
      [] key \in {"status", "sequence"} -> {"uint", "one"}
      [] key \in {"request_body_sha256", "normalized_input_sha256", "response_body", "evidence"} -> {"bytes"}
      [] OTHER -> {}

parse_teep_resolve_input(key) ==
    IF key \in {"command", "target_command", "resolver_mode"} THEN {"text"} ELSE {}

\* The Agent decodes all of its input and then looks up the texts that it needs.
twep_app_main(key) ==
    IF key \in {"command", "target_command", "resolver_mode", "attestam_url"}
    THEN {"text", "empty"} ELSE {}

Wants(r, key) ==
    CASE r = "parse_production_envelope" -> parse_production_envelope(key)
      [] r = "twep_optee_parse_response" -> twep_optee_parse_response(key)
      [] r = "host_io_result_ok" -> host_io_result_ok(key)
      [] r = "parse_teep_resolve_input" -> parse_teep_resolve_input(key)
      [] r = "twep_app_main" -> twep_app_main(key)
      [] OTHER -> {}

\* The kind of an item on the wire.
Wire(item, l) ==
    CASE item.kind \in {"key", "short"} -> IF Len(item.s) = 0 THEN "empty" ELSE "text"
      [] item.kind = "text" -> IF l[item.f] = 0 THEN "empty" ELSE "text"
      [] item.kind = "digest" -> "bytes"
      [] OTHER -> item.kind

MutRequired(b) ==
    CASE b = "make_execute_envelope" -> {"request_id", "command", "app_input_cbor", "timeout_ms"}
      [] OTHER -> {"request_id", "host_io_result_cbor"}

\* parse_production_envelope: the keys of an EXECUTE and of a RESUME_HOST_IO.
Required(b) ==
    CASE b = "make_execute_envelope" -> {"request_id", "command", "app_input_cbor", "request_timeout_ms"}
      [] OTHER -> {"request_id", "host_io_result_cbor"}

NeedKeys == {"request_id", "io_id", "kind", "sequence", "request_body_sha256", "normalized_input_sha256"}

\* What a reader that has reached the end returns, from the keys it has seen.
Outcome(b, seen) ==
    CASE Reader(b) = "parse_production_envelope" ->
            IF Required(b) \subseteq seen THEN "accepted" ELSE "refused"
      [] Reader(b) = "host_io_result_ok" ->
            IF {"io_id", "kind", "status", "sequence", "request_body_sha256",
                "normalized_input_sha256"} \subseteq seen /\ seen \cap {"response_body", "evidence"} # {}
            THEN "accepted" ELSE "refused"
      [] Reader(b) = "parse_teep_resolve_input" ->
            IF {"command", "target_command", "resolver_mode"} \subseteq seen
            THEN "accepted" ELSE "refused"
      [] Reader(b) = "twep_app_main" -> IF "target_command" \in seen THEN "accepted" ELSE "refused"
      [] Reader(b) = "client" -> "accepted"
      [] OTHER ->
            CASE "final_response_cbor" \in seen /\ "need_host_io" \notin seen -> "FINAL"
              [] "final_response_cbor" \notin seen /\ "need_host_io" \in seen /\ NeedKeys \subseteq seen ->
                    "NEED_HOST_IO"
              [] OTHER -> "raw"

----------------------------------------------------------------------------
VARIABLES
    phase,     \* idle, writing, reading, done; or why nothing was sent
    b, l,      \* the builder, and the lengths of what it writes
    proper,    \* the texts of the Agent's input that say what they should
    capacity,  \* bytes of its buffer
    p,         \* bytes written
    buffer,    \* the items they make up
    reported,  \* the length passed on with the message
    i,         \* the next item
    due,       \* items that the maps read so far still announce
    key,       \* the key whose value is next, if one was read
    skip,      \* items left of a value that is skipped
    seen,      \* keys whose value was taken
    outcome    \* what the receiver made of the message

vars == <<phase, b, l, proper, capacity, p, buffer, reported, i, due, key, skip, seen, outcome>>

NoKey == "-"
Fields(bld) == {it.f : it \in {t \in {Items(bld, [return_code |-> 0])[n] :
                                      n \in 1..Len(Items(bld, [return_code |-> 0]))} :
                              t.kind \in {"text", "bytes", "uint"}}}

\* A length is a number; the return code of an application may be negative.  They have
\* 32 bits: beyond, every length computation counts a head of 9 bytes, of which the
\* writers of the TA and of the envelope write 5.
ASSUME LengthsAssumption ==
    \A bld \in Builders : \A lens \in Lengths[bld] :
        /\ lens = [f \in Fields(bld) |-> lens[f]]
        /\ \A f \in Fields(bld) :
              /\ lens[f] \in IF f = "return_code" THEN Int ELSE Nat
              /\ Magnitude(lens[f]) \div 65536 < 65536

\* An empty resolver mode is passed to the Agent as mock.
Effective(bld, lens) ==
    IF bld = "build_teep_resolve_input_for_command" /\ lens.resolver_mode = 0
    THEN [lens EXCEPT !.resolver_mode = 4] ELSE lens

MaxCommand == 32

\* A target command is of letters, digits, - and _; a resolver mode is mock,
\* attestam-insecure or attestam-verified.  Either may be any other text.
Proper(bld, lens) ==
    {S \in SUBSET {"target_command", "resolver_mode"} :
        IF bld \in {"make_teep_resolve_input", "build_teep_resolve_input_for_command"}
        THEN /\ "resolver_mode" \in S => Effective(bld, lens).resolver_mode \in {4, 17}
             /\ Effective(bld, lens) # lens => "resolver_mode" \in S
        ELSE S = {}}

\* The last check of parse_teep_resolve_input, and of twep_app_main with valid_command;
\* the command of both inputs is resolve_app.
Supported ==
    /\ Reader(b) \in {"parse_teep_resolve_input", "twep_app_main"} =>
          "target_command" \in proper /\ l.target_command \in 1..MaxCommand
    /\ Reader(b) = "parse_teep_resolve_input" => "resolver_mode" \in proper

Children(item) == IF item.kind = "map" THEN 2 * item.n ELSE 0
Item == buffer[i]

TypeOK ==
    /\ phase \in {"idle", "writing", "reading", "done", "SHORT_BUFFER", "dropped"}
    /\ b \in Builders /\ proper \subseteq {"target_command", "resolver_mode"}
    /\ {capacity, p, reported, due, skip} \subseteq Nat
    /\ i \in 1..(Len(Items(b, l)) + 1)
    /\ outcome \in {"none", "accepted", "refused", "FINAL", "NEED_HOST_IO", "raw"}

Init ==
    /\ phase = "idle" /\ b \in Builders
    /\ \E lens \in Lengths[b] : l = Effective(b, lens) /\ proper \in Proper(b, lens)
    /\ capacity = 0 /\ p = 0 /\ buffer = << >> /\ reported = 0 /\ i = 1
    /\ due = 0 /\ key = NoKey /\ skip = 0 /\ seen = {} /\ outcome = "none"

\* twep_wr_make_app_error_response: no response with a longer code or message.
\* make_teep_resolve_input: no input for an empty or a longer command.
Writable ==
    /\ b = "make_app_error_response" =>
          Len(AppError(l.return_code)[1]) <= 23 /\ Len(AppError(l.return_code)[2]) <= 23
    /\ b = "make_teep_resolve_input" => l.target_command \in 1..MaxCommand

\* The REE allocates what it computed; the TA writes into the buffer of its caller,
\* here as long as needed, or one byte shorter or longer.
Build(slack) ==
    /\ phase = "idle"
    /\ b \in ReeBuilders => slack = 0
    /\ Writable
    /\ capacity' = Reserved(b, l) + slack
    /\ IF slack < 0
       THEN phase' = "SHORT_BUFFER" /\ reported' = Reserved(b, l)
       ELSE phase' = "writing" /\ UNCHANGED reported
    /\ UNCHANGED <<b, l, proper, p, buffer, i, due, key, skip, seen, outcome>>

Write ==
    /\ phase = "writing" /\ i <= Len(Items(b, l))
    /\ LET item == Items(b, l)[i]
       IN  /\ p' = p + Written(item, l)
           /\ buffer' = IF Written(item, l) > 0 THEN Append(buffer, item) ELSE buffer
    /\ i' = i + 1
    /\ UNCHANGED <<phase, b, l, proper, capacity, reported, due, key, skip, seen, outcome>>

\* twep_optee_perform_host_io drops the result of a failed operation.
Send ==
    /\ phase = "writing" /\ i = Len(Items(b, l)) + 1
    /\ reported' = IF b \in ReportsReserved THEN Reserved(b, l) ELSE p
    /\ phase' = IF Reader(b) = "host_io_result_ok" /\ l.status # 0 THEN "dropped" ELSE "reading"
    /\ i' = 1 /\ due' = 1
    /\ UNCHANGED <<b, l, proper, capacity, p, buffer, key, skip, seen, outcome>>

\* The next item is there and is of a kind that the reader takes.
Readable ==
    /\ i <= Len(buffer)
    /\ i = 1 => Item.kind = "map"
    /\ i > 1 /\ skip = 0 /\ key = NoKey => Item.kind \in {"key", "short"}
    /\ i > 1 /\ skip = 0 /\ key # NoKey =>
          Wants(Reader(b), key) = {} \/ Wire(Item, l) \in Wants(Reader(b), key)

Reading == phase = "reading" /\ due > 0 /\ Readable

Consume == /\ i' = i + 1
           /\ due' = due - 1 + Children(Item)
           /\ UNCHANGED <<phase, b, l, proper, capacity, p, buffer, reported, outcome>>

ReadMap ==
    /\ Reading /\ i = 1
    /\ Consume
    /\ UNCHANGED <<key, skip, seen>>

SkipItem ==
    /\ Reading /\ skip > 0
    /\ skip' = skip - 1 + Children(Item)
    /\ Consume
    /\ UNCHANGED <<key, seen>>

ReadKey ==
    /\ Reading /\ i > 1 /\ skip = 0 /\ key = NoKey
    /\ key' = Item.s
    /\ Consume
    /\ UNCHANGED <<skip, seen>>

\* A value that the reader has no use for, and one that it takes.
ReadValue ==
    /\ Reading /\ skip = 0 /\ key # NoKey
    /\ IF Wants(Reader(b), key) = {}
       THEN skip' = Children(Item) /\ UNCHANGED seen
       ELSE seen' = seen \cup {key} /\ UNCHANGED skip
    /\ key' = NoKey
    /\ Consume

\* A key that is no text, a value of another kind, or the end before its time.  The
\* client of the TA takes a response that it cannot read for the application's own.
Refuse ==
    /\ phase = "reading" /\ due > 0 /\ ~Readable
    /\ outcome' = IF Reader(b) = "twep_optee_parse_response" THEN "raw" ELSE "refused"
    /\ phase' = "done"
    /\ UNCHANGED <<b, l, proper, capacity, p, buffer, reported, i, due, key, skip, seen>>

EndRead ==
    /\ phase = "reading" /\ due = 0
    /\ outcome' = IF i = Len(buffer) + 1 /\ reported = p /\ Supported THEN Outcome(b, seen)
                  ELSE IF Reader(b) = "twep_optee_parse_response" THEN "raw" ELSE "refused"
    /\ phase' = "done"
    /\ UNCHANGED <<b, l, proper, capacity, p, buffer, reported, i, due, key, skip, seen>>

Next == \/ \E slack \in -1..1 : Build(slack)
        \/ Write \/ Send \/ ReadMap \/ SkipItem \/ ReadKey \/ ReadValue \/ Refuse \/ EndRead

Spec == Init /\ [][Next]_vars

----------------------------------------------------------------------------
(* What every message must satisfy.                                        *)

\* No builder writes past its buffer, whatever the lengths are, but for
\* make_app_error_response: its sum counts one of its two inner map heads, and it
\* writes exactly one byte more than it has allocated.  And the length that goes with
\* a message is the one that was written: its caller sees neither unwritten bytes nor
\* less than the message.
InBuffer ==
    /\ p <= capacity + (IF b = "make_app_error_response" THEN 1 ELSE 0)
    /\ phase \in {"reading", "done"} => reported = p

Expected(bld) ==
    CASE bld = "build_final_response_wrapper" -> "FINAL"
      [] bld \in {"build_need_host_io_response", "build_need_evidence_response_with_payload"} ->
            "NEED_HOST_IO"
      [] bld \in {"build_execute_response", "build_teep_error_execute_response",
                  "build_app_runtime_error_execute_response"} -> "raw"
      [] OTHER -> "accepted"

\* What a receiver has reason to refuse: an empty text where the TA insists on one; in the
\* Agent's input a command that is none or, in the TA's, is too long, and in the TA's a
\* resolver mode that it does not know.  The REE writes no input with a command that is
\* too long for the Agent.
Acceptable ==
    /\ Reader(b) \in {"parse_production_envelope", "host_io_result_ok", "parse_teep_resolve_input"} =>
          \A f \in Fields(b) \cap {"request_id", "command", "resolver_mode",
                                   "target_command", "io_id"} : l[f] # 0
    /\ b = "build_teep_resolve_input_for_command" =>
          l.target_command <= MaxCommand /\ {"target_command", "resolver_mode"} \subseteq proper
    /\ b = "make_teep_resolve_input" => "target_command" \in proper

\* Every message that is acceptable is understood by its receiver as what it is, and
\* every other is refused.
Delivered ==
    phase = "done" => outcome = IF Acceptable THEN Expected(b) ELSE "refused"
=============================================================================
