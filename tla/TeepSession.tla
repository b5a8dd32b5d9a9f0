----------------------------- MODULE TeepSession -----------------------------
(***************************************************************************)
(* The Agent's exchange with AttesTAM in the attestam-verified mode.  The  *)
(* TA cannot keep a suspended Agent's stack: at every answer it runs the   *)
(* Agent again from its entry, with the answers recorded so far, and       *)
(* presents the protected state as if the commit of this very request had  *)
(* not happened.  The requests of several sessions interleave, one TA      *)
(* command at a time, on the ledger that ProtectedStore implements.        *)
(*                                                                         *)
(* A TEEP message stands for its verified COSE_Sign1: the TAM's signature, *)
(* the SUIT authentication and the credential bindings are checks that     *)
(* only refuse (RequestFails).  SHA-256 is injective, so that the digest   *)
(* of a QueryResponse is the QueryResponse.                                *)
(***************************************************************************)
EXTENDS ProtectedApp, Sequences

CONSTANTS
    Sessions,     \* client sessions, each with one request at a time
    Nonces,       \* tokens and challenges of QueryRequests
    Manifests,    \* SUIT manifests that AttesTAM signs
    Authorizes,   \* for each valid Catalog, the application of each command
    Provisioned   \* protected-sequence-freshness.cbor

QueryResponses == [component : Component, nonce : Nonces, evidence : BOOLEAN]

ASSUME QueryResponsesAssumption == QueryResponses \subseteq Digests
ASSUME ManifestsAssumption ==
    Manifests \subseteq [component : {Catalog} \cup Apps, sequence : 0..MaxSequence,
                         payload : Payloads]
ASSUME AuthorizesAssumption ==
    /\ DOMAIN Authorizes \subseteq Payloads
    /\ \A c \in DOMAIN Authorizes : Authorizes[c] \in [Apps -> Payloads \cup {NoPayload}]
ASSUME ProvisionedAssumption == Provisioned \in SequenceMap

VARIABLES
    available, generation, sequences, digest, catalog, application,  \* the ledger
    result,    \* the generation in verified-evidence-result.cbor, 0 without one
    live,      \* each session's request: command, answers, recorded commit
    pending,   \* the body each session has POSTed and not been answered
    last,      \* the last acceptance: what was committed, and on which exchange
    ran        \* the last application executed, and the Catalog then active

ledger == <<available, generation, sequences, digest, catalog, application>>
vars == <<ledger, result, live, pending, last, ran>>

Ledger == INSTANCE AcceptanceLedger

----------------------------------------------------------------------------
(* Messages: what the TAM answers and what the Agent POSTs.                *)

Empty == [type |-> "empty"]
Queries == [type : {"query"}, nonce : Nonces, challenge : BOOLEAN]
Updates == [type : {"update"}, manifest : Manifests]
Answers == {Empty} \cup Queries \cup Updates

NoPost == [type |-> "none"]
Hello == [type |-> "hello"]
QueryResponse(q) == [type |-> "response", query |-> q]
\* The SUIT report names the manifest by its digest.
Success(m) == [type |-> "success", component |-> m.component, sequence |-> m.sequence]
Posts == {Hello} \cup {QueryResponse(q) : q \in QueryResponses}
                 \cup {Success(m) : m \in Manifests}

NoCommit == [component |-> NoComponent, sequence |-> 0, payload |-> NoPayload,
             query |-> NoDigest, expected |-> 0, new |-> 0]
Commits == {NoCommit} \cup
    [component : {Catalog} \cup Apps, sequence : 0..MaxSequence, payload : Payloads,
     query : QueryResponses, expected : 0..MaxGeneration, new : 1..MaxGeneration]

Idle == [command |-> NoComponent, answers |-> <<>>, commit |-> NoCommit]
Requests == [command : Apps, answers : Seq(Answers), commit : Commits]

NoAcceptance == [component |-> NoComponent, sent |-> NoPost, evidence |-> FALSE,
                 chained |-> FALSE, published |-> FALSE]
NoExecution == [command |-> NoComponent, app |-> NoPayload, catalog |-> NoPayload]

(***************************************************************************)
(* A request holds at most three answers: two QueryRequests and an Update, *)
(* with the answer to Success still to come.                               *)
(***************************************************************************)
TypeOK ==
    /\ available \in BOOLEAN
    /\ generation \in 0..MaxGeneration /\ result \in 0..MaxGeneration
    /\ sequences \in SequenceMap /\ digest \in Digests \cup {NoDigest}
    /\ catalog \in Payloads \cup {NoPayload}
    /\ application \in [component : Apps \cup {NoComponent},
                        payload : Payloads \cup {NoPayload}]
    /\ live \in [Sessions -> {Idle} \cup Requests]
    /\ \A s \in Sessions : Len(live[s].answers) <= 3
    /\ pending \in [Sessions -> {NoPost} \cup Posts]

Init ==
    /\ available = TRUE /\ generation = 0 /\ digest = NoDigest
    /\ sequences = Provisioned
    /\ catalog = NoPayload /\ application = Ledger!NoApplication
    /\ result = 0
    /\ live = [s \in Sessions |-> Idle]
    /\ pending = [s \in Sessions |-> NoPost]
    /\ last = NoAcceptance
    /\ ran = NoExecution

----------------------------------------------------------------------------
(* What the TA's hostcalls show to the Agent of a session.                 *)

\* A protected object that cannot be read (a fault) is absent to the Agent.
\* Once the request has committed, its Agent is shown no object of that kind.
ViewedCatalog(s, fault) ==
    IF live[s].commit.component = Catalog \/ fault = "catalog" THEN NoPayload ELSE catalog

ViewedApp(s, fault) ==
    IF live[s].commit.component \in Apps \/ fault = "app"
    THEN NoPayload ELSE application.payload

MutCurrentGeneration(s) == generation

\* teep_host_acceptance_generation: after the commit, the generation before it.
ViewedGeneration(s) ==
    IF live[s].commit = NoCommit THEN generation ELSE live[s].commit.expected

\* The acceptance result is of the generation shown; after the commit the TA
\* makes one up, unless there was none to show.
ViewedCurrent(s) ==
    IF live[s].commit # NoCommit /\ live[s].commit.expected > 0 THEN TRUE
    ELSE result > 0 /\ result = ViewedGeneration(s)

\* What the Agent of this session reads in one run.
View(s, fault) ==
    [catalog |-> ViewedCatalog(s, fault), app |-> ViewedApp(s, fault),
     generation |-> ViewedGeneration(s), current |-> ViewedCurrent(s)]

----------------------------------------------------------------------------
(* The Agent: what it does with a view v and the answers h, as functions.  *)

\* Without a Catalog the Agent asks for the Catalog, otherwise for the app.
Requested(cmd, v) == IF v.catalog = NoPayload THEN Catalog ELSE cmd

Unauthorized(cmd, v) ==
    v.catalog # NoPayload /\ Authorizes[v.catalog][cmd] = NoPayload

Ready(cmd, v) ==
    /\ v.catalog # NoPayload
    /\ v.app # NoPayload
    /\ v.app = Authorizes[v.catalog][cmd]

NeedsTam(cmd, v) == ~ Unauthorized(cmd, v) /\ ~ Ready(cmd, v)

Response(cmd, v, q) ==
    [component |-> Requested(cmd, v), nonce |-> q.nonce, evidence |-> q.challenge]

MutAnswersForever(h) == \A i \in DOMAIN h : h[i].type = "query"

\* The first answer, and once more the second, may be a QueryRequest.
Asks(h) == Len(h) <= 2 /\ \A i \in DOMAIN h : h[i].type = "query"

\* The position of the Update in the answers, if one follows a QueryRequest.
UpdateAt(h) ==
    {k \in {2, 3} \cap DOMAIN h :
        /\ h[k].type = "update"
        /\ \A i \in 1..(k - 1) : h[i].type = "query"}

MutNoEvidence(cmd, v, q, m) ==
    /\ m.component \in {Requested(cmd, v), Catalog}
    /\ m.sequence > 0 /\ m.sequence > Provisioned[m.component]
    /\ IF m.component = Catalog
       THEN m.payload \in DOMAIN Authorizes
       ELSE v.catalog # NoPayload /\ Authorizes[v.catalog][m.component] = m.payload

(***************************************************************************)
(* The Update m after the QueryRequest q: fresh Evidence or a protected    *)
(* acceptance that is still current; the requested component or the        *)
(* Catalog; a Catalog that is valid or an app the Catalog authorizes.      *)
(***************************************************************************)
Acceptable(cmd, v, q, m) ==
    /\ q.challenge \/ v.current
    /\ m.component \in {Requested(cmd, v), Catalog}
    /\ m.sequence > 0 /\ m.sequence > Provisioned[m.component]
    /\ IF m.component = Catalog
       THEN m.payload \in DOMAIN Authorizes
       ELSE v.catalog # NoPayload /\ Authorizes[v.catalog][m.component] = m.payload

\* The arguments of the Agent's commit hostcall, as the TA records them.
CommitOf(cmd, v, q, m) ==
    [component |-> m.component, sequence |-> m.sequence, payload |-> m.payload,
     query |-> Response(cmd, v, q), expected |-> v.generation, new |-> v.generation + 1]

----------------------------------------------------------------------------
(* The TA's side of a command.                                             *)

End(s) ==
    /\ live' = [live EXCEPT ![s] = Idle]
    /\ pending' = [pending EXCEPT ![s] = NoPost]

\* The Agent POSTs and the request is suspended.
Suspend(s, cmd, h, commit, post) ==
    /\ live' = [live EXCEPT ![s] = [command |-> cmd, answers |-> h, commit |-> commit]]
    /\ pending' = [pending EXCEPT ![s] = post]

Install(c) ==
    /\ generation' = generation + 1
    /\ \/ c.component = Catalog /\ Ledger!InstallCatalog(c.sequence, c.query, c.payload)
       \/ c.component \in Apps
            /\ Ledger!InstallApplication(c.component, c.sequence, c.query, c.payload)

MutAnyTranscript(s, c) == TRUE

\* The commit names the body of this session's last POST.
TranscriptMatches(s, c) == pending[s] = QueryResponse(c.query)

\* The acceptance as the exchange shows it, for the properties.
Acceptance(s, c, published) ==
    [component |-> c.component, sent |-> pending[s], evidence |-> c.query.evidence,
     chained |-> last.published, published |-> published]

MutIgnoresStatus(s, cmd, h, c) ==
    /\ live[s].commit = NoCommit
    /\ \/ /\ TranscriptMatches(s, c)
          /\ c.expected = generation
          /\ Install(c)
          /\ result' = generation'
          /\ last' = Acceptance(s, c, TRUE)
       \/ UNCHANGED <<ledger, result, last>>
    /\ Suspend(s, cmd, h, c, Success(c))
    /\ UNCHANGED ran

(***************************************************************************)
(* twep_host_commit_catalog and twep_host_commit_app in the run that meets *)
(* the Update.  The ledger's commit may fail, or succeed and its result    *)
(* not be stored; in both cases the hostcall returns an error, and the     *)
(* Agent ends the request.  Otherwise the Agent goes on to POST Success.   *)
(***************************************************************************)
Commit(s, cmd, h, c) ==
    /\ live[s].commit = NoCommit
    /\ \/ /\ TranscriptMatches(s, c)
          /\ c.expected = generation
          /\ Install(c)
          /\ \/ /\ result' = generation'
                /\ last' = Acceptance(s, c, TRUE)
                /\ Suspend(s, cmd, h, c, Success(c))
             \/ /\ last' = Acceptance(s, c, FALSE)
                /\ End(s)
                /\ UNCHANGED result
       \/ End(s) /\ UNCHANGED <<ledger, result, last>>
    /\ UNCHANGED ran

\* Kind, sequence, generation, payload and digest are the recorded ones, and
\* the component is still at that sequence.
ReplayMatches(s, c) ==
    LET r == live[s].commit IN
    /\ (r.component = Catalog) = (c.component = Catalog)
    /\ c.sequence = r.sequence
    /\ c.expected = r.expected
    /\ c.payload = r.payload
    /\ c.query = r.query
    /\ sequences[c.component] = c.sequence

MutRunsActiveApp(s, cmd, v) ==
    /\ \/ application.payload # NoPayload
            /\ ran' = [command |-> cmd, app |-> application.payload, catalog |-> catalog]
       \/ UNCHANGED ran
    /\ End(s)
    /\ UNCHANGED <<ledger, result, last>>

(***************************************************************************)
(* The Agent resolved the command: the TA loads the protected application  *)
(* itself and compares it with the digest the Agent returned.              *)
(***************************************************************************)
Execute(s, cmd, v) ==
    /\ IF application.payload = Authorizes[v.catalog][cmd]
       THEN ran' = [command |-> cmd, app |-> application.payload, catalog |-> catalog]
       ELSE UNCHANGED ran
    /\ End(s)
    /\ UNCHANGED <<ledger, result, last>>

\* The commit hostcall in a later run, and the TAM's answer to Success.
Replay(s, cmd, h, v, c) ==
    /\ live[s].commit # NoCommit
    /\ IF ReplayMatches(s, c) /\ h[Len(h)] = Empty /\ v.catalog # NoPayload
       THEN Execute(s, cmd, v)
       ELSE End(s) /\ UNCHANGED <<ledger, result, last, ran>>

----------------------------------------------------------------------------
(* One run of the Agent, from its entry, with all answers so far.          *)

Run(s, cmd, h) ==
    \E fault \in {"none", "catalog", "app"} :
        LET v == View(s, fault) IN
        \/ Ready(cmd, v) /\ Execute(s, cmd, v)
        \/ /\ NeedsTam(cmd, v) /\ Asks(h)
           /\ Suspend(s, cmd, h, live[s].commit,
                      IF h = <<>> THEN Hello
                      ELSE QueryResponse(Response(cmd, v, h[Len(h)])))
           /\ UNCHANGED <<ledger, result, last, ran>>
        \/ /\ NeedsTam(cmd, v)
           /\ \E k \in UpdateAt(h) :
                LET q == h[k - 1]
                    m == h[k].manifest
                    c == CommitOf(cmd, v, q, m)
                IN  /\ Acceptable(cmd, v, q, m)
                    /\ Commit(s, cmd, h, c) \/ Replay(s, cmd, h, v, c)

Start(s, cmd) == live[s] = Idle /\ Run(s, cmd, <<>>)

Resume(s, a) == live[s] # Idle /\ Run(s, live[s].command, Append(live[s].answers, a))

(***************************************************************************)
(* Everything that refuses an answer or a command, a failed HTTP request,  *)
(* a client that closes its session.                                       *)
(***************************************************************************)
RequestFails(s) ==
    /\ live[s] # Idle
    /\ End(s)
    /\ UNCHANGED <<ledger, result, last, ran>>

\* The TA dies, perhaps in its first commit.
Crash ==
    /\ live' = [s \in Sessions |-> Idle]
    /\ pending' = [s \in Sessions |-> NoPost]
    /\ Ledger!LoseFirstCommit \/ UNCHANGED ledger
    /\ UNCHANGED <<result, last, ran>>

Next ==
    \/ \E s \in Sessions :
         \/ \E cmd \in Apps : Start(s, cmd)
         \/ \E a \in Answers : Resume(s, a)
         \/ RequestFails(s)
    \/ Crash

Spec == Init /\ [][Next]_vars

----------------------------------------------------------------------------
(***************************************************************************)
(* What is installed is what the TAM was last asked for in this request,   *)
(* or a Catalog, and the Evidence it rests on is Evidence that the TAM has *)
(* been sent.  The Agent that accepts the Update has been executed again   *)
(* since, and asks anew: another session may have installed a Catalog, or  *)
(* an object could not be read, and then it would ask for another          *)
(* component (docs/ABI.md: the digest "must match the exact active         *)
(* session-owned pending HTTP request body").                              *)
(***************************************************************************)
InstalledAsRequested ==
    last # NoAcceptance =>
        /\ last.sent.type = "response"
        /\ last.component \in {last.sent.query.component, Catalog}
        /\ last.evidence => last.sent.query.evidence

(***************************************************************************)
(* The TAM is told of success only for a manifest that the ledger holds,   *)
(* or has since replaced by a newer one (post_verified_component_success). *)
(***************************************************************************)
SuccessOnlyAfterCommit ==
    \A s \in Sessions :
        pending[s].type = "success" =>
            sequences[pending[s].component] >= pending[s].sequence

(***************************************************************************)
(* An acceptance without fresh Evidence follows one whose result was       *)
(* stored: the chain of acceptances starts with an attestation, and starts *)
(* again with one where a result was lost.                                 *)
(***************************************************************************)
EvidenceChain ==
    last # NoAcceptance => last.evidence \/ last.chained

(***************************************************************************)
(* An executed application is the one the active Catalog authorizes for    *)
(* the command, though its request was resolved on a view that hides the   *)
(* active application and other sessions install theirs meanwhile.         *)
(***************************************************************************)
ExecutedIsAuthorized ==
    ran # NoExecution => ran.app = Authorizes[ran.catalog][ran.command]

\* A request that has committed, and no other acceptance since.
Undisturbed(s) == live[s].commit # NoCommit /\ generation = live[s].commit.new

\* The commit that the next run of the Agent will repeat.
Repeated(s) ==
    LET h == live[s].answers
        k == CHOOSE i \in UpdateAt(h) : TRUE
    IN  CommitOf(live[s].command, View(s, "none"), h[k - 1], h[k].manifest)

(***************************************************************************)
(* A request that has installed the component it asked for completes: its  *)
(* re-execution repeats the recorded commit argument by argument, and for  *)
(* an application goes on to execute the one just installed.               *)
(***************************************************************************)
ReplayCompletes ==
    \A s \in Sessions :
        Undisturbed(s) /\ live[s].commit.query.component = live[s].commit.component =>
            /\ NeedsTam(live[s].command, View(s, "none"))
            /\ ReplayMatches(s, Repeated(s))
            /\ live[s].commit.component # Catalog =>
                 application.payload = Authorizes[catalog][live[s].command]

(***************************************************************************)
(* The comment in teep_host_read_file: "Keep the protected-state view from *)
(* the start of this request stable".  The re-executed Agent asks for the  *)
(* component that it asked for before its own commit.                      *)
(***************************************************************************)
RequestViewStable ==
    \A s \in Sessions :
        Undisturbed(s) =>
            Requested(live[s].command, View(s, "none")) = live[s].commit.query.component

=============================================================================
