--------------------------- MODULE TeepSessionProofs ---------------------------
(***************************************************************************)
(* The exchange properties of TeepSession for every set of sessions,       *)
(* commands, Catalogs and manifests.                                       *)
(***************************************************************************)
EXTENDS TeepSession, TLAPS

(***************************************************************************)
(* What a step can do to the ghosts, whichever action it is: the one step  *)
(* that changes `last` is a commit on a matching transcript, the one that  *)
(* changes `ran` an execution on a view with a Catalog.                    *)
(***************************************************************************)
Accepts(s, cmd, h, c) ==
    /\ live[s].commit = NoCommit
    /\ TranscriptMatches(s, c)
    /\ c.expected = generation
    /\ Install(c)
    /\ \/ result' = generation' /\ last' = Acceptance(s, c, TRUE)
            /\ Suspend(s, cmd, h, c, Success(c))
       \/ UNCHANGED result /\ last' = Acceptance(s, c, FALSE) /\ End(s)

\* A commit takes effect, with all its arguments, or leaves the ledger alone.
LEMMA CommitCases ==
    ASSUME NEW s, NEW cmd, NEW h, NEW c, Commit(s, cmd, h, c)
    PROVE  /\ UNCHANGED ran
           /\ \/ Accepts(s, cmd, h, c)
              \/ End(s) /\ UNCHANGED <<ledger, result, last>>
BY DEF Commit, Accepts

\* A commit of an acceptable Update: what it names as its QueryResponse is both what this
\* run of the Agent asks for and what the session has POSTed.
LEMMA RequestedCommit ==
    ASSUME NEW s, NEW cmd, NEW h, NEW v, NEW q, NEW m,
           Acceptable(cmd, v, q, m), Accepts(s, cmd, h, CommitOf(cmd, v, q, m))
    PROVE  InstalledAsRequested'
<1> DEFINE c == CommitOf(cmd, v, q, m)
<1>1. c.component = m.component /\ c.query.component = Requested(cmd, v)
  BY DEF CommitOf, Response
<1>2. c.component \in {c.query.component, Catalog}
  BY <1>1 DEF Acceptable
<1> HIDE DEF c
<1>3. pending[s].type = "response" /\ pending[s].query = c.query
  BY DEF Accepts, TranscriptMatches, QueryResponse, c
<1>4. last'.sent = pending[s] /\ last'.component = c.component
      /\ last'.evidence = c.query.evidence
  BY DEF Accepts, Acceptance, c
<1> QED BY <1>2, <1>3, <1>4 DEF InstalledAsRequested

\* InstalledAsRequested is inductive: a commit that the TA accepts establishes it, however
\* the view has changed since the POST.
THEOREM AnswersBound == Spec => []InstalledAsRequested
<1>1. Init => InstalledAsRequested
  BY DEF Init, InstalledAsRequested
<1>2. InstalledAsRequested /\ [Next]_vars => InstalledAsRequested'
  <2> SUFFICES ASSUME InstalledAsRequested, [Next]_vars PROVE InstalledAsRequested'
    OBVIOUS
  <2>0. ASSUME UNCHANGED last PROVE InstalledAsRequested'
    BY <2>0 DEF InstalledAsRequested
  <2>1. ASSUME NEW s \in Sessions, NEW cmd, NEW h, Run(s, cmd, h)
        PROVE  InstalledAsRequested'
    <3>1. PICK fault :
            LET v == View(s, fault) IN
            \/ Execute(s, cmd, v)
            \/ UNCHANGED <<ledger, result, last, ran>>
            \/ \E k \in UpdateAt(h) :
                 LET c == CommitOf(cmd, v, h[k - 1], h[k].manifest)
                 IN  /\ Acceptable(cmd, v, h[k - 1], h[k].manifest)
                     /\ Commit(s, cmd, h, c) \/ Replay(s, cmd, h, v, c)
      BY <2>1 DEF Run
    <3>2. CASE Execute(s, cmd, View(s, fault)) \/ UNCHANGED <<ledger, result, last, ran>>
      BY <2>0, <3>2 DEF Execute
    <3>3. ASSUME NEW k \in UpdateAt(h),
                 Acceptable(cmd, View(s, fault), h[k - 1], h[k].manifest),
                 LET c == CommitOf(cmd, View(s, fault), h[k - 1], h[k].manifest)
                 IN  Commit(s, cmd, h, c) \/ Replay(s, cmd, h, View(s, fault), c)
          PROVE  InstalledAsRequested'
      <4> DEFINE c == CommitOf(cmd, View(s, fault), h[k - 1], h[k].manifest)
      <4>1. CASE Replay(s, cmd, h, View(s, fault), c)
        BY <2>0, <4>1 DEF Replay, Execute
      <4>2. CASE Commit(s, cmd, h, c)
        <5>1. Accepts(s, cmd, h, c) \/ UNCHANGED <<ledger, result, last>>
          BY <4>2, CommitCases
        <5> HIDE DEF c
        <5>2. CASE Accepts(s, cmd, h, c)
          BY <5>2, <3>3, RequestedCommit DEF c
        <5> QED BY <2>0, <5>1, <5>2
      <4> QED BY <3>3, <4>1, <4>2
    <3> QED BY <3>1, <3>2, <3>3
  <2> QED BY <2>0, <2>1 DEF Next, vars, Start, Resume, RequestFails, Crash
<1> QED BY <1>1, <1>2, PTL DEF Spec

----------------------------------------------------------------------------
(***************************************************************************)
(* A stored result of the current generation belongs to the last           *)
(* acceptance: this is what makes "current" mean that an acceptance        *)
(* precedes.                                                               *)
(***************************************************************************)
EvidenceInv ==
    /\ generation \in Nat /\ result \in Nat
    /\ result <= generation
    /\ result > 0 /\ result = generation => last.published
    /\ EvidenceChain

\* A commit of an acceptable Update preserves the invariant.
LEMMA EvidenceCommit ==
    ASSUME EvidenceInv, NEW s, NEW cmd, NEW h, NEW q, NEW m, NEW fault,
           Acceptable(cmd, View(s, fault), q, m),
           Accepts(s, cmd, h, CommitOf(cmd, View(s, fault), q, m))
    PROVE  EvidenceInv'
<1> DEFINE v == View(s, fault)
           c == CommitOf(cmd, v, q, m)
<1>1. live[s].commit = NoCommit /\ generation' = generation + 1
  BY DEF Accepts, Install
<1>2. v.current => result > 0 /\ result = generation
  BY <1>1 DEF View, ViewedCurrent, ViewedGeneration
<1>3. c.query.evidence = q.challenge
  BY DEF CommitOf, Response
<1>4. last'.evidence = q.challenge /\ last'.chained = last.published
  BY <1>3 DEF Accepts, Acceptance
<1>5. q.challenge \/ last.published
  BY <1>2 DEF Acceptable, EvidenceInv
<1>6. EvidenceChain'
  BY <1>4, <1>5 DEF EvidenceChain
<1>7. CASE result' = generation' /\ last' = Acceptance(s, c, TRUE)
  BY <1>1, <1>6, <1>7 DEF EvidenceInv, Acceptance
<1>8. CASE result' = result
  BY <1>1, <1>6, <1>8 DEF EvidenceInv
<1> QED BY <1>7, <1>8 DEF Accepts

(***************************************************************************)
(* Every acceptance carries fresh Evidence or follows a published one.     *)
(***************************************************************************)
THEOREM EvidenceCorrect == Spec => []EvidenceChain
<1>1. Init => EvidenceInv
  BY DEF Init, EvidenceInv, EvidenceChain
<1>2. EvidenceInv /\ [Next]_vars => EvidenceInv'
  <2> SUFFICES ASSUME EvidenceInv, [Next]_vars PROVE EvidenceInv'
    OBVIOUS
  <2>1. ASSUME UNCHANGED <<generation, result, last>> PROVE EvidenceInv'
    BY <2>1 DEF EvidenceInv, EvidenceChain
  <2>2. ASSUME NEW s \in Sessions, NEW cmd, NEW h, Run(s, cmd, h)
        PROVE  EvidenceInv'
    <3>1. PICK fault : 
            LET v == View(s, fault) IN
            \/ Execute(s, cmd, v)
            \/ UNCHANGED <<ledger, result, last, ran>>
            \/ \E k \in UpdateAt(h) :
                 LET c == CommitOf(cmd, v, h[k - 1], h[k].manifest)
                 IN  /\ Acceptable(cmd, v, h[k - 1], h[k].manifest)
                     /\ Commit(s, cmd, h, c) \/ Replay(s, cmd, h, v, c)
      BY <2>2 DEF Run
    <3>2. CASE Execute(s, cmd, View(s, fault))
      BY <3>2, <2>1 DEF Execute, ledger
    <3>3. CASE UNCHANGED <<ledger, result, last, ran>>
      BY <3>3, <2>1 DEF ledger
    <3>4. ASSUME NEW k \in UpdateAt(h),
                 Acceptable(cmd, View(s, fault), h[k - 1], h[k].manifest),
                 LET c == CommitOf(cmd, View(s, fault), h[k - 1], h[k].manifest)
                 IN  Commit(s, cmd, h, c) \/ Replay(s, cmd, h, View(s, fault), c)
          PROVE  EvidenceInv'
      <4> DEFINE c == CommitOf(cmd, View(s, fault), h[k - 1], h[k].manifest)
      <4>1. CASE Replay(s, cmd, h, View(s, fault), c)
        BY <4>1, <2>1 DEF Replay, Execute, ledger
      <4>2. CASE Commit(s, cmd, h, c)
        <5>1. Accepts(s, cmd, h, c) \/ UNCHANGED <<ledger, result, last>>
          BY <4>2, CommitCases
        <5> HIDE DEF c
        <5>2. CASE UNCHANGED <<ledger, result, last>>
          BY <5>2, <2>1 DEF ledger
        <5>3. CASE Accepts(s, cmd, h, c)
          BY <5>3, <3>4, EvidenceCommit DEF c
        <5> QED BY <5>1, <5>2, <5>3
      <4> QED BY <3>4, <4>1, <4>2
    <3> QED BY <3>1, <3>2, <3>3, <3>4
  <2>3. CASE \E s \in Sessions : RequestFails(s)
    BY <2>3, <2>1 DEF RequestFails, ledger
  <2>4. CASE Crash
    BY <2>4, <2>1 DEF Crash, ledger, Ledger!LoseFirstCommit
  <2>5. CASE UNCHANGED vars
    BY <2>5, <2>1 DEF vars, ledger
  <2> QED BY <2>2, <2>3, <2>4, <2>5 DEF Next, Start, Resume
<1>3. EvidenceInv => EvidenceChain
  BY DEF EvidenceInv
<1> QED BY <1>1, <1>2, <1>3, PTL DEF Spec

----------------------------------------------------------------------------
\* A view that has a Catalog has the active one.
LEMMA ViewCatalog ==
    ASSUME NEW s, NEW fault, View(s, fault).catalog # NoPayload
    PROVE  View(s, fault).catalog = catalog
BY DEF View, ViewedCatalog

(***************************************************************************)
(* Only what the active Catalog authorizes is executed.                    *)
(***************************************************************************)
THEOREM ExecutionCorrect == Spec => []ExecutedIsAuthorized
<1>1. Init => ExecutedIsAuthorized
  BY DEF Init, ExecutedIsAuthorized
<1>2. ExecutedIsAuthorized /\ [Next]_vars => ExecutedIsAuthorized'
  <2> SUFFICES ASSUME ExecutedIsAuthorized, [Next]_vars
               PROVE  ExecutedIsAuthorized'
    OBVIOUS
  <2>1. ASSUME UNCHANGED ran PROVE ExecutedIsAuthorized'
    BY <2>1 DEF ExecutedIsAuthorized
  <2>2. ASSUME NEW s \in Sessions, NEW cmd, NEW fault,
               View(s, fault).catalog # NoPayload, Execute(s, cmd, View(s, fault))
        PROVE  ExecutedIsAuthorized'
    BY <2>2, <2>1, ViewCatalog DEF Execute, ExecutedIsAuthorized
  <2>3. ASSUME NEW s \in Sessions, NEW cmd, NEW h, Run(s, cmd, h)
        PROVE  ExecutedIsAuthorized'
    <3>1. PICK fault :
            LET v == View(s, fault) IN
            \/ v.catalog # NoPayload /\ Execute(s, cmd, v)
            \/ UNCHANGED ran
            \/ \E c : Commit(s, cmd, h, c) \/ Replay(s, cmd, h, v, c)
      BY <2>3 DEF Run, Ready
    <3>2. ASSUME NEW c, Commit(s, cmd, h, c) PROVE UNCHANGED ran
      BY <3>2, CommitCases
    <3>3. ASSUME NEW c, Replay(s, cmd, h, View(s, fault), c)
          PROVE  ExecutedIsAuthorized'
      BY <3>3, <2>1, <2>2 DEF Replay
    <3> QED BY <3>1, <3>2, <3>3, <2>1, <2>2
  <2>4. CASE \E s \in Sessions : RequestFails(s)
    BY <2>4, <2>1 DEF RequestFails
  <2>5. CASE Crash \/ UNCHANGED vars
    BY <2>5, <2>1 DEF Crash, vars
  <2> QED BY <2>3, <2>4, <2>5 DEF Next, Start, Resume
<1> QED BY <1>1, <1>2, PTL DEF Spec

----------------------------------------------------------------------------
(***************************************************************************)
(* Types need the shape of a request: as long as nothing is committed all  *)
(* answers are QueryRequests, at most two of them, so that the Update that *)
(* a run commits is the answer it was resumed with.                        *)
(***************************************************************************)
Shape ==
    \A s \in Sessions :
        live[s].commit = NoCommit =>
            /\ Len(live[s].answers) <= 2
            /\ \A i \in DOMAIN live[s].answers : live[s].answers[i].type = "query"

ExchangeInv == TypeOK /\ Shape /\ SuccessOnlyAfterCommit

\* The answers a run gets: the recorded ones and the new one.
AnswersOf(s, h) ==
    \/ live[s].commit = NoCommit /\ h = <<>>
    \/ \E a \in Answers : h = Append(live[s].answers, a)

LEMMA AnswersTyped ==
    ASSUME TypeOK, NEW s \in Sessions, NEW h, AnswersOf(s, h)
    PROVE  h \in Seq(Answers) /\ live[s].answers \in Seq(Answers)
<1>1. live[s] \in {Idle} \cup Requests
  BY DEF TypeOK
<1>2. <<>> \in Seq(Answers)
  OBVIOUS
<1>3. live[s].answers \in Seq(Answers)
  <2>1. CASE live[s] = Idle
    BY <2>1, <1>2 DEF Idle
  <2>2. CASE live[s] \in Requests
    BY <2>2 DEF Requests
  <2> QED BY <1>1, <2>1, <2>2
<1>4. ASSUME NEW a \in Answers PROVE Append(live[s].answers, a) \in Seq(Answers)
  BY <1>3
<1>5. CASE h = <<>>
  BY <1>2, <1>3, <1>5
<1>6. CASE \E a \in Answers : h = Append(live[s].answers, a)
  BY <1>3, <1>4, <1>6
<1> QED BY <1>5, <1>6 DEF AnswersOf

\* The Update of a run that has not committed is its last answer.
LEMMA UpdateIsLast ==
    ASSUME TypeOK, Shape, NEW s \in Sessions, live[s].commit = NoCommit,
           NEW h, AnswersOf(s, h), NEW k \in UpdateAt(h)
    PROVE  /\ Len(h) <= 3
           /\ h[k] \in Updates
           /\ h[k - 1] \in Queries
<1>1. h \in Seq(Answers) /\ live[s].answers \in Seq(Answers)
  BY AnswersTyped
<1>2. k \in {2, 3} /\ k \in 1..Len(h) /\ h[k].type = "update" /\ h[k - 1].type = "query"
  BY <1>1 DEF UpdateAt
<1>3. Len(h) <= 3
  <2>1. h # <<>>
    BY <1>2, <1>1
  <2> QED BY <1>1, <2>1 DEF AnswersOf, Shape
<1>4. h[k] \in Answers /\ h[k - 1] \in Answers
  BY <1>1, <1>2
<1> QED BY <1>2, <1>3, <1>4 DEF Answers, Empty, Queries, Updates

LedgerTypes ==
    /\ available \in BOOLEAN
    /\ generation \in 0..MaxGeneration /\ result \in 0..MaxGeneration
    /\ sequences \in SequenceMap /\ digest \in Digests \cup {NoDigest}
    /\ catalog \in Payloads \cup {NoPayload}
    /\ application \in [component : Apps \cup {NoComponent},
                        payload : Payloads \cup {NoPayload}]

SessionTypes ==
    /\ live \in [Sessions -> {Idle} \cup Requests]
    /\ \A s \in Sessions : Len(live[s].answers) <= 3
    /\ pending \in [Sessions -> {NoPost} \cup Posts]
    /\ Shape

\* No component goes back.
Grows == \A c \in Component : sequences'[c] >= sequences[c]

LEMMA Parts == (TypeOK /\ Shape) <=> (LedgerTypes /\ SessionTypes)
BY DEF TypeOK, LedgerTypes, SessionTypes

\* An accepted commit keeps the ledger's types and moves one component up.
LEMMA InstallTyped ==
    ASSUME LedgerTypes, NEW c,
           c.component \in {Catalog} \cup Apps, c.sequence \in 0..MaxSequence,
           c.payload \in Payloads, c.query \in QueryResponses,
           Install(c), result' = result \/ result' = generation'
    PROVE  /\ LedgerTypes' /\ Grows
           /\ generation < MaxGeneration
           /\ sequences'[c.component] = c.sequence
<1>1. /\ c.sequence > sequences[c.component]
      /\ sequences' = [sequences EXCEPT ![c.component] = c.sequence]
      /\ generation' = generation + 1 /\ generation < MaxGeneration
      /\ digest' = c.query /\ available' = available
  BY DEF Install, Ledger!InstallCatalog, Ledger!InstallApplication, Ledger!Advance
<1>2. c.component \in Component
  BY DEF Component
<1>3. sequences' \in SequenceMap
  BY <1>1, <1>2 DEF LedgerTypes, SequenceMap
<1>4. generation' \in 0..MaxGeneration /\ result' \in 0..MaxGeneration
  BY <1>1, BoundsAssumption DEF LedgerTypes
<1>5. /\ catalog' \in Payloads \cup {NoPayload}
      /\ application' \in [component : Apps \cup {NoComponent},
                           payload : Payloads \cup {NoPayload}]
  BY DEF LedgerTypes, Install, Ledger!InstallCatalog, Ledger!InstallApplication
<1>6. sequences'[c.component] = c.sequence /\ Grows
  BY <1>1, <1>2 DEF LedgerTypes, SequenceMap, Grows, Unknown
<1> QED BY <1>1, <1>3, <1>4, <1>5, <1>6, QueryResponsesAssumption DEF LedgerTypes

\* The end of a request.
LEMMA EndTyped ==
    ASSUME SessionTypes, NEW s \in Sessions, End(s)
    PROVE  SessionTypes'
<1>1. live' \in [Sessions -> {Idle} \cup Requests]
  BY DEF SessionTypes, End
<1>2. pending' \in [Sessions -> {NoPost} \cup Posts]
  BY DEF SessionTypes, End
<1>3. Len(<<>>) = 0 /\ DOMAIN <<>> = {}
  OBVIOUS
<1>4. \A t \in Sessions : live'[t] = live[t] \/ live'[t] = Idle
  BY DEF SessionTypes, End
<1>5. Idle.answers = <<>>
  BY DEF Idle
<1>6. ASSUME NEW t \in Sessions
      PROVE  /\ Len(live'[t].answers) <= 3
             /\ live'[t].commit = NoCommit =>
                  /\ Len(live'[t].answers) <= 2
                  /\ \A i \in DOMAIN live'[t].answers : live'[t].answers[i].type = "query"
  <2>1. CASE live'[t] = live[t]
    BY <2>1 DEF SessionTypes, Shape
  <2>2. CASE live'[t] = Idle
    BY <2>2, <1>3, <1>5
  <2> QED BY <1>4, <2>1, <2>2
<1> QED BY <1>1, <1>2, <1>6 DEF SessionTypes, Shape

\* The suspension of a request.
LEMMA SuspendTyped ==
    ASSUME SessionTypes, NEW s \in Sessions, NEW cmd \in Apps,
           NEW h \in Seq(Answers), Len(h) <= 3,
           NEW c \in Commits, NEW post \in Posts,
           c = NoCommit => Len(h) <= 2 /\ \A i \in DOMAIN h : h[i].type = "query",
           Suspend(s, cmd, h, c, post)
    PROVE  SessionTypes'
<1> DEFINE r == [command |-> cmd, answers |-> h, commit |-> c]
<1>1. r \in Requests /\ r.answers = h /\ r.commit = c
  BY DEF Requests
<1>2. live' = [live EXCEPT ![s] = r] /\ pending' = [pending EXCEPT ![s] = post]
  BY DEF Suspend
<1> HIDE DEF r
<1>3. live' \in [Sessions -> {Idle} \cup Requests]
  BY <1>1, <1>2 DEF SessionTypes
<1>4. pending' \in [Sessions -> {NoPost} \cup Posts]
  BY <1>2 DEF SessionTypes
<1>5. \A t \in Sessions : live'[t] = live[t] \/ live'[t] = r
  BY <1>2 DEF SessionTypes
<1> QED BY <1>1, <1>3, <1>4, <1>5 DEF SessionTypes, Shape

\* What a pending Success names.
LEMMA SuccessTyped ==
    ASSUME NEW p \in {NoPost} \cup Posts, p.type = "success"
    PROVE  p.component \in Component /\ p.sequence \in Nat
<1>1. PICK m \in Manifests : p = Success(m)
  BY DEF NoPost, Posts, Hello, QueryResponse
<1>2. m.component \in Component /\ m.sequence \in 0..MaxSequence
  BY ManifestsAssumption DEF Component
<1> QED BY <1>1, <1>2, BoundsAssumption DEF Success

\* Success stays backed by the ledger when components only move up.
LEMMA SuccessKept ==
    ASSUME LedgerTypes, LedgerTypes', SessionTypes, SuccessOnlyAfterCommit, Grows,
           NEW s \in Sessions, NEW post, pending' = [pending EXCEPT ![s] = post],
           post.type = "success" => sequences'[post.component] >= post.sequence
    PROVE  SuccessOnlyAfterCommit'
<1> SUFFICES ASSUME NEW t \in Sessions, pending'[t].type = "success"
             PROVE  sequences'[pending'[t].component] >= pending'[t].sequence
  BY DEF SuccessOnlyAfterCommit
<1>1. CASE t = s
  BY <1>1 DEF SessionTypes
<1>2. CASE t # s
  <2>1. pending'[t] = pending[t] /\ pending[t] \in {NoPost} \cup Posts
    BY <1>2 DEF SessionTypes
  <2>2. pending[t].component \in Component /\ pending[t].sequence \in Nat
    BY <2>1, SuccessTyped
  <2>3. sequences[pending[t].component] >= pending[t].sequence
    BY <2>1 DEF SuccessOnlyAfterCommit
  <2>4. sequences'[pending[t].component] >= sequences[pending[t].component]
    BY <2>2 DEF Grows
  <2>5. /\ sequences[pending[t].component] \in Int
        /\ sequences'[pending[t].component] \in Int
    BY <2>2, BoundsAssumption DEF LedgerTypes, SequenceMap, Unknown
  <2> QED BY <2>1, <2>2, <2>3, <2>4, <2>5
<1> QED BY <1>1, <1>2

\* A step that leaves the ledger alone and ends or keeps every request.
LEMMA QuietStep ==
    ASSUME ExchangeInv, UNCHANGED <<ledger, result>>, SessionTypes',
           NEW s \in Sessions, NEW post, pending' = [pending EXCEPT ![s] = post],
           post.type # "success"
    PROVE  ExchangeInv'
<1>1. LedgerTypes /\ SessionTypes /\ SuccessOnlyAfterCommit
  BY Parts DEF ExchangeInv
<1>2. LedgerTypes'
  BY <1>1 DEF LedgerTypes, ledger
<1>3. Grows
  BY <1>1, BoundsAssumption DEF Grows, ledger, LedgerTypes, SequenceMap, Unknown
<1>4. SuccessOnlyAfterCommit'
  BY <1>1, <1>2, <1>3, SuccessKept
<1>5. TypeOK' /\ Shape'
  BY <1>2 DEF TypeOK, LedgerTypes, SessionTypes
<1> QED BY <1>4, <1>5 DEF ExchangeInv

\* A request that ends, without a commit.
LEMMA QuietEnd ==
    ASSUME ExchangeInv, UNCHANGED <<ledger, result>>, NEW s \in Sessions, End(s)
    PROVE  ExchangeInv'
<1>1. SessionTypes'
  BY Parts, EndTyped DEF ExchangeInv
<1>2. pending' = [pending EXCEPT ![s] = NoPost] /\ NoPost.type # "success"
  BY DEF End, NoPost
<1> QED BY <1>1, <1>2, QuietStep

\* The QueryResponse to a QueryRequest is one.
LEMMA ResponseTyped ==
    ASSUME NEW cmd \in Apps, NEW v, NEW q \in Queries
    PROVE  Response(cmd, v, q) \in QueryResponses
BY DEF Response, Requested, Component, QueryResponses, Queries

\* The Agent POSTs QueryResponses or Hello.
LEMMA AskStep ==
    ASSUME ExchangeInv, NEW s \in Sessions, NEW cmd \in Apps, NEW h, NEW v,
           AnswersOf(s, h), Asks(h),
           Suspend(s, cmd, h, live[s].commit,
                   IF h = <<>> THEN Hello
                   ELSE QueryResponse(Response(cmd, v, h[Len(h)]))),
           UNCHANGED <<ledger, result>>
    PROVE  ExchangeInv'
<1> DEFINE post == IF h = <<>> THEN Hello
                   ELSE QueryResponse(Response(cmd, v, h[Len(h)]))
<1>1. TypeOK /\ SessionTypes
  BY Parts DEF ExchangeInv
<1>2. h \in Seq(Answers)
  BY <1>1, AnswersTyped
<1>3. post \in Posts /\ post.type # "success"
  <2>1. CASE h = <<>>
    BY <2>1 DEF Hello, Posts
  <2>2. CASE h # <<>>
    <3>1. h[Len(h)] \in Answers /\ h[Len(h)].type = "query"
      BY <1>2, <2>2 DEF Asks
    <3>2. h[Len(h)] \in Queries
      BY <3>1 DEF Answers, Empty, Updates
    <3>3. Response(cmd, v, h[Len(h)]) \in QueryResponses
      BY <3>2, ResponseTyped
    <3> QED BY <2>2, <3>3 DEF QueryResponse, Posts
  <2> QED BY <2>1, <2>2
<1> HIDE DEF post
<1>4. live[s].commit \in Commits
  <2>1. live[s] \in {Idle} \cup Requests
    BY <1>1 DEF TypeOK
  <2> QED BY <2>1 DEF Idle, Requests, Commits
<1>5. Suspend(s, cmd, h, live[s].commit, post)
  BY DEF post
<1>6. Len(h) <= 2 /\ \A i \in DOMAIN h : h[i].type = "query"
  BY DEF Asks
<1>7. Len(h) <= 3
  BY <1>2, <1>6
<1>8. SessionTypes'
  BY <1>1, <1>2, <1>3, <1>4, <1>5, <1>6, <1>7, SuspendTyped
<1>9. pending' = [pending EXCEPT ![s] = post]
  BY <1>5 DEF Suspend
<1> QED BY <1>3, <1>8, <1>9, QuietStep

\* The commit of an Update, and the Success that follows it.
LEMMA CommitStep ==
    ASSUME ExchangeInv, NEW s \in Sessions, NEW cmd \in Apps, NEW h, NEW v,
           AnswersOf(s, h), NEW k \in UpdateAt(h),
           Commit(s, cmd, h, CommitOf(cmd, v, h[k - 1], h[k].manifest))
    PROVE  ExchangeInv'
<1> DEFINE m == h[k].manifest
           c == CommitOf(cmd, v, h[k - 1], m)
<1>1. TypeOK /\ Shape /\ LedgerTypes /\ SessionTypes /\ SuccessOnlyAfterCommit
  BY Parts DEF ExchangeInv
<1>2. Accepts(s, cmd, h, c) \/ (End(s) /\ UNCHANGED <<ledger, result, last>>)
  BY CommitCases
<1>3. CASE End(s) /\ UNCHANGED <<ledger, result, last>>
  BY <1>3, QuietEnd
<1>4. CASE Accepts(s, cmd, h, c)
  <2>1. live[s].commit = NoCommit
    BY <1>4 DEF Accepts
  <2>2. Len(h) <= 3 /\ h[k] \in Updates /\ h[k - 1] \in Queries /\ h \in Seq(Answers)
    BY <1>1, <2>1, UpdateIsLast, AnswersTyped
  <2>3. m \in Manifests /\ m.component \in {Catalog} \cup Apps
          /\ m.sequence \in 0..MaxSequence /\ m.payload \in Payloads
    BY <2>2, ManifestsAssumption DEF Updates
  <2>4. Response(cmd, v, h[k - 1]) \in QueryResponses
    BY <2>2, ResponseTyped
  <2>5. /\ c.component = m.component /\ c.sequence = m.sequence /\ c.payload = m.payload
        /\ c.query = Response(cmd, v, h[k - 1])
        /\ c.expected = v.generation /\ c.new = v.generation + 1
        /\ c = [component |-> m.component, sequence |-> m.sequence,
                payload |-> m.payload, query |-> Response(cmd, v, h[k - 1]),
                expected |-> v.generation, new |-> v.generation + 1]
    BY DEF CommitOf
  <2> HIDE DEF m, c
  <2>6. c.expected = generation /\ Install(c) /\ (result' = result \/ result' = generation')
    BY <1>4 DEF Accepts
  <2>7. /\ LedgerTypes' /\ Grows /\ generation < MaxGeneration
        /\ sequences'[c.component] = c.sequence
    BY <1>1, <2>3, <2>4, <2>5, <2>6, InstallTyped
  <2>8. SessionTypes' /\ SuccessOnlyAfterCommit'
    <3>1. CASE End(s)
      <4>1. pending' = [pending EXCEPT ![s] = NoPost] /\ NoPost.type # "success"
        BY <3>1 DEF End, NoPost
      <4> QED BY <1>1, <2>7, <3>1, <4>1, EndTyped, SuccessKept
    <3>2. CASE Suspend(s, cmd, h, c, Success(c))
      <4>1. generation \in 0..MaxGeneration
        BY <1>1 DEF LedgerTypes
      <4>2. c \in Commits /\ c # NoCommit
        <5>1. v.generation \in 0..MaxGeneration /\ v.generation + 1 \in 1..MaxGeneration
          BY <4>1, <2>5, <2>6, <2>7, BoundsAssumption
        <5>2. c \in Commits
          BY <5>1, <2>3, <2>4, <2>5 DEF Commits
        <5>3. c.new # NoCommit.new
          BY <5>1, <2>5, BoundsAssumption DEF NoCommit
        <5> QED BY <5>2, <5>3
      <4>3. Success(c) = Success(m)
        BY <2>5 DEF Success
      <4>4. Success(c) \in Posts
        BY <4>3, <2>3 DEF Posts
      <4>5. SessionTypes'
        BY <1>1, <2>2, <3>2, <4>2, <4>4, SuspendTyped
      <4>6. pending' = [pending EXCEPT ![s] = Success(c)]
        BY <3>2 DEF Suspend
      <4>7. Success(c).component = c.component /\ Success(c).sequence = c.sequence
        BY DEF Success
      <4>8. c.sequence >= c.sequence
        BY <2>3, <2>5, BoundsAssumption
      <4>9. sequences'[Success(c).component] >= Success(c).sequence
        BY <4>7, <4>8, <2>7
      <4> QED BY <1>1, <2>7, <4>5, <4>6, <4>9, SuccessKept
    <3> QED BY <1>4, <3>1, <3>2 DEF Accepts
  <2> QED BY <2>7, <2>8 DEF ExchangeInv, TypeOK, LedgerTypes, SessionTypes
<1> QED BY <1>2, <1>3, <1>4

\* A run of the Agent preserves the invariant.
LEMMA RunStep ==
    ASSUME ExchangeInv, NEW s \in Sessions, NEW cmd \in Apps, NEW h,
           AnswersOf(s, h), Run(s, cmd, h)
    PROVE  ExchangeInv'
<1>1. ASSUME NEW v, Execute(s, cmd, v) PROVE ExchangeInv'
  BY <1>1, QuietEnd DEF Execute
<1>2. ASSUME NEW v, NEW c, Replay(s, cmd, h, v, c) PROVE ExchangeInv'
  BY <1>1, <1>2, QuietEnd DEF Replay
<1>3. ASSUME NEW v, NEW k \in UpdateAt(h),
             LET c == CommitOf(cmd, v, h[k - 1], h[k].manifest)
             IN  Commit(s, cmd, h, c) \/ Replay(s, cmd, h, v, c)
      PROVE  ExchangeInv'
  BY <1>2, <1>3, CommitStep
<1>4. ASSUME NEW v, Asks(h),
             Suspend(s, cmd, h, live[s].commit,
                     IF h = <<>> THEN Hello
                     ELSE QueryResponse(Response(cmd, v, h[Len(h)]))),
             UNCHANGED <<ledger, result, last, ran>>
      PROVE  ExchangeInv'
  BY <1>4, AskStep
<1> QED BY <1>1, <1>3, <1>4 DEF Run

(***************************************************************************)
(* ExchangeInv is inductive: whatever the sessions do, the types hold, a   *)
(* request keeps at most three answers, and no Success is POSTed for an    *)
(* acceptance that the ledger does not hold.                               *)
(***************************************************************************)
LEMMA ExchangeCorrect == Spec => []ExchangeInv
<1>1. Init => ExchangeInv
  <2> SUFFICES ASSUME Init PROVE ExchangeInv
    OBVIOUS
  <2>1. LedgerTypes
    BY ProvisionedAssumption, BoundsAssumption
    DEF Init, LedgerTypes, Ledger!NoApplication
  <2>2. Idle.answers = <<>> /\ Len(<<>>) = 0 /\ DOMAIN <<>> = {}
    BY DEF Idle
  <2>3. \A s \in Sessions : live[s] = Idle /\ pending[s] = NoPost
    BY DEF Init
  <2>4. live \in [Sessions -> {Idle} \cup Requests]
        /\ pending \in [Sessions -> {NoPost} \cup Posts]
    BY DEF Init
  <2>5. SessionTypes
    BY <2>2, <2>3, <2>4 DEF SessionTypes, Shape
  <2>6. SuccessOnlyAfterCommit
    BY <2>3 DEF SuccessOnlyAfterCommit, NoPost
  <2> QED BY <2>1, <2>5, <2>6, Parts DEF ExchangeInv
<1>2. ExchangeInv /\ [Next]_vars => ExchangeInv'
  <2> SUFFICES ASSUME ExchangeInv, [Next]_vars PROVE ExchangeInv'
    OBVIOUS
  <2>1. ASSUME NEW s \in Sessions, NEW cmd \in Apps, Start(s, cmd)
        PROVE  ExchangeInv'
    <3>1. AnswersOf(s, <<>>)
      BY <2>1 DEF Start, AnswersOf, Idle
    <3> QED BY <2>1, <3>1, RunStep DEF Start
  <2>2. ASSUME NEW s \in Sessions, NEW a \in Answers, Resume(s, a)
        PROVE  ExchangeInv'
    <3>1. live[s].command \in Apps
      BY <2>2 DEF Resume, ExchangeInv, TypeOK, Requests
    <3>2. AnswersOf(s, Append(live[s].answers, a))
      BY DEF AnswersOf
    <3> QED BY <2>2, <3>1, <3>2, RunStep DEF Resume
  <2>3. ASSUME NEW s \in Sessions, RequestFails(s) PROVE ExchangeInv'
    BY <2>3, QuietEnd DEF RequestFails
  <2>4. CASE Crash
    <3>1. LedgerTypes'
      BY <2>4 DEF Crash, Ledger!LoseFirstCommit, ledger, ExchangeInv, TypeOK, LedgerTypes
    <3>2. Idle.answers = <<>> /\ Len(<<>>) = 0 /\ DOMAIN <<>> = {}
      BY DEF Idle
    <3>3. \A s \in Sessions : live'[s] = Idle /\ pending'[s] = NoPost
      BY <2>4 DEF Crash
    <3>4. live' \in [Sessions -> {Idle} \cup Requests]
          /\ pending' \in [Sessions -> {NoPost} \cup Posts]
      BY <2>4 DEF Crash
    <3>5. SessionTypes'
      BY <3>2, <3>3, <3>4 DEF SessionTypes, Shape
    <3>6. SuccessOnlyAfterCommit'
      BY <3>3 DEF SuccessOnlyAfterCommit, NoPost
    <3> QED BY <3>1, <3>5, <3>6 DEF ExchangeInv, TypeOK, LedgerTypes, SessionTypes
  <2>5. CASE UNCHANGED vars
    BY <2>5 DEF vars, ledger, ExchangeInv, TypeOK, Shape, SuccessOnlyAfterCommit
  <2> QED BY <2>1, <2>2, <2>3, <2>4, <2>5 DEF Next
<1> QED BY <1>1, <1>2, PTL DEF Spec

\* The types of the exchange, for every set of sessions and manifests.
THEOREM ExchangeTypes == Spec => []TypeOK
<1>1. ExchangeInv => TypeOK
  BY DEF ExchangeInv
<1> QED BY <1>1, ExchangeCorrect, PTL

\* No Success without a commit that the ledger holds.
THEOREM SuccessCorrect == Spec => []SuccessOnlyAfterCommit
<1>1. ExchangeInv => SuccessOnlyAfterCommit
  BY DEF ExchangeInv
<1> QED BY <1>1, ExchangeCorrect, PTL

----------------------------------------------------------------------------
(***************************************************************************)
(* Why a re-execution repeats its commit.  A recorded commit has the       *)
(* arguments of the Update among the request's own answers; it is of a     *)
(* generation the ledger has reached; and while no other acceptance has    *)
(* followed, the ledger still holds what it installed.                     *)
(***************************************************************************)
Records(r, q, m) ==
    /\ r.component = m.component /\ r.sequence = m.sequence /\ r.payload = m.payload
    /\ r.query = [component |-> r.query.component,
                  nonce |-> q.nonce, evidence |-> q.challenge]

InForce(r) ==
    /\ sequences[r.component] = r.sequence
    /\ r.component # Catalog =>
         /\ r.payload # NoPayload
         /\ application.payload = r.payload
         /\ catalog # NoPayload
         /\ Authorizes[catalog][r.component] = r.payload

RecordedInv(s) ==
    LET r == live[s].commit
        h == live[s].answers
    IN  /\ \E k \in UpdateAt(h) : Records(r, h[k - 1], h[k].manifest)
        /\ r.query.component \in {Catalog, live[s].command}
        /\ r.component \in {Catalog, r.query.component}
        /\ r.new \in Nat /\ r.new <= generation
        /\ generation = r.new => InForce(r)

ReplayInv == \A s \in Sessions : live[s].commit # NoCommit => RecordedInv(s)

\* A request's Update has one position.
LEMMA UpdateOnce ==
    ASSUME NEW h, NEW j \in UpdateAt(h), NEW k \in UpdateAt(h)
    PROVE  j = k
<1>1. j \in {2, 3} /\ k \in {2, 3} /\ h[j].type = "update" /\ h[k].type = "update"
  BY DEF UpdateAt
<1>2. ASSUME j = 2, k = 3 PROVE FALSE
  <2>1. 2 \in 1..(k - 1)
    BY <1>2
  <2> QED BY <1>1, <1>2, <2>1 DEF UpdateAt
<1>3. ASSUME j = 3, k = 2 PROVE FALSE
  <2>1. 2 \in 1..(j - 1)
    BY <1>3
  <2> QED BY <1>1, <1>3, <2>1 DEF UpdateAt
<1> QED BY <1>1, <1>2, <1>3

\* With its Update among its answers, a request asks no more questions.
LEMMA UpdateAnswered ==
    ASSUME TypeOK, NEW s \in Sessions, NEW k \in UpdateAt(live[s].answers), NEW a \in Answers
    PROVE  ~ Asks(Append(live[s].answers, a))
<1> DEFINE g == live[s].answers
           h == Append(g, a)
<1>1. AnswersOf(s, h)
  BY DEF AnswersOf
<1>2. g \in Seq(Answers)
  BY <1>1, AnswersTyped
<1>3. k \in DOMAIN g /\ g[k].type = "update"
  BY DEF UpdateAt
<1> HIDE DEF g
<1>4. k \in DOMAIN h /\ h[k] = g[k]
  BY <1>2, <1>3
<1> QED BY <1>3, <1>4 DEF Asks, g

\* A commit that is accepted is recorded and in force.
LEMMA CommitRecorded ==
    ASSUME ExchangeInv, NEW s \in Sessions, NEW cmd \in Apps, NEW h, NEW fault,
           AnswersOf(s, h), NEW k \in UpdateAt(h),
           Acceptable(cmd, View(s, fault), h[k - 1], h[k].manifest),
           LET c == CommitOf(cmd, View(s, fault), h[k - 1], h[k].manifest)
           IN  Accepts(s, cmd, h, c) /\ Suspend(s, cmd, h, c, Success(c))
    PROVE  RecordedInv(s)'
<1> DEFINE v == View(s, fault)
           q == h[k - 1]
           m == h[k].manifest
           c == CommitOf(cmd, v, q, m)
<1>1. TypeOK /\ Shape /\ LedgerTypes
  BY Parts DEF ExchangeInv
<1>2. /\ live[s].commit = NoCommit /\ c.expected = generation /\ Install(c)
      /\ result' = result \/ result' = generation'
  BY DEF Accepts
<1>3. h[k] \in Updates /\ q \in Queries
  BY <1>1, <1>2, UpdateIsLast
<1>4. m \in Manifests /\ m.component \in {Catalog} \cup Apps
        /\ m.sequence \in 0..MaxSequence /\ m.payload \in Payloads
  BY <1>3, ManifestsAssumption DEF Updates
<1>5. /\ c.component = m.component /\ c.sequence = m.sequence /\ c.payload = m.payload
      /\ c.query = Response(cmd, v, q)
      /\ c.expected = v.generation /\ c.new = v.generation + 1
  BY DEF CommitOf
<1>6. /\ Response(cmd, v, q) \in QueryResponses
      /\ Response(cmd, v, q).component = Requested(cmd, v)
      /\ Response(cmd, v, q) = [component |-> Requested(cmd, v), nonce |-> q.nonce,
                                evidence |-> q.challenge]
  BY <1>3, ResponseTyped DEF Response
<1>7. /\ Requested(cmd, v) \in {Catalog, cmd}
      /\ m.component \in {Requested(cmd, v), Catalog}
      /\ m.component # Catalog =>
           v.catalog # NoPayload /\ Authorizes[v.catalog][m.component] = m.payload
  BY DEF Requested, Acceptable
<1>8. v.catalog # NoPayload => v.catalog = catalog
  BY ViewCatalog
<1>9. /\ live'[s].commit = c /\ live'[s].answers = h /\ live'[s].command = cmd
  BY <1>1 DEF Suspend, TypeOK
<1> HIDE DEF v, q, c
<1>10. sequences'[c.component] = c.sequence
  BY <1>1, <1>2, <1>4, <1>5, <1>6, InstallTyped
<1>11. generation' = generation + 1 /\ generation \in Nat
  BY <1>1, <1>2, BoundsAssumption DEF Install, LedgerTypes
<1>12. c.component # Catalog => catalog' = catalog /\ application'.payload = c.payload
  BY <1>2 DEF Install, Ledger!InstallApplication
<1>13. InForce(live[s].commit)'
  BY <1>4, <1>5, <1>7, <1>8, <1>9, <1>10, <1>12, PayloadsDistinct DEF InForce
<1>14. Records(live'[s].commit, live'[s].answers[k - 1], live'[s].answers[k].manifest)
  BY <1>5, <1>6, <1>9 DEF Records, q
<1>15. c.new = generation' /\ c.new \in Nat /\ c.new <= generation'
  <2>1. c.new = generation'
    BY <1>2, <1>5, <1>11
  <2>2. generation' \in Nat
    BY <1>11
  <2> QED BY <2>1, <2>2
<1>16. k \in UpdateAt(live'[s].answers)
  BY <1>9
<1>17. /\ live'[s].commit.query.component \in {Catalog, live'[s].command}
       /\ live'[s].commit.component \in {Catalog, live'[s].commit.query.component}
  BY <1>5, <1>6, <1>7, <1>9
<1> QED BY <1>9, <1>13, <1>14, <1>15, <1>16, <1>17 DEF RecordedInv

\* Without an acceptance, a session whose request goes on keeps its record.
LEMMA RecordKept ==
    ASSUME NEW t \in Sessions, RecordedInv(t), UNCHANGED ledger, live'[t] = live[t]
    PROVE  RecordedInv(t)'
BY DEF RecordedInv, InForce, ledger

\* An acceptance of another session outdates the record.
LEMMA RecordOutdated ==
    ASSUME NEW t \in Sessions, RecordedInv(t), live'[t] = live[t],
           generation \in Nat, generation' = generation + 1
    PROVE  RecordedInv(t)'
<1>1. live[t].commit.new \in Nat /\ live[t].commit.new <= generation
  BY DEF RecordedInv
<1>2. live[t].commit.new <= generation' /\ generation' # live[t].commit.new
  BY <1>1
<1> QED BY <1>1, <1>2 DEF RecordedInv

\* A request that ends, while the ledger is left alone.
LEMMA ReplayEnd ==
    ASSUME TypeOK, ReplayInv, NEW s \in Sessions, End(s), UNCHANGED ledger
    PROVE  ReplayInv'
<1> SUFFICES ASSUME NEW t \in Sessions, live'[t].commit # NoCommit PROVE RecordedInv(t)'
  BY DEF ReplayInv
<1>1. live'[t] = live[t]
  BY DEF End, TypeOK, Idle
<1> QED BY <1>1, RecordKept DEF ReplayInv

\* A run of the Agent keeps the records, and makes one when it commits.
LEMMA ReplayRun ==
    ASSUME ExchangeInv, ReplayInv, NEW s \in Sessions, NEW cmd \in Apps, NEW h,
           AnswersOf(s, h), Run(s, cmd, h)
    PROVE  ReplayInv'
<1>1. TypeOK /\ LedgerTypes
  BY Parts DEF ExchangeInv
<1>2. ASSUME NEW v, Execute(s, cmd, v) PROVE ReplayInv'
  BY <1>1, <1>2, ReplayEnd DEF Execute
<1>3. ASSUME NEW v, NEW c, Replay(s, cmd, h, v, c) PROVE ReplayInv'
  BY <1>1, <1>2, <1>3, ReplayEnd DEF Replay
<1>4. ASSUME NEW post, Asks(h), Suspend(s, cmd, h, live[s].commit, post), UNCHANGED ledger
      PROVE  ReplayInv'
  <2>1. live[s].commit = NoCommit
    <3> SUFFICES ASSUME live[s].commit # NoCommit PROVE FALSE
      OBVIOUS
    <3>1. PICK k : k \in UpdateAt(live[s].answers)
      BY DEF ReplayInv, RecordedInv
    <3>2. PICK a \in Answers : h = Append(live[s].answers, a)
      BY DEF AnswersOf
    <3> QED BY <1>1, <1>4, <3>1, <3>2, UpdateAnswered
  <2> SUFFICES ASSUME NEW t \in Sessions, live'[t].commit # NoCommit PROVE RecordedInv(t)'
    BY DEF ReplayInv
  <2>2. live'[t] = live[t]
    BY <1>1, <1>4, <2>1 DEF Suspend, TypeOK
  <2> QED BY <1>4, <2>2, RecordKept DEF ReplayInv
<1>5. ASSUME NEW fault, NEW k \in UpdateAt(h),
             Acceptable(cmd, View(s, fault), h[k - 1], h[k].manifest),
             Commit(s, cmd, h, CommitOf(cmd, View(s, fault), h[k - 1], h[k].manifest))
      PROVE  ReplayInv'
  <2> DEFINE c == CommitOf(cmd, View(s, fault), h[k - 1], h[k].manifest)
  <2>1. Accepts(s, cmd, h, c) \/ (End(s) /\ UNCHANGED <<ledger, result, last>>)
    BY <1>5, CommitCases
  <2>2. CASE End(s) /\ UNCHANGED <<ledger, result, last>>
    BY <1>1, <2>2, ReplayEnd
  <2>3. CASE Accepts(s, cmd, h, c)
    <3> SUFFICES ASSUME NEW t \in Sessions, live'[t].commit # NoCommit
                 PROVE  RecordedInv(t)'
      BY DEF ReplayInv
    <3>1. CASE Suspend(s, cmd, h, c, Success(c)) /\ t = s
      BY <1>5, <2>3, <3>1, CommitRecorded
    <3> HIDE DEF c
    <3>2. CASE ~ (Suspend(s, cmd, h, c, Success(c)) /\ t = s)
      <4>1. live'[t] = live[t]
        <5>1. live \in [Sessions -> {Idle} \cup Requests] /\ Idle.commit = NoCommit
          BY <1>1 DEF TypeOK, Idle
        <5>2. CASE Suspend(s, cmd, h, c, Success(c))
          BY <5>1, <5>2, <3>2 DEF Suspend
        <5>3. CASE End(s)
          BY <5>1, <5>3 DEF End
        <5> QED BY <2>3, <5>2, <5>3 DEF Accepts
      <4>2. generation \in Nat /\ generation' = generation + 1
        BY <1>1, <2>3, BoundsAssumption DEF LedgerTypes, Accepts, Install
      <4> QED BY <4>1, <4>2, RecordOutdated DEF ReplayInv
    <3> QED BY <3>1, <3>2
  <2> QED BY <2>1, <2>2, <2>3
<1>6. ASSUME NEW fault, NEW k \in UpdateAt(h),
             Acceptable(cmd, View(s, fault), h[k - 1], h[k].manifest),
             LET c == CommitOf(cmd, View(s, fault), h[k - 1], h[k].manifest)
             IN  Commit(s, cmd, h, c) \/ Replay(s, cmd, h, View(s, fault), c)
      PROVE  ReplayInv'
  BY <1>3, <1>5, <1>6
<1>7. ASSUME NEW v, Asks(h),
             Suspend(s, cmd, h, live[s].commit,
                     IF h = <<>> THEN Hello
                     ELSE QueryResponse(Response(cmd, v, h[Len(h)]))),
             UNCHANGED <<ledger, result, last, ran>>
      PROVE  ReplayInv'
  BY <1>4, <1>7
<1> QED BY <1>2, <1>6, <1>7 DEF Run

LEMMA ReplayInductive == Spec => []ReplayInv
<1>1. Init => ReplayInv
  BY DEF Init, ReplayInv, Idle
<1>2. ExchangeInv /\ ReplayInv /\ [Next]_vars => ReplayInv'
  <2> SUFFICES ASSUME ExchangeInv, ReplayInv, [Next]_vars PROVE ReplayInv'
    OBVIOUS
  <2>1. ASSUME NEW s \in Sessions, NEW cmd \in Apps, Start(s, cmd)
        PROVE  ReplayInv'
    <3>1. AnswersOf(s, <<>>)
      BY <2>1 DEF Start, AnswersOf, Idle
    <3> QED BY <2>1, <3>1, ReplayRun DEF Start
  <2>2. ASSUME NEW s \in Sessions, NEW a \in Answers, Resume(s, a)
        PROVE  ReplayInv'
    <3>1. live[s].command \in Apps
      BY <2>2 DEF Resume, ExchangeInv, TypeOK, Requests
    <3>2. AnswersOf(s, Append(live[s].answers, a))
      BY DEF AnswersOf
    <3> QED BY <2>2, <3>1, <3>2, ReplayRun DEF Resume
  <2>3. ASSUME NEW s \in Sessions, RequestFails(s) PROVE ReplayInv'
    BY <2>3, ReplayEnd DEF RequestFails, ExchangeInv
  <2>4. CASE Crash
    BY <2>4 DEF Crash, ReplayInv, Idle
  <2>5. CASE UNCHANGED vars
    BY <2>5, RecordKept DEF vars, ReplayInv
  <2> QED BY <2>1, <2>2, <2>3, <2>4, <2>5 DEF Next
<1> QED BY <1>1, <1>2, ExchangeCorrect, PTL DEF Spec

\* The commit that the next run derives from an undisturbed record's answers
\* has the record's arguments.
LEMMA RepeatsRecord ==
    ASSUME NEW s \in Sessions, live[s].commit # NoCommit, RecordedInv(s),
           Requested(live[s].command, View(s, "none")) = live[s].commit.query.component
    PROVE  LET c == Repeated(s)
               r == live[s].commit
           IN  /\ c.component = r.component /\ c.sequence = r.sequence
               /\ c.payload = r.payload /\ c.query = r.query
               /\ c.expected = r.expected
<1> DEFINE h == live[s].answers
           r == live[s].commit
           v == View(s, "none")
           j == CHOOSE i \in UpdateAt(h) : TRUE
<1>1. PICK k \in UpdateAt(h) : Records(r, h[k - 1], h[k].manifest)
  BY DEF RecordedInv
<1>2. j = k
  BY <1>1, UpdateOnce
<1>3. Repeated(s) = CommitOf(live[s].command, v, h[k - 1], h[k].manifest)
  BY <1>2 DEF Repeated
<1>4. v.generation = r.expected
  BY DEF View, ViewedGeneration
<1>5. Response(live[s].command, v, h[k - 1]) = r.query
  BY <1>1 DEF Response, Records
<1> HIDE DEF h, r, v
<1>6. LET c == CommitOf(live[s].command, v, h[k - 1], h[k].manifest)
      IN  /\ c.component = r.component /\ c.sequence = r.sequence
          /\ c.payload = r.payload /\ c.query = r.query /\ c.expected = r.expected
  BY <1>1, <1>4, <1>5 DEF CommitOf, Records
<1> QED BY <1>3, <1>6 DEF r

(***************************************************************************)
(* A request that has installed the component it asked for completes, for  *)
(* every set of sessions, Catalogs and manifests: unless another session   *)
(* has committed since, the re-executed Agent asks the TAM for the same    *)
(* component, repeats the recorded commit argument by argument, and the    *)
(* application it goes on to execute is the one just installed.            *)
(***************************************************************************)
THEOREM ReplayCorrect == Spec => []ReplayCompletes
<1>1. ExchangeInv /\ ReplayInv => ReplayCompletes
  <2> SUFFICES ASSUME ExchangeInv, ReplayInv, NEW s \in Sessions, Undisturbed(s),
                      live[s].commit.query.component = live[s].commit.component
               PROVE  /\ NeedsTam(live[s].command, View(s, "none"))
                      /\ ReplayMatches(s, Repeated(s))
                      /\ live[s].commit.component # Catalog =>
                           application.payload = Authorizes[catalog][live[s].command]
    BY DEF ReplayCompletes
  <2> DEFINE r == live[s].commit
             cmd == live[s].command
             v == View(s, "none")
  <2>1. r # NoCommit /\ RecordedInv(s) /\ InForce(r)
    BY DEF Undisturbed, ReplayInv, RecordedInv
  <2>2. r.component \in {Catalog, cmd}
    BY <2>1 DEF RecordedInv
  <2>3. NeedsTam(cmd, v) /\ Requested(cmd, v) = r.component
    <3>1. CASE r.component = Catalog
      <4>1. v.catalog = NoPayload
        BY <3>1 DEF View, ViewedCatalog
      <4> QED BY <3>1, <4>1 DEF NeedsTam, Unauthorized, Ready, Requested
    <3>2. CASE r.component # Catalog
      <4>1. r.component = cmd /\ r.component \in Apps
        BY <2>1, <2>2, <3>2 DEF ExchangeInv, TypeOK, Requests, Idle
      <4>2. v.catalog = catalog /\ v.app = NoPayload
        BY <4>1, <3>2 DEF View, ViewedCatalog, ViewedApp
      <4>3. catalog # NoPayload /\ Authorizes[catalog][cmd] # NoPayload
        BY <2>1, <3>2, <4>1 DEF InForce
      <4> QED BY <4>1, <4>2, <4>3 DEF NeedsTam, Unauthorized, Ready, Requested
    <3> QED BY <3>1, <3>2
  <2>4. ReplayMatches(s, Repeated(s))
    BY <2>1, <2>3, RepeatsRecord DEF ReplayMatches, InForce
  <2>5. r.component # Catalog => application.payload = Authorizes[catalog][cmd]
    BY <2>1, <2>2 DEF InForce
  <2> QED BY <2>3, <2>4, <2>5
<1> QED BY <1>1, ExchangeCorrect, ReplayInductive, PTL

============================================================================
