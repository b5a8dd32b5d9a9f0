-------------------------- MODULE ResolveOutputProofs --------------------------
(***************************************************************************)
(* The two runtimes read every output of the Agent alike: any number of    *)
(* pairs in any order, any digests, codes, fields, limits and maxima.      *)
(***************************************************************************)
EXTENDS ResolveOutput, TLAPS

LEMMA FreshTypes ==
    /\ ReeFresh \in Readers /\ Refused \in Readers
    /\ ErrorFresh \in ErrorReaders /\ ErrorRefused \in ErrorReaders
    /\ AppFresh \in AppReaders /\ AppRefused \in AppReaders
    /\ Values \subseteq 0..MaxUint32
<1>1. ReeDefault \in Limits /\ TaMax \in Limits /\ 0 \in 0..MaxUint32
  BY LimitsAssumption DEF Limits
<1>2. ReeFresh \in Readers /\ Refused \in Readers
  BY <1>1 DEF ReeFresh, Refused, Readers, TEEPStatus
<1>3. ErrorFresh \in ErrorReaders /\ ErrorRefused \in ErrorReaders
  BY DEF ErrorFresh, ErrorRefused, ErrorReaders
<1>4. AppFresh \in AppReaders /\ AppRefused \in AppReaders
  BY <1>1 DEF AppFresh, AppRefused, AppReaders
<1> QED BY <1>2, <1>3, <1>4, LimitsAssumption

\* What a reader that has refused the output has kept.
LEMMA FreshFields ==
    /\ Refused.status = "TEEP" /\ Refused.ok = FALSE /\ Refused.error = FALSE
    /\ Refused.app = FALSE /\ Refused.haveCode = FALSE
    /\ ErrorRefused.bad = TRUE /\ ErrorRefused.error = FALSE /\ ErrorRefused.code = Bad
    /\ AppRefused.bad = TRUE /\ AppRefused.app = FALSE /\ AppRefused.ok = FALSE
    /\ AppRefused.limits = TaMax
    /\ \A f \in LimitFields : TaMax[f] \in 1..TaMax[f]
<1>1. \A f \in LimitFields : TaMax[f] \in 1..TaMax[f]
  BY LimitsAssumption
<1> QED
  BY <1>1 DEF Refused, ReeFresh, ErrorRefused, ErrorFresh, AppRefused, AppFresh

LEMMA InitAgrees == Init => AgreeInv
<1> SUFFICES ASSUME Init PROVE AgreeInv
  OBVIOUS
<1>1. /\ at = "top" /\ verdict = "reading" /\ keys = {} /\ repeated = FALSE
      /\ ree = ReeFresh /\ taError = ErrorFresh /\ taApp = AppFresh /\ need = "no" /\ uneven = {}
  BY DEF Init
<1>2. TypeOK
  BY <1>1, FreshTypes DEF TypeOK
<1>3. PlaceInv /\ AppAgrees /\ ErrorAgrees
  BY <1>1 DEF PlaceInv, AppAgrees, ErrorAgrees, Reading, ReeFresh, ErrorFresh, AppFresh
<1>4. ClampInv
  BY <1>1, FreshFields DEF ClampInv, AppFresh
<1>5. EndInv /\ ReadAlike /\ LimitsBounded
  BY <1>1 DEF EndInv, ReadAlike, ResolvedAlike, SameApp, ErrorsAlike, LimitsBounded, Ended, ReeFresh
<1> QED BY <1>1, <1>2, <1>3, <1>4, <1>5 DEF AgreeInv, Ended

----------------------------------------------------------------------------
(* The types of what a pair does to a reader.                              *)

LEMMA CodeStatus ==
    ASSUME NEW c
    PROVE  teep_error_status_from_code(c) \in TEEPStatus \ {"OK"}
BY DEF teep_error_status_from_code, TEEPStatus

LEMMA ClampedTypes ==
    ASSUME NEW limits \in Limits, NEW max \in [LimitFields -> 1..MaxUint32]
    PROVE  /\ Clamped(limits, max) \in Limits
           /\ \A f \in LimitFields : Clamped(limits, max)[f] \in 1..max[f]
<1>1. ASSUME NEW f \in LimitFields
      PROVE  Clamped(limits, max)[f] \in 1..max[f] /\ Clamped(limits, max)[f] \in 0..MaxUint32
  <2>1. limits[f] \in 0..MaxUint32 /\ max[f] \in 1..MaxUint32
    BY DEF Limits
  <2> QED BY <2>1, LimitsAssumption DEF Clamped
<1>2. Clamped(limits, max) = [f \in LimitFields |-> Clamped(limits, max)[f]]
  BY DEF Clamped
<1> QED BY <1>1, <1>2 DEF Limits

LEMMA LimitSet ==
    ASSUME NEW limits \in Limits, NEW f \in LimitFields, NEW v \in Values
    PROVE  [limits EXCEPT ![f] = v] \in Limits
BY FreshTypes DEF Limits

LEMMA ReeTypes ==
    ASSUME NEW r \in Readers
    PROVE  /\ [r EXCEPT !.ok = TRUE] \in Readers
           /\ [r EXCEPT !.error = TRUE] \in Readers
           /\ [r EXCEPT !.haveCode = FALSE] \in Readers
           /\ \A c : [r EXCEPT !.errorStatus = teep_error_status_from_code(c),
                               !.haveCode = TRUE] \in Readers
           /\ [r EXCEPT !.have = {}] \in Readers
           /\ \A f \in TextFields : [r EXCEPT !.have = @ \cup {f}] \in Readers
           /\ \A d \in Digests : [r EXCEPT !.digest = d, !.have = @ \cup {"sha256"}] \in Readers
           /\ [r EXCEPT !.app = TRUE] \in Readers
           /\ \A f \in LimitFields, v \in Values : [r EXCEPT !.limits[f] = v] \in Readers
           /\ \A v \in Values : [r EXCEPT !.timeout = v] \in Readers
           /\ \A s \in TEEPStatus, limits \in Limits :
                 [r EXCEPT !.status = s, !.limits = limits] \in Readers
<1>1. /\ [r EXCEPT !.ok = TRUE] \in Readers
      /\ [r EXCEPT !.error = TRUE] \in Readers
      /\ [r EXCEPT !.haveCode = FALSE] \in Readers
      /\ [r EXCEPT !.app = TRUE] \in Readers
  BY DEF Readers
<1>2. ASSUME NEW c
      PROVE  [r EXCEPT !.errorStatus = teep_error_status_from_code(c), !.haveCode = TRUE] \in Readers
  BY CodeStatus DEF Readers
<1>3. [r EXCEPT !.have = {}] \in Readers
  BY DEF Readers
<1>4. ASSUME NEW f \in TextFields
      PROVE  [r EXCEPT !.have = @ \cup {f}] \in Readers
  <2>1. r.have \cup {f} \in SUBSET AppFields
    BY DEF Readers, AppFields
  <2> QED BY <2>1 DEF Readers
<1>5. ASSUME NEW d \in Digests
      PROVE  [r EXCEPT !.digest = d, !.have = @ \cup {"sha256"}] \in Readers
  <2>1. r.have \cup {"sha256"} \in SUBSET AppFields
    BY DEF Readers, AppFields
  <2> QED BY <2>1 DEF Readers
<1>6. ASSUME NEW f \in LimitFields, NEW v \in Values
      PROVE  [r EXCEPT !.limits[f] = v] \in Readers
  <2>1. [r.limits EXCEPT ![f] = v] \in Limits
    BY LimitSet DEF Readers
  <2> QED BY <2>1 DEF Readers
<1>7. ASSUME NEW v \in Values
      PROVE  [r EXCEPT !.timeout = v] \in Readers
  BY FreshTypes DEF Readers
<1>8. ASSUME NEW s \in TEEPStatus, NEW limits \in Limits
      PROVE  [r EXCEPT !.status = s, !.limits = limits] \in Readers
  BY DEF Readers
<1> QED BY <1>1, <1>2, <1>3, <1>4, <1>5, <1>6, <1>7, <1>8

LEMMA TaTypes ==
    ASSUME NEW e \in ErrorReaders, NEW a \in AppReaders
    PROVE  /\ \A b \in BOOLEAN : [e EXCEPT !.error = b] \in ErrorReaders
           /\ \A c \in Codes : [e EXCEPT !.code = c] \in ErrorReaders
           /\ [e EXCEPT !.message = TRUE] \in ErrorReaders
           /\ \A b \in BOOLEAN : [a EXCEPT !.ok = b] \in AppReaders
           /\ [a EXCEPT !.app = TRUE] \in AppReaders
           /\ \A d \in Digests : [a EXCEPT !.digest = d] \in AppReaders
           /\ \A f \in LimitFields, v \in Values : [a EXCEPT !.limits[f] = v] \in AppReaders
           /\ \A v \in Values : [a EXCEPT !.timeout = v] \in AppReaders
           /\ [a EXCEPT !.limits = Clamped(@, TaMax)] \in AppReaders
<1>1. /\ \A b \in BOOLEAN : [e EXCEPT !.error = b] \in ErrorReaders
      /\ \A c \in Codes : [e EXCEPT !.code = c] \in ErrorReaders
      /\ [e EXCEPT !.message = TRUE] \in ErrorReaders
  BY DEF ErrorReaders
<1>2. /\ \A b \in BOOLEAN : [a EXCEPT !.ok = b] \in AppReaders
      /\ [a EXCEPT !.app = TRUE] \in AppReaders
      /\ \A d \in Digests : [a EXCEPT !.digest = d] \in AppReaders
      /\ \A v \in Values : [a EXCEPT !.timeout = v] \in AppReaders
  BY FreshTypes DEF AppReaders
<1>3. ASSUME NEW f \in LimitFields, NEW v \in Values
      PROVE  [a EXCEPT !.limits[f] = v] \in AppReaders
  <2>1. [a.limits EXCEPT ![f] = v] \in Limits
    BY LimitSet DEF AppReaders
  <2> QED BY <2>1 DEF AppReaders
<1>4. [a EXCEPT !.limits = Clamped(@, TaMax)] \in AppReaders
  <2>1. Clamped(a.limits, TaMax) \in Limits
    BY ClampedTypes, LimitsAssumption DEF AppReaders
  <2> QED BY <2>1 DEF AppReaders
<1> QED BY <1>1, <1>2, <1>3, <1>4

----------------------------------------------------------------------------
(* One pair of the output.                                                 *)

\* A pair that does not end the output says nothing about an ended one.
LEMMA NotEnded ==
    ASSUME AgreeInv, at # "end", TypeOK', PlaceInv', AppAgrees', ErrorAgrees', ClampInv',
           at' # "end", ree'.status # "OK", verdict' = verdict
    PROVE  AgreeInv'
<1>1. EndInv'
  BY DEF AgreeInv, EndInv
<1>2. Ended' = FALSE
  BY DEF Ended
<1>3. ReadAlike' /\ LimitsBounded'
  BY <1>2 DEF ReadAlike, ResolvedAlike, SameApp, ErrorsAlike, LimitsBounded
<1> QED BY <1>1, <1>2, <1>3 DEF AgreeInv

LEMMA StatusAgrees ==
    ASSUME AgreeInv, NEW v \in {"ok", "error", "other", Bad},
           Status(v)
    PROVE  AgreeInv'
<1> USE DEF Status, Key, Read, ReadError, ReadApp
<1>0. TypeOK /\ at # "end" /\ ree \in Readers /\ taError \in ErrorReaders /\ taApp \in AppReaders
  BY DEF AgreeInv, TypeOK
<1>1. TypeOK'
  <2>1. ree' \in Readers
    BY <1>0, FreshTypes, ReeTypes
  <2>2. taError' \in ErrorReaders
    BY <1>0, FreshTypes, TaTypes
  <2>3. taApp' \in AppReaders
    BY <1>0, FreshTypes, TaTypes
  <2> QED BY <1>0, <2>1, <2>2, <2>3 DEF TypeOK
<1>2. PlaceInv'
  BY <1>0, FreshFields DEF AgreeInv, PlaceInv, Readers, ErrorReaders, AppReaders
<1>3. AppAgrees'
  <2>1. CASE v \in {"ok", "error"}
    <3>1. v # Bad
      BY <2>1, BadAssumption
    <3> QED BY <1>0, <2>1, <3>1, FreshFields DEF AgreeInv, PlaceInv, AppAgrees, Reading, Readers, ErrorReaders, AppReaders
  <2>2. CASE v \notin {"ok", "error"}
    BY <1>0, <2>2, FreshFields DEF AgreeInv, PlaceInv, AppAgrees, Reading, Readers, ErrorReaders, AppReaders
  <2> QED BY <2>1, <2>2
<1>4. ErrorAgrees'
  BY <1>0, FreshFields DEF AgreeInv, PlaceInv, ErrorAgrees, Reading, Readers, ErrorReaders
<1>5. ClampInv'
  BY <1>0, FreshFields DEF AgreeInv, ClampInv, AppReaders
<1>6. at' # "end" /\ ree'.status # "OK" /\ verdict' = verdict
  BY <1>0, FreshFields DEF AgreeInv, PlaceInv, Readers
<1> QED BY <1>0, <1>1, <1>2, <1>3, <1>4, <1>5, <1>6, NotEnded

LEMMA NeedHostIoAgrees ==
    ASSUME AgreeInv, NeedHostIo
    PROVE  AgreeInv'
<1> USE DEF NeedHostIo
<1>0. TypeOK /\ at # "end" /\ ree \in Readers /\ taError \in ErrorReaders /\ taApp \in AppReaders
  BY DEF AgreeInv, TypeOK
<1>1. TypeOK'
  <2>1. ree' \in Readers
    BY <1>0, FreshTypes, ReeTypes
  <2>2. taError' \in ErrorReaders
    BY <1>0, FreshTypes, TaTypes
  <2>3. taApp' \in AppReaders
    BY <1>0, FreshTypes, TaTypes
  <2> QED BY <1>0, <2>1, <2>2, <2>3 DEF TypeOK
<1>2. PlaceInv'
  BY <1>0, FreshFields DEF AgreeInv, PlaceInv, Readers, ErrorReaders, AppReaders
<1>3. AppAgrees'
  BY <1>0, FreshFields DEF AgreeInv, PlaceInv, AppAgrees, Reading, Readers, ErrorReaders, AppReaders
<1>4. ErrorAgrees'
  BY <1>0, FreshFields DEF AgreeInv, PlaceInv, ErrorAgrees, Reading, Readers, ErrorReaders
<1>5. ClampInv'
  BY <1>0, FreshFields DEF AgreeInv, ClampInv, AppReaders
<1>6. at' # "end" /\ ree'.status # "OK" /\ verdict' = verdict
  BY <1>0, FreshFields DEF AgreeInv, PlaceInv, Readers
<1> QED BY <1>0, <1>1, <1>2, <1>3, <1>4, <1>5, <1>6, NotEnded

LEMMA EnterErrorAgrees ==
    ASSUME AgreeInv, EnterError
    PROVE  AgreeInv'
<1> USE DEF EnterError, Key, Read
<1>0. TypeOK /\ at # "end" /\ ree \in Readers /\ taError \in ErrorReaders /\ taApp \in AppReaders
  BY DEF AgreeInv, TypeOK
<1>1. TypeOK'
  <2>1. ree' \in Readers
    BY <1>0, FreshTypes, ReeTypes
  <2>2. taError' \in ErrorReaders
    BY <1>0, FreshTypes, TaTypes
  <2>3. taApp' \in AppReaders
    BY <1>0, FreshTypes, TaTypes
  <2> QED BY <1>0, <2>1, <2>2, <2>3 DEF TypeOK
<1>2. PlaceInv'
  BY <1>0, FreshFields DEF AgreeInv, PlaceInv, Readers, ErrorReaders, AppReaders
<1>3. AppAgrees'
  BY <1>0, FreshFields DEF AgreeInv, PlaceInv, AppAgrees, Reading, Readers, ErrorReaders, AppReaders
<1>4. ErrorAgrees'
  BY <1>0, FreshFields DEF AgreeInv, PlaceInv, ErrorAgrees, Reading, Readers, ErrorReaders
<1>5. ClampInv'
  BY <1>0, FreshFields DEF AgreeInv, ClampInv, AppReaders
<1>6. at' # "end" /\ ree'.status # "OK" /\ verdict' = verdict
  BY <1>0, FreshFields DEF AgreeInv, PlaceInv, Readers
<1> QED BY <1>0, <1>1, <1>2, <1>3, <1>4, <1>5, <1>6, NotEnded

LEMMA LeaveErrorAgrees ==
    ASSUME AgreeInv, LeaveError
    PROVE  AgreeInv'
<1> USE DEF LeaveError, Read
<1>0. TypeOK /\ at # "end" /\ ree \in Readers /\ taError \in ErrorReaders /\ taApp \in AppReaders
  BY DEF AgreeInv, TypeOK
<1>1. TypeOK'
  <2>1. ree' \in Readers
    BY <1>0, FreshTypes, ReeTypes
  <2>2. taError' \in ErrorReaders
    BY <1>0, FreshTypes, TaTypes
  <2>3. taApp' \in AppReaders
    BY <1>0, FreshTypes, TaTypes
  <2> QED BY <1>0, <2>1, <2>2, <2>3 DEF TypeOK
<1>2. PlaceInv'
  BY <1>0, FreshFields DEF AgreeInv, PlaceInv, Readers, ErrorReaders, AppReaders
<1>3. AppAgrees'
  BY <1>0, FreshFields DEF AgreeInv, PlaceInv, AppAgrees, Reading, Readers, ErrorReaders, AppReaders
<1>4. ErrorAgrees'
  BY <1>0, FreshFields DEF AgreeInv, PlaceInv, ErrorAgrees, Reading, Readers, ErrorReaders
<1>5. ClampInv'
  BY <1>0, FreshFields DEF AgreeInv, ClampInv, AppReaders
<1>6. at' # "end" /\ ree'.status # "OK" /\ verdict' = verdict
  BY <1>0, FreshFields DEF AgreeInv, PlaceInv, Readers
<1> QED BY <1>0, <1>1, <1>2, <1>3, <1>4, <1>5, <1>6, NotEnded

LEMMA CodeAgrees ==
    ASSUME AgreeInv, NEW c \in Codes \cup {Bad},
           Code(c)
    PROVE  AgreeInv'
<1> USE DEF Code, Read, ReadError
<1>0. TypeOK /\ at # "end" /\ ree \in Readers /\ taError \in ErrorReaders /\ taApp \in AppReaders
  BY DEF AgreeInv, TypeOK
<1>1. TypeOK'
  <2>1. ree' \in Readers
    BY <1>0, FreshTypes, ReeTypes
  <2>2. taError' \in ErrorReaders
    BY <1>0, FreshTypes, TaTypes
  <2>3. taApp' \in AppReaders
    BY <1>0, FreshTypes, TaTypes
  <2> QED BY <1>0, <2>1, <2>2, <2>3 DEF TypeOK
<1>2. PlaceInv'
  BY <1>0, FreshFields DEF AgreeInv, PlaceInv, Readers, ErrorReaders, AppReaders
<1>3. AppAgrees'
  BY <1>0, FreshFields DEF AgreeInv, PlaceInv, AppAgrees, Reading, Readers, ErrorReaders, AppReaders
<1>4. ErrorAgrees'
  BY <1>0, FreshFields DEF AgreeInv, PlaceInv, ErrorAgrees, Reading, Readers, ErrorReaders
<1>5. ClampInv'
  BY <1>0, FreshFields DEF AgreeInv, ClampInv, AppReaders
<1>6. at' # "end" /\ ree'.status # "OK" /\ verdict' = verdict
  BY <1>0, FreshFields DEF AgreeInv, PlaceInv, Readers
<1> QED BY <1>0, <1>1, <1>2, <1>3, <1>4, <1>5, <1>6, NotEnded

LEMMA MessageAgrees ==
    ASSUME AgreeInv, NEW text \in BOOLEAN,
           Message(text)
    PROVE  AgreeInv'
<1> USE DEF Message, ReadError
<1>0. TypeOK /\ at # "end" /\ ree \in Readers /\ taError \in ErrorReaders /\ taApp \in AppReaders
  BY DEF AgreeInv, TypeOK
<1>1. TypeOK'
  <2>1. ree' \in Readers
    BY <1>0, FreshTypes, ReeTypes
  <2>2. taError' \in ErrorReaders
    BY <1>0, FreshTypes, TaTypes
  <2>3. taApp' \in AppReaders
    BY <1>0, FreshTypes, TaTypes
  <2> QED BY <1>0, <2>1, <2>2, <2>3 DEF TypeOK
<1>2. PlaceInv'
  BY <1>0, FreshFields DEF AgreeInv, PlaceInv, Readers, ErrorReaders, AppReaders
<1>3. AppAgrees'
  BY <1>0, FreshFields DEF AgreeInv, PlaceInv, AppAgrees, Reading, Readers, ErrorReaders, AppReaders
<1>4. ErrorAgrees'
  BY <1>0, FreshFields DEF AgreeInv, PlaceInv, ErrorAgrees, Reading, Readers, ErrorReaders
<1>5. ClampInv'
  BY <1>0, FreshFields DEF AgreeInv, ClampInv, AppReaders
<1>6. at' # "end" /\ ree'.status # "OK" /\ verdict' = verdict
  BY <1>0, FreshFields DEF AgreeInv, PlaceInv, Readers
<1> QED BY <1>0, <1>1, <1>2, <1>3, <1>4, <1>5, <1>6, NotEnded

LEMMA EnterAppAgrees ==
    ASSUME AgreeInv, EnterApp
    PROVE  AgreeInv'
<1> USE DEF EnterApp, Key, Read, ReadApp
<1>0. TypeOK /\ at # "end" /\ ree \in Readers /\ taError \in ErrorReaders /\ taApp \in AppReaders
  BY DEF AgreeInv, TypeOK
<1>1. TypeOK'
  <2>1. ree' \in Readers
    BY <1>0, FreshTypes, ReeTypes
  <2>2. taError' \in ErrorReaders
    BY <1>0, FreshTypes, TaTypes
  <2>3. taApp' \in AppReaders
    BY <1>0, FreshTypes, TaTypes
  <2> QED BY <1>0, <2>1, <2>2, <2>3 DEF TypeOK
<1>2. PlaceInv'
  BY <1>0, FreshFields DEF AgreeInv, PlaceInv, Readers, ErrorReaders, AppReaders
<1>3. AppAgrees'
  BY <1>0, FreshFields DEF AgreeInv, PlaceInv, AppAgrees, Reading, Readers, ErrorReaders, AppReaders
<1>4. ErrorAgrees'
  BY <1>0, FreshFields DEF AgreeInv, PlaceInv, ErrorAgrees, Reading, Readers, ErrorReaders
<1>5. ClampInv'
  BY <1>0, FreshFields DEF AgreeInv, ClampInv, AppReaders
<1>6. at' # "end" /\ ree'.status # "OK" /\ verdict' = verdict
  BY <1>0, FreshFields DEF AgreeInv, PlaceInv, Readers
<1> QED BY <1>0, <1>1, <1>2, <1>3, <1>4, <1>5, <1>6, NotEnded

LEMMA LeaveAppAgrees ==
    ASSUME AgreeInv, LeaveApp
    PROVE  AgreeInv'
<1> USE DEF LeaveApp, Read
<1>0. TypeOK /\ at # "end" /\ ree \in Readers /\ taError \in ErrorReaders /\ taApp \in AppReaders
  BY DEF AgreeInv, TypeOK
<1>1. TypeOK'
  <2>1. ree' \in Readers
    BY <1>0, FreshTypes, ReeTypes
  <2>2. taError' \in ErrorReaders
    BY <1>0, FreshTypes, TaTypes
  <2>3. taApp' \in AppReaders
    BY <1>0, FreshTypes, TaTypes
  <2> QED BY <1>0, <2>1, <2>2, <2>3 DEF TypeOK
<1>2. PlaceInv'
  BY <1>0, FreshFields DEF AgreeInv, PlaceInv, Readers, ErrorReaders, AppReaders
<1>3. AppAgrees'
  BY <1>0, FreshFields DEF AgreeInv, PlaceInv, AppAgrees, Reading, Complete, AppFields, Readers, ErrorReaders, AppReaders
<1>4. ErrorAgrees'
  BY <1>0, FreshFields DEF AgreeInv, PlaceInv, ErrorAgrees, Reading, Readers, ErrorReaders
<1>5. ClampInv'
  BY <1>0, FreshFields DEF AgreeInv, ClampInv, AppReaders
<1>6. at' # "end" /\ ree'.status # "OK" /\ verdict' = verdict
  BY <1>0, FreshFields DEF AgreeInv, PlaceInv, Readers
<1> QED BY <1>0, <1>1, <1>2, <1>3, <1>4, <1>5, <1>6, NotEnded

LEMMA AppFieldAgrees ==
    ASSUME AgreeInv, NEW f \in TextFields, NEW good \in BOOLEAN,
           AppField(f, good)
    PROVE  AgreeInv'
<1> USE DEF AppField, Read
<1>0. TypeOK /\ at # "end" /\ ree \in Readers /\ taError \in ErrorReaders /\ taApp \in AppReaders
  BY DEF AgreeInv, TypeOK
<1>1. TypeOK'
  <2>1. ree' \in Readers
    BY <1>0, FreshTypes, ReeTypes
  <2>2. taError' \in ErrorReaders
    BY <1>0, FreshTypes, TaTypes
  <2>3. taApp' \in AppReaders
    BY <1>0, FreshTypes, TaTypes
  <2> QED BY <1>0, <2>1, <2>2, <2>3 DEF TypeOK
<1>2. PlaceInv'
  BY <1>0, FreshFields DEF AgreeInv, PlaceInv, Readers, ErrorReaders, AppReaders
<1>3. AppAgrees'
  BY <1>0, FreshFields, BadAssumption DEF AgreeInv, PlaceInv, AppAgrees, Reading, Readers, ErrorReaders, AppReaders
<1>4. ErrorAgrees'
  BY <1>0, FreshFields DEF AgreeInv, PlaceInv, ErrorAgrees, Reading, Readers, ErrorReaders
<1>5. ClampInv'
  BY <1>0, FreshFields DEF AgreeInv, ClampInv, AppReaders
<1>6. at' # "end" /\ ree'.status # "OK" /\ verdict' = verdict
  BY <1>0, FreshFields DEF AgreeInv, PlaceInv, Readers
<1> QED BY <1>0, <1>1, <1>2, <1>3, <1>4, <1>5, <1>6, NotEnded

LEMMA Sha256Agrees ==
    ASSUME AgreeInv, NEW d \in Digests \cup {Bad},
           Sha256(d)
    PROVE  AgreeInv'
<1> USE DEF Sha256, Read, ReadApp
<1>0. TypeOK /\ at # "end" /\ ree \in Readers /\ taError \in ErrorReaders /\ taApp \in AppReaders
  BY DEF AgreeInv, TypeOK
<1>1. TypeOK'
  <2>1. ree' \in Readers
    BY <1>0, FreshTypes, ReeTypes
  <2>2. taError' \in ErrorReaders
    BY <1>0, FreshTypes, TaTypes
  <2>3. taApp' \in AppReaders
    BY <1>0, FreshTypes, TaTypes
  <2> QED BY <1>0, <2>1, <2>2, <2>3 DEF TypeOK
<1>2. PlaceInv'
  BY <1>0, FreshFields DEF AgreeInv, PlaceInv, Readers, ErrorReaders, AppReaders
<1>3. AppAgrees'
  BY <1>0, FreshFields DEF AgreeInv, PlaceInv, AppAgrees, Reading, Readers, ErrorReaders, AppReaders
<1>4. ErrorAgrees'
  BY <1>0, FreshFields DEF AgreeInv, PlaceInv, ErrorAgrees, Reading, Readers, ErrorReaders
<1>5. ClampInv'
  BY <1>0, FreshFields DEF AgreeInv, ClampInv, AppReaders
<1>6. at' # "end" /\ ree'.status # "OK" /\ verdict' = verdict
  BY <1>0, FreshFields DEF AgreeInv, PlaceInv, Readers
<1> QED BY <1>0, <1>1, <1>2, <1>3, <1>4, <1>5, <1>6, NotEnded

LEMMA EnterLimitsAgrees ==
    ASSUME AgreeInv, EnterLimits
    PROVE  AgreeInv'
<1> USE DEF EnterLimits
<1>0. TypeOK /\ at # "end" /\ ree \in Readers /\ taError \in ErrorReaders /\ taApp \in AppReaders
  BY DEF AgreeInv, TypeOK
<1>1. TypeOK'
  <2>1. ree' \in Readers
    BY <1>0, FreshTypes, ReeTypes
  <2>2. taError' \in ErrorReaders
    BY <1>0, FreshTypes, TaTypes
  <2>3. taApp' \in AppReaders
    BY <1>0, FreshTypes, TaTypes
  <2> QED BY <1>0, <2>1, <2>2, <2>3 DEF TypeOK
<1>2. PlaceInv'
  BY <1>0, FreshFields DEF AgreeInv, PlaceInv, Readers, ErrorReaders, AppReaders
<1>3. AppAgrees'
  BY <1>0, FreshFields DEF AgreeInv, PlaceInv, AppAgrees, Reading, Readers, ErrorReaders, AppReaders
<1>4. ErrorAgrees'
  BY <1>0, FreshFields DEF AgreeInv, PlaceInv, ErrorAgrees, Reading, Readers, ErrorReaders
<1>5. ClampInv'
  BY <1>0, FreshFields DEF AgreeInv, ClampInv, AppReaders
<1>6. at' # "end" /\ ree'.status # "OK" /\ verdict' = verdict
  BY <1>0, FreshFields DEF AgreeInv, PlaceInv, Readers
<1> QED BY <1>0, <1>1, <1>2, <1>3, <1>4, <1>5, <1>6, NotEnded

LEMMA LeaveLimitsAgrees ==
    ASSUME AgreeInv, LeaveLimits
    PROVE  AgreeInv'
<1> USE DEF LeaveLimits, ReadApp
<1>0. TypeOK /\ at # "end" /\ ree \in Readers /\ taError \in ErrorReaders /\ taApp \in AppReaders
  BY DEF AgreeInv, TypeOK
<1>1. TypeOK'
  <2>1. ree' \in Readers
    BY <1>0, FreshTypes, ReeTypes
  <2>2. taError' \in ErrorReaders
    BY <1>0, FreshTypes, TaTypes
  <2>3. taApp' \in AppReaders
    BY <1>0, FreshTypes, TaTypes
  <2> QED BY <1>0, <2>1, <2>2, <2>3 DEF TypeOK
<1>2. PlaceInv'
  BY <1>0, FreshFields DEF AgreeInv, PlaceInv, Readers, ErrorReaders, AppReaders
<1>3. AppAgrees'
  BY <1>0, FreshFields DEF AgreeInv, PlaceInv, AppAgrees, Reading, Readers, ErrorReaders, AppReaders
<1>4. ErrorAgrees'
  BY <1>0, FreshFields DEF AgreeInv, PlaceInv, ErrorAgrees, Reading, Readers, ErrorReaders
<1>5. ClampInv'
  <2>1. \A f \in LimitFields : Clamped(taApp.limits, TaMax)[f] \in 1..TaMax[f]
    BY <1>0, ClampedTypes, LimitsAssumption DEF AppReaders
  <2> QED BY <1>0, <2>1, FreshFields DEF AgreeInv, ClampInv, AppReaders
<1>6. at' # "end" /\ ree'.status # "OK" /\ verdict' = verdict
  BY <1>0, FreshFields DEF AgreeInv, PlaceInv, Readers
<1> QED BY <1>0, <1>1, <1>2, <1>3, <1>4, <1>5, <1>6, NotEnded

LEMMA LimitAgrees ==
    ASSUME AgreeInv, NEW f \in LimitFields, NEW v \in Values \cup {Bad},
           Limit(f, v)
    PROVE  AgreeInv'
<1> USE DEF Limit, Read, ReadApp
<1>0. TypeOK /\ at # "end" /\ ree \in Readers /\ taError \in ErrorReaders /\ taApp \in AppReaders
  BY DEF AgreeInv, TypeOK
<1>1. TypeOK'
  <2>1. ree' \in Readers
    BY <1>0, FreshTypes, ReeTypes
  <2>2. taError' \in ErrorReaders
    BY <1>0, FreshTypes, TaTypes
  <2>3. taApp' \in AppReaders
    BY <1>0, FreshTypes, TaTypes
  <2> QED BY <1>0, <2>1, <2>2, <2>3 DEF TypeOK
<1>2. PlaceInv'
  BY <1>0, FreshFields DEF AgreeInv, PlaceInv, Readers, ErrorReaders, AppReaders
<1>3. AppAgrees'
  BY <1>0, FreshFields DEF AgreeInv, PlaceInv, AppAgrees, Reading, Readers, ErrorReaders, AppReaders
<1>4. ErrorAgrees'
  BY <1>0, FreshFields DEF AgreeInv, PlaceInv, ErrorAgrees, Reading, Readers, ErrorReaders
<1>5. ClampInv'
  BY <1>0, FreshFields DEF AgreeInv, ClampInv, AppReaders
<1>6. at' # "end" /\ ree'.status # "OK" /\ verdict' = verdict
  BY <1>0, FreshFields DEF AgreeInv, PlaceInv, Readers
<1> QED BY <1>0, <1>1, <1>2, <1>3, <1>4, <1>5, <1>6, NotEnded

LEMMA TimeoutAgrees ==
    ASSUME AgreeInv, NEW v \in Values \cup {Bad},
           Timeout(v)
    PROVE  AgreeInv'
<1> USE DEF Timeout, Read, ReadApp
<1>0. TypeOK /\ at # "end" /\ ree \in Readers /\ taError \in ErrorReaders /\ taApp \in AppReaders
  BY DEF AgreeInv, TypeOK
<1>1. TypeOK'
  <2>1. ree' \in Readers
    BY <1>0, FreshTypes, ReeTypes
  <2>2. taError' \in ErrorReaders
    BY <1>0, FreshTypes, TaTypes
  <2>3. taApp' \in AppReaders
    BY <1>0, FreshTypes, TaTypes
  <2> QED BY <1>0, <2>1, <2>2, <2>3 DEF TypeOK
<1>2. PlaceInv'
  BY <1>0, FreshFields DEF AgreeInv, PlaceInv, Readers, ErrorReaders, AppReaders
<1>3. AppAgrees'
  BY <1>0, FreshFields DEF AgreeInv, PlaceInv, AppAgrees, Reading, Readers, ErrorReaders, AppReaders
<1>4. ErrorAgrees'
  BY <1>0, FreshFields DEF AgreeInv, PlaceInv, ErrorAgrees, Reading, Readers, ErrorReaders
<1>5. ClampInv'
  BY <1>0, FreshFields DEF AgreeInv, ClampInv, AppReaders
<1>6. at' # "end" /\ ree'.status # "OK" /\ verdict' = verdict
  BY <1>0, FreshFields DEF AgreeInv, PlaceInv, Readers
<1> QED BY <1>0, <1>1, <1>2, <1>3, <1>4, <1>5, <1>6, NotEnded

LEMMA NotAMapAgrees ==
    ASSUME AgreeInv, NEW k \in {"error", "app", "resource_limits"},
           NotAMap(k)
    PROVE  AgreeInv'
<1> USE DEF NotAMap, Key, Read, ReadError, ReadApp
<1>0. TypeOK /\ at # "end" /\ ree \in Readers /\ taError \in ErrorReaders /\ taApp \in AppReaders
  BY DEF AgreeInv, TypeOK
<1>1. TypeOK'
  <2>1. ree' \in Readers
    BY <1>0, FreshTypes, ReeTypes
  <2>2. taError' \in ErrorReaders
    BY <1>0, FreshTypes, TaTypes
  <2>3. taApp' \in AppReaders
    BY <1>0, FreshTypes, TaTypes
  <2> QED BY <1>0, <2>1, <2>2, <2>3 DEF TypeOK
<1>2. PlaceInv'
  BY <1>0, FreshFields DEF AgreeInv, PlaceInv, Readers, ErrorReaders, AppReaders
<1>3. AppAgrees'
  BY <1>0, FreshFields DEF AgreeInv, PlaceInv, AppAgrees, Reading, Readers, ErrorReaders, AppReaders
<1>4. ErrorAgrees'
  BY <1>0, FreshFields DEF AgreeInv, PlaceInv, ErrorAgrees, Reading, Readers, ErrorReaders
<1>5. ClampInv'
  BY <1>0, FreshFields DEF AgreeInv, ClampInv, AppReaders
<1>6. at' # "end" /\ ree'.status # "OK" /\ verdict' = verdict
  BY <1>0, FreshFields DEF AgreeInv, PlaceInv, Readers
<1> QED BY <1>0, <1>1, <1>2, <1>3, <1>4, <1>5, <1>6, NotEnded

LEMMA KeyNotTextAgrees ==
    ASSUME AgreeInv, KeyNotText
    PROVE  AgreeInv'
<1> USE DEF KeyNotText, Read, ReadError, ReadApp
<1>0. TypeOK /\ at # "end" /\ ree \in Readers /\ taError \in ErrorReaders /\ taApp \in AppReaders
  BY DEF AgreeInv, TypeOK
<1>1. TypeOK'
  <2>1. ree' \in Readers
    BY <1>0, FreshTypes, ReeTypes
  <2>2. taError' \in ErrorReaders
    BY <1>0, FreshTypes, TaTypes
  <2>3. taApp' \in AppReaders
    BY <1>0, FreshTypes, TaTypes
  <2> QED BY <1>0, <2>1, <2>2, <2>3 DEF TypeOK
<1>2. PlaceInv'
  BY <1>0, FreshFields DEF AgreeInv, PlaceInv, Readers, ErrorReaders, AppReaders
<1>3. AppAgrees'
  BY <1>0, FreshFields DEF AgreeInv, PlaceInv, AppAgrees, Reading, Readers, ErrorReaders, AppReaders
<1>4. ErrorAgrees'
  BY <1>0, FreshFields DEF AgreeInv, PlaceInv, ErrorAgrees, Reading, Readers, ErrorReaders
<1>5. ClampInv'
  BY <1>0, FreshFields DEF AgreeInv, ClampInv, AppReaders
<1>6. at' # "end" /\ ree'.status # "OK" /\ verdict' = verdict
  BY <1>0, FreshFields DEF AgreeInv, PlaceInv, Readers
<1> QED BY <1>0, <1>1, <1>2, <1>3, <1>4, <1>5, <1>6, NotEnded

LEMMA LongHeadAgrees ==
    ASSUME AgreeInv, LongHead
    PROVE  AgreeInv'
<1> USE DEF LongHead, Read
<1>0. TypeOK /\ at # "end" /\ ree \in Readers /\ taError \in ErrorReaders /\ taApp \in AppReaders
  BY DEF AgreeInv, TypeOK
<1>1. TypeOK'
  <2>1. ree' \in Readers
    BY <1>0, FreshTypes, ReeTypes
  <2>2. taError' \in ErrorReaders
    BY <1>0, FreshTypes, TaTypes
  <2>3. taApp' \in AppReaders
    BY <1>0, FreshTypes, TaTypes
  <2> QED BY <1>0, <2>1, <2>2, <2>3 DEF TypeOK
<1>2. PlaceInv'
  BY <1>0, FreshFields DEF AgreeInv, PlaceInv, Readers, ErrorReaders, AppReaders
<1>3. AppAgrees'
  BY <1>0, FreshFields DEF AgreeInv, PlaceInv, AppAgrees, Reading, Readers, ErrorReaders, AppReaders
<1>4. ErrorAgrees'
  BY <1>0, FreshFields DEF AgreeInv, PlaceInv, ErrorAgrees, Reading, Readers, ErrorReaders
<1>5. ClampInv'
  BY <1>0, FreshFields DEF AgreeInv, ClampInv, AppReaders
<1>6. at' # "end" /\ ree'.status # "OK" /\ verdict' = verdict
  BY <1>0, FreshFields DEF AgreeInv, PlaceInv, Readers
<1> QED BY <1>0, <1>1, <1>2, <1>3, <1>4, <1>5, <1>6, NotEnded

LEMMA SkipAgrees ==
    ASSUME AgreeInv, NEW depth \in Depths, NEW plain \in BOOLEAN, Skip(depth, plain)
    PROVE  AgreeInv'
<1> USE DEF Skip, ReadError, ReadApp
<1>0. TypeOK /\ at # "end" /\ ree \in Readers /\ taError \in ErrorReaders /\ taApp \in AppReaders
  BY DEF AgreeInv, TypeOK
<1>1. TypeOK'
  <2>1. ree' \in Readers
    BY <1>0, FreshTypes, ReeTypes
  <2>2. taError' \in ErrorReaders
    BY <1>0, FreshTypes, TaTypes
  <2>3. taApp' \in AppReaders
    BY <1>0, FreshTypes, TaTypes
  <2> QED BY <1>0, <2>1, <2>2, <2>3 DEF TypeOK
<1>2. PlaceInv'
  BY <1>0, FreshFields DEF AgreeInv, PlaceInv, Readers, ErrorReaders, AppReaders
<1>3. AppAgrees'
  BY <1>0, FreshFields DEF AgreeInv, PlaceInv, AppAgrees, Reading, Readers, ErrorReaders, AppReaders
<1>4. ErrorAgrees'
  BY <1>0, FreshFields DEF AgreeInv, PlaceInv, ErrorAgrees, Reading, Readers, ErrorReaders
<1>5. ClampInv'
  BY <1>0, FreshFields DEF AgreeInv, ClampInv, AppReaders
<1>6. at' # "end" /\ ree'.status # "OK" /\ verdict' = verdict
  BY <1>0, FreshFields DEF AgreeInv, PlaceInv, Readers
<1> QED BY <1>0, <1>1, <1>2, <1>3, <1>4, <1>5, <1>6, NotEnded

----------------------------------------------------------------------------
(* The end of the output.                                                  *)

LEMMA MalformedAgrees ==
    ASSUME AgreeInv, Malformed
    PROVE  AgreeInv'
<1> USE DEF Malformed, Read, ReadError, ReadApp
<1>0. TypeOK /\ at # "end" /\ ree \in Readers /\ taError \in ErrorReaders /\ taApp \in AppReaders
  BY DEF AgreeInv, TypeOK
<1>1. TypeOK'
  <2>1. ree' \in Readers
    BY <1>0, FreshTypes
  <2>2. taError' \in ErrorReaders
    BY <1>0, FreshTypes
  <2>3. taApp' \in AppReaders
    BY <1>0, FreshTypes
  <2> QED BY <1>0, <2>1, <2>2, <2>3 DEF TypeOK
<1>2. PlaceInv'
  BY <1>0, FreshFields DEF AgreeInv, PlaceInv, Readers, ErrorReaders, AppReaders
<1>3. AppAgrees' /\ ErrorAgrees'
  BY DEF AppAgrees, ErrorAgrees
<1>4. ClampInv'
  <2>1. CASE taApp.bad
    BY <1>0, <2>1 DEF AgreeInv, ClampInv
  <2>2. CASE ~taApp.bad
    BY <1>0, <2>2, FreshFields DEF ClampInv
  <2> QED BY <2>1, <2>2
<1>5. ree'.status = "TEEP" /\ verdict' = "BAD_FORMAT" /\ at' = "end"
  BY <1>0, FreshFields DEF AgreeInv, PlaceInv
<1>6. EndInv' /\ ReadAlike' /\ LimitsBounded'
  BY <1>5 DEF EndInv, ReadAlike, ResolvedAlike, SameApp, ErrorsAlike, LimitsBounded, Ended
<1> QED BY <1>1, <1>2, <1>3, <1>4, <1>5, <1>6 DEF AgreeInv

\* What the REE makes of the end of an output it has not refused.
LEMMA EndRead ==
    ASSUME ree \in Readers
    PROVE  /\ EndStatus \in TEEPStatus
           /\ EndStatus = "OK" => ree.ok /\ ree.app
           /\ ~ree.app /\ ree.error => EndStatus = ree.errorStatus
<1>1. ree.errorStatus \in TEEPStatus \ {"OK"}
  BY DEF Readers
<1>2. CASE ree.ok /\ ree.app
  BY <1>2 DEF EndStatus, TEEPStatus
<1>3. CASE ~(ree.ok /\ ree.app) /\ ree.error
  BY <1>1, <1>3 DEF EndStatus
<1>4. CASE ~(ree.ok /\ ree.app) /\ ~ree.error
  BY <1>4 DEF EndStatus, TEEPStatus
<1> QED BY <1>2, <1>3, <1>4

\* Which reader's result the TA goes on with.
LEMMA EndChosen ==
    ASSUME NEW trailing \in BOOLEAN
    PROVE  /\ EndVerdict(trailing) \in {"need", "error", "run", "BAD_FORMAT", "trailing"}
           /\ EndVerdict(trailing) = "run" => AppRead
           /\ EndVerdict(trailing) = "error" => ErrorRead
           /\ AppRead /\ ~ErrorRead => EndVerdict(trailing) \in {"need", "trailing", "run"}
<1>1. CASE trailing
  BY <1>1 DEF EndVerdict
<1>2. CASE ~trailing /\ need = "yes"
  BY <1>2 DEF EndVerdict
<1>3. CASE ~trailing /\ need # "yes" /\ ErrorRead
  BY <1>3 DEF EndVerdict
<1>4. CASE ~trailing /\ need # "yes" /\ ~ErrorRead /\ AppRead
  BY <1>4 DEF EndVerdict
<1>5. CASE ~trailing /\ need # "yes" /\ ~ErrorRead /\ ~AppRead
  BY <1>5 DEF EndVerdict
<1> QED BY <1>1, <1>2, <1>3, <1>4, <1>5

LEMMA EndAgrees ==
    ASSUME AgreeInv, NEW trailing \in BOOLEAN, End(trailing)
    PROVE  AgreeInv'
<1> DEFINE kept == IF EndStatus = "OK" THEN Clamped(ree.limits, ReeMax) ELSE ree.limits
<1>0. TypeOK /\ at = "top" /\ ree \in Readers /\ taError \in ErrorReaders /\ taApp \in AppReaders
  BY DEF AgreeInv, TypeOK, End
<1>1. /\ at' = "end" /\ taError' = taError /\ taApp' = taApp /\ need' = need
      /\ keys' = keys /\ repeated' = repeated /\ uneven' = uneven
      /\ verdict' = EndVerdict(trailing)
      /\ ree' = IF ree.status = "reading"
                THEN [ree EXCEPT !.status = EndStatus, !.limits = kept] ELSE ree
  BY DEF End, Read
<1>2. /\ ree.limits \in Limits /\ Clamped(ree.limits, ReeMax) \in Limits
      /\ \A f \in LimitFields : Clamped(ree.limits, ReeMax)[f] \in 1..ReeMax[f]
  BY <1>0, ClampedTypes, LimitsAssumption DEF Readers
<1>3. kept \in Limits /\ (EndStatus = "OK" => \A f \in LimitFields : kept[f] \in 1..ReeMax[f])
  BY <1>2
<1> HIDE DEF kept
<1>4. /\ EndStatus \in TEEPStatus
      /\ EndStatus = "OK" => ree.ok /\ ree.app
      /\ ~ree.app /\ ree.error => EndStatus = ree.errorStatus
  BY <1>0, EndRead
<1>5. /\ verdict' \in {"need", "error", "run", "BAD_FORMAT", "trailing"}
      /\ verdict' = "run" => AppRead
      /\ verdict' = "error" => ErrorRead
      /\ AppRead /\ ~ErrorRead => verdict' \in {"need", "trailing", "run"}
  BY <1>1, EndChosen
<1>6. ree' \in Readers
  <2>1. [ree EXCEPT !.status = EndStatus, !.limits = kept] \in Readers
    BY <1>0, <1>3, <1>4, ReeTypes
  <2> QED BY <1>0, <1>1, <2>1
<1>7. TypeOK'
  BY <1>0, <1>1, <1>5, <1>6 DEF TypeOK
<1>8. /\ ree'.ok = ree.ok /\ ree'.app = ree.app /\ ree'.error = ree.error
      /\ ree'.haveCode = ree.haveCode /\ ree'.digest = ree.digest /\ ree'.timeout = ree.timeout
      /\ IF ree.status = "reading" THEN ree'.status = EndStatus /\ ree'.limits = kept
                                   ELSE ree'.status = "TEEP"
  BY <1>0, <1>1 DEF AgreeInv, PlaceInv, Readers
<1>9. PlaceInv' /\ AppAgrees' /\ ErrorAgrees'
  BY <1>1, <1>8 DEF AgreeInv, PlaceInv, AppAgrees, ErrorAgrees
<1>10. \A f \in LimitFields : taApp'.limits[f] \in 1..TaMax[f]
  BY <1>0, <1>1 DEF AgreeInv, ClampInv
<1>11. ClampInv' /\ EndInv'
  BY <1>1, <1>10 DEF ClampInv, EndInv
<1>12. ASSUME ree'.status = "OK"
       PROVE  /\ ree.status = "reading" /\ ree.ok /\ ree.app
              /\ "value" \notin uneven => ~taApp.bad
              /\ ~repeated => ~taError.error
              /\ ~taApp.bad =>
                    /\ taApp.digest = ree.digest /\ taApp.timeout = ree.timeout
                    /\ taApp.app /\ taApp.digest # Bad
                    /\ ~repeated => taApp.ok
  BY <1>0, <1>4, <1>8, <1>12 DEF AgreeInv, AppAgrees, Reading
<1>13. ResolvedAlike' /\ SameApp'
  BY <1>1, <1>5, <1>8, <1>12 DEF ResolvedAlike, SameApp, AppRead, ErrorRead
<1>14. ErrorsAlike'
  <2> SUFFICES ASSUME ~repeated, "app" \notin keys, "head" \notin uneven, verdict' = "error"
               PROVE  ree'.status = teep_error_status_from_code(taError.code)
    BY <1>1 DEF ErrorsAlike
  <2>1. ~taError.bad /\ taError.error /\ taError.code # Bad
    BY <1>5 DEF ErrorRead
  <2>2. Reading /\ ree.error /\ ree.haveCode
        /\ ree.errorStatus = teep_error_status_from_code(taError.code)
    BY <1>0, <2>1 DEF AgreeInv, ErrorAgrees
  <2>3. ~ree.app
    BY DEF AgreeInv, PlaceInv
  <2> QED BY <1>4, <1>8, <2>2, <2>3 DEF Reading
<1>15. LimitsBounded'
  BY <1>3, <1>8, <1>10, <1>12 DEF LimitsBounded
<1>16. ree'.status = "OK" /\ verdict' = "run" => ree'.timeout = taApp'.timeout
  BY <1>1, <1>5, <1>8, <1>12 DEF AppRead
<1> QED BY <1>7, <1>9, <1>11, <1>13, <1>14, <1>15, <1>16 DEF AgreeInv, ReadAlike

----------------------------------------------------------------------------
(* The theorems.                                                           *)

LEMMA NextAgrees == AgreeInv /\ [Next]_vars => AgreeInv'
<1> SUFFICES ASSUME AgreeInv, [Next]_vars PROVE AgreeInv'
  OBVIOUS
<1>1. CASE UNCHANGED vars
  BY <1>1 DEF vars, AgreeInv, TypeOK, PlaceInv, AppAgrees, ErrorAgrees, ClampInv, EndInv, Reading,
       ReadAlike, ResolvedAlike, SameApp, ErrorsAlike, LimitsBounded, Ended
<1>2. ASSUME Again PROVE AgreeInv'
  <2>1. /\ at' = "top" /\ verdict' = "reading" /\ keys' = {} /\ repeated' = FALSE
        /\ ree' = ReeFresh /\ taError' = ErrorFresh /\ taApp' = AppFresh /\ need' = "no" /\ uneven' = {}
    BY <1>2 DEF Again
  <2>2. TypeOK'
    BY <2>1, FreshTypes DEF TypeOK
  <2>3. PlaceInv' /\ AppAgrees' /\ ErrorAgrees'
    BY <2>1 DEF PlaceInv, AppAgrees, ErrorAgrees, Reading, ReeFresh, ErrorFresh, AppFresh
  <2>4. ClampInv'
    BY <2>1, FreshFields DEF ClampInv, AppFresh
  <2>5. EndInv' /\ ReadAlike' /\ LimitsBounded'
    BY <2>1 DEF EndInv, ReadAlike, ResolvedAlike, SameApp, ErrorsAlike, LimitsBounded, Ended, ReeFresh
  <2> QED BY <2>1, <2>2, <2>3, <2>4, <2>5 DEF AgreeInv, Ended
<1>3. CASE Next
  BY <1>2, <1>3, StatusAgrees, NeedHostIoAgrees, EnterErrorAgrees, LeaveErrorAgrees, CodeAgrees,
     MessageAgrees, EnterAppAgrees, LeaveAppAgrees, AppFieldAgrees, Sha256Agrees,
     EnterLimitsAgrees, LeaveLimitsAgrees, LimitAgrees, TimeoutAgrees, NotAMapAgrees,
     KeyNotTextAgrees, LongHeadAgrees, SkipAgrees,
     MalformedAgrees, EndAgrees DEF Next
<1> QED BY <1>1, <1>3

\* Between two pairs of every output the readers of the REE and of the TA agree on what
\* they have read, and at its end on what it means: AgreeInv, the inductive invariant.
THEOREM AgreeCorrect == Spec => []AgreeInv
<1>1. Init => AgreeInv
  BY InitAgrees
<1>2. AgreeInv /\ [Next]_vars => AgreeInv'
  BY NextAgrees
<1> QED BY <1>1, <1>2, PTL DEF Spec

\* An app that parse_teep_resolve_output resolves is the one that the three passes of
\* the TA run, and an error they pass on is the one the REE reports, for every output that
\* the CBOR functions of both accept.
THEOREM ReadAlikeCorrect == Spec => []ReadAlike
<1>1. AgreeInv => ReadAlike
  BY DEF AgreeInv
<1> QED BY <1>1, AgreeCorrect, PTL

LEMMA Times ==
    ASSUME NEW a \in Nat, NEW b \in Nat, NEW p \in Nat \ {0}, a <= b
    PROVE  a * p \in Nat /\ a * p <= b * p /\ (a # 0 => a * p > 0)
OBVIOUS

\* One runtime's budget, of a timeout that bounds it and of what the request gives.
LEMMA OneBudget ==
    ASSUME NEW upper \in 1..MaxUint32, NEW sent \in 0..MaxUint32
    PROVE  LET budget == Capped(Shortened(upper, sent) * PerMs)
           IN  /\ Shortened(upper, sent) # 0
               /\ budget \in 1..MaxInt32
               /\ budget <= upper * PerMs
               /\ sent # 0 => budget <= sent * PerMs
<1> DEFINE ms == Shortened(upper, sent)
<1>1. MaxUint32 \in Nat /\ MaxInt32 \in Nat \ {0} /\ PerMs \in Nat \ {0}
  BY LimitsAssumption
<1>2. ms \in Nat \ {0} /\ ms <= upper /\ (sent # 0 => ms <= sent)
  BY <1>1 DEF Shortened
<1> HIDE DEF ms
<1>3. /\ ms * PerMs \in Nat \ {0} /\ ms * PerMs <= upper * PerMs /\ upper * PerMs \in Nat
      /\ sent * PerMs \in Nat
  BY <1>1, <1>2, Times
<1>4. sent # 0 => ms * PerMs <= sent * PerMs
  BY <1>1, <1>2, Times
<1>5. Capped(ms * PerMs) \in 1..MaxInt32 /\ Capped(ms * PerMs) <= ms * PerMs
  BY <1>1, <1>3 DEF Capped
<1>6. Capped(ms * PerMs) <= upper * PerMs /\ (sent # 0 => Capped(ms * PerMs) <= sent * PerMs)
  BY <1>1, <1>3, <1>4, <1>5
<1> QED BY <1>2, <1>5, <1>6 DEF ms

\* What the two budgets of one timeout have in common.
LEMMA BudgetsBounded ==
    ASSUME NEW timeout \in 0..MaxUint32, NEW default \in Values, NEW request \in Values
    PROVE  LET onRee == ReeBudget(timeout, default, request)
               onTa == TaBudget(timeout, default, request)
           IN  /\ \A budget \in {onRee, onTa} :
                    /\ budget \in 1..MaxInt32
                    /\ timeout # 0 => budget <= timeout * PerMs
                    /\ request # 0 => budget <= request * PerMs
                    /\ timeout = 0 /\ request = 0 => budget <= DefaultTimeout(default) * PerMs
               /\ timeout # 0 /\ request # 0 => onRee = onTa
<1> DEFINE mine == DefaultTimeout(default)
           sent == SentTimeout(default, request)
           onRee == IF timeout = 0 THEN mine ELSE timeout
           onTa == IF timeout = 0 THEN FallbackTimeout ELSE timeout
<1>1. /\ MaxUint32 \in Nat /\ FallbackTimeout \in 1..MaxUint32
      /\ default \in 0..MaxUint32 /\ request \in 0..MaxUint32
  BY LimitsAssumption
<1>2. mine \in 1..MaxUint32
  BY <1>1 DEF DefaultTimeout
<1>3. sent \in 1..MaxUint32 /\ (request # 0 => sent = request) /\ (request = 0 => sent = mine)
  BY <1>1, <1>2 DEF SentTimeout
<1> HIDE DEF mine, sent
<1>4. onRee \in 1..MaxUint32 /\ onTa \in 1..MaxUint32 /\ sent \in 0..MaxUint32 /\ sent # 0
  BY <1>1, <1>2, <1>3
<1>5. /\ Shortened(onRee, request) # 0
      /\ Capped(Shortened(onRee, request) * PerMs) \in 1..MaxInt32
      /\ Capped(Shortened(onRee, request) * PerMs) <= onRee * PerMs
      /\ request # 0 => Capped(Shortened(onRee, request) * PerMs) <= request * PerMs
  BY <1>1, <1>4, OneBudget
<1>6. /\ Capped(Shortened(onTa, sent) * PerMs) \in 1..MaxInt32
      /\ Capped(Shortened(onTa, sent) * PerMs) <= onTa * PerMs
      /\ Capped(Shortened(onTa, sent) * PerMs) <= sent * PerMs
  BY <1>4, OneBudget
<1>7. /\ ReeBudget(timeout, default, request) = Capped(Shortened(onRee, request) * PerMs)
      /\ TaBudget(timeout, default, request) = Capped(Shortened(onTa, sent) * PerMs)
  BY <1>5 DEF ReeBudget, TaBudget, mine, sent
<1>8. CASE timeout = 0
  <2>1. CASE request = 0
    <3>1. onRee = mine /\ sent = mine
      BY <1>3, <1>8, <2>1
    <3> QED BY <1>5, <1>6, <1>7, <1>8, <2>1, <3>1 DEF mine
  <2>2. CASE request # 0
    BY <1>3, <1>5, <1>6, <1>7, <1>8, <2>2
  <2> QED BY <2>1, <2>2
<1>9. CASE timeout # 0
  <2>1. onRee = timeout /\ onTa = timeout
    BY <1>9
  <2>2. CASE request = 0
    BY <1>5, <1>6, <1>7, <1>9, <2>1, <2>2
  <2>3. CASE request # 0
    BY <1>3, <1>5, <1>6, <1>7, <1>9, <2>1, <2>3
  <2> QED BY <2>2, <2>3
<1> QED BY <1>8, <1>9

\* Whatever the Catalog, the configuration and the request say, an app runs within the
\* maxima of its runtime and with a budget that the timeouts given to it bound.
THEOREM WithinLimitsCorrect == Spec => []WithinLimits
<1>1. ASSUME AgreeInv PROVE BudgetBounded
  <2>1. ASSUME Ended, ree.status = "OK", verdict = "run"
        PROVE  ree.timeout \in 0..MaxUint32 /\ taApp.timeout = ree.timeout
    BY <1>1, <2>1 DEF AgreeInv, TypeOK, Readers
  <2> QED BY <2>1, BudgetsBounded DEF BudgetBounded
<1>2. AgreeInv => WithinLimits
  BY <1>1 DEF AgreeInv, WithinLimits
<1> QED BY <1>2, AgreeCorrect, PTL
=============================================================================
