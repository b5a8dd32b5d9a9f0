----------------------------- MODULE WasmRunProofs -----------------------------
(***************************************************************************)
(* Every exit of the five functions that run a module releases what was    *)
(* acquired, in an order that never pulls away what something else needs;  *)
(* and an application succeeds alike in the REE, by EXECUTE and after a    *)
(* RESUME: for any applications, sizes and sequence of requests.           *)
(***************************************************************************)
EXTENDS WasmRun, TLAPS

----------------------------------------------------------------------------
(* The tables of steps and of releases.                                    *)

\* A step of r finds what it needs among the steps before it, and what it acquires is
\* released by the cleanup it leads to.
StepFits(r, i) ==
    LET step == Steps(r)[i]
        before == {Steps(r)[j] : j \in 1..(i - 1)}
    IN  /\ step \in {"key", "mode", "wamr"} \/ (r = "taAgent" /\ step = "signature") =>
              before \subseteq {"signature", "key", "mode"}
        /\ step \in {"module", "inst", "env", "input", "desc"} /\ r \in {"taAgent", "taApp", "spike"} =>
              "wamr" \in before
        /\ step = "module" /\ r = "taAgent" => "natives" \in before
        /\ step = "module" /\ r \in {"reeAgent", "reeApp", "taAgent"} => "bytes" \in before
        /\ step = "inst" => "module" \in before
        /\ step \in {"env", "input", "desc"} => "inst" \in before
        /\ step \in {"input", "desc"} => "env" \in before
        /\ step \notin Caller \cup {"output"}
        /\ step = "natives" => r = "taAgent"
        /\ step \in Resources => step \in Listed(AllOf(r))

StepsEnd(r) ==
    LET all == {Steps(r)[j] : j \in 1..Len(Steps(r))}
    IN  /\ Len(Steps(r)) \in 1..14
        /\ {"module", "inst", "env", "main"} \subseteq all
        /\ r \in {"taAgent", "taApp", "spike"} => "wamr" \in all
        /\ r = "taAgent" => {"natives", "bytes"} \subseteq all
        /\ r \in {"reeApp", "taApp"} => {"abi", "main"} \subseteq all
        /\ r = "reeApp" => {"digest", "signature"} \subseteq all
        /\ r = "taApp" => "imports" \in all
        /\ "output" \in Listed(AllOf(r))
        /\ AllOf(r) \in Seq((Resources \ Caller) \cup {"wamr"})

LEMMA ReeAgentTable ==
    StepsEnd("reeAgent") /\ Ordered(AllOf("reeAgent")) /\ \A i \in 1..Len(Steps("reeAgent")) : StepFits("reeAgent", i)
<1> DEFINE s == Steps("reeAgent")
           a == AllOf("reeAgent")
<1>1. s = <<"bytes", "signature", "module", "inst", "env", "abi", "encoded", "input", "desc",
            "main">>
  BY DEF Steps
<1>2. a = <<"output", "input", "desc", "env", "inst", "module", "bytes", "encoded">>
  BY DEF AllOf
<1>3. /\ Len(s) = 10 /\ s[1] = "bytes" /\ s[2] = "signature" /\ s[3] = "module" /\ s[4] = "inst"
      /\ s[5] = "env" /\ s[6] = "abi" /\ s[7] = "encoded" /\ s[8] = "input" /\ s[9] = "desc"
      /\ s[10] = "main"
  BY <1>1
<1>4. /\ DOMAIN a = 1..8 /\ a[1] = "output" /\ a[2] = "input" /\ a[3] = "desc" /\ a[4] = "env"
      /\ a[5] = "inst" /\ a[6] = "module" /\ a[7] = "bytes" /\ a[8] = "encoded"
  BY <1>2
<1>5. a \in Seq((Resources \ Caller) \cup {"wamr"})
  <2> DEFINE S == (Resources \ Caller) \cup {"wamr"}
  <2>1. {"output", "input", "desc", "env", "inst", "module", "bytes", "encoded"} \subseteq S
    BY DEF Resources, Caller
  <2> HIDE DEF S
  <2>2. <<"output", "input", "desc", "env", "inst", "module", "bytes", "encoded">> \in Seq(S)
    BY <2>1
  <2> QED BY <1>2, <2>2 DEF S
<1> HIDE DEF s, a
<1>6. Listed(a) = {"output", "input", "desc", "env", "inst", "module", "bytes", "encoded"}
  BY <1>4 DEF Listed
<1>7. StepsEnd("reeAgent")
  <2>1. {"module", "inst", "env", "main"}
          \subseteq {s[j] : j \in 1..Len(s)}
    BY <1>3
  <2> QED BY <1>3, <1>5, <1>6, <2>1 DEF StepsEnd, s, a
<1>8. Ordered(a)
  BY <1>4 DEF Ordered, After, Needs
<1>9. ASSUME NEW i \in 1..Len(s) PROVE StepFits("reeAgent", i)
  <2>1. CASE i = 1
    BY <1>3, <1>6, <2>1 DEF StepFits, s, a, Resources, Caller
  <2>2. CASE i = 2
    <3>1. {s[j] : j \in 1..(i - 1)} =
            {"bytes"}
      BY <1>3, <2>2
    <3> QED BY <1>3, <1>6, <2>2, <3>1 DEF StepFits, s, a, Resources, Caller
  <2>3. CASE i = 3
    <3>1. {s[j] : j \in 1..(i - 1)} =
            {"bytes", "signature"}
      BY <1>3, <2>3
    <3> QED BY <1>3, <1>6, <2>3, <3>1 DEF StepFits, s, a, Resources, Caller
  <2>4. CASE i = 4
    <3>1. {s[j] : j \in 1..(i - 1)} =
            {"bytes", "signature", "module"}
      BY <1>3, <2>4
    <3> QED BY <1>3, <1>6, <2>4, <3>1 DEF StepFits, s, a, Resources, Caller
  <2>5. CASE i = 5
    <3>1. {s[j] : j \in 1..(i - 1)} =
            {"bytes", "signature", "module", "inst"}
      BY <1>3, <2>5
    <3> QED BY <1>3, <1>6, <2>5, <3>1 DEF StepFits, s, a, Resources, Caller
  <2>6. CASE i = 6
    <3>1. {s[j] : j \in 1..(i - 1)} =
            {"bytes", "signature", "module", "inst", "env"}
      BY <1>3, <2>6
    <3> QED BY <1>3, <1>6, <2>6, <3>1 DEF StepFits, s, a, Resources, Caller
  <2>7. CASE i = 7
    <3>1. {s[j] : j \in 1..(i - 1)} =
            {"bytes", "signature", "module", "inst", "env", "abi"}
      BY <1>3, <2>7
    <3> QED BY <1>3, <1>6, <2>7, <3>1 DEF StepFits, s, a, Resources, Caller
  <2>8. CASE i = 8
    <3>1. {s[j] : j \in 1..(i - 1)} =
            {"bytes", "signature", "module", "inst", "env", "abi", "encoded"}
      BY <1>3, <2>8
    <3> QED BY <1>3, <1>6, <2>8, <3>1 DEF StepFits, s, a, Resources, Caller
  <2>9. CASE i = 9
    <3>1. {s[j] : j \in 1..(i - 1)} =
            {"bytes", "signature", "module", "inst", "env", "abi", "encoded", "input"}
      BY <1>3, <2>9
    <3> QED BY <1>3, <1>6, <2>9, <3>1 DEF StepFits, s, a, Resources, Caller
  <2>10. CASE i = 10
    <3>1. {s[j] : j \in 1..(i - 1)} =
            {"bytes", "signature", "module", "inst", "env", "abi", "encoded", "input", "desc"}
      BY <1>3, <2>10
    <3> QED BY <1>3, <1>6, <2>10, <3>1 DEF StepFits, s, a, Resources, Caller
  <2> QED BY <1>3, <2>1, <2>2, <2>3, <2>4, <2>5, <2>6, <2>7, <2>8, <2>9, <2>10
<1> QED BY <1>7, <1>8, <1>9 DEF s, a

LEMMA ReeAppTable ==
    StepsEnd("reeApp") /\ Ordered(AllOf("reeApp")) /\ \A i \in 1..Len(Steps("reeApp")) : StepFits("reeApp", i)
<1> DEFINE s == Steps("reeApp")
           a == AllOf("reeApp")
<1>1. s = <<"bytes", "digest", "signature", "module", "inst", "env", "abi", "input", "desc",
            "main", "budget">>
  BY DEF Steps
<1>2. a = <<"output", "desc", "input", "env", "inst", "module", "bytes">>
  BY DEF AllOf
<1>3. /\ Len(s) = 11 /\ s[1] = "bytes" /\ s[2] = "digest" /\ s[3] = "signature"
      /\ s[4] = "module" /\ s[5] = "inst" /\ s[6] = "env" /\ s[7] = "abi" /\ s[8] = "input"
      /\ s[9] = "desc" /\ s[10] = "main" /\ s[11] = "budget"
  BY <1>1
<1>4. /\ DOMAIN a = 1..7 /\ a[1] = "output" /\ a[2] = "desc" /\ a[3] = "input" /\ a[4] = "env"
      /\ a[5] = "inst" /\ a[6] = "module" /\ a[7] = "bytes"
  BY <1>2
<1>5. a \in Seq((Resources \ Caller) \cup {"wamr"})
  <2> DEFINE S == (Resources \ Caller) \cup {"wamr"}
  <2>1. {"output", "desc", "input", "env", "inst", "module", "bytes"} \subseteq S
    BY DEF Resources, Caller
  <2> HIDE DEF S
  <2>2. <<"output", "desc", "input", "env", "inst", "module", "bytes">> \in Seq(S)
    BY <2>1
  <2> QED BY <1>2, <2>2 DEF S
<1> HIDE DEF s, a
<1>6. Listed(a) = {"output", "desc", "input", "env", "inst", "module", "bytes"}
  BY <1>4 DEF Listed
<1>7. StepsEnd("reeApp")
  <2>1. {"digest", "signature", "module", "inst", "env", "abi", "main"}
          \subseteq {s[j] : j \in 1..Len(s)}
    BY <1>3
  <2> QED BY <1>3, <1>5, <1>6, <2>1 DEF StepsEnd, s, a
<1>8. Ordered(a)
  BY <1>4 DEF Ordered, After, Needs
<1>9. ASSUME NEW i \in 1..Len(s) PROVE StepFits("reeApp", i)
  <2>1. CASE i = 1
    BY <1>3, <1>6, <2>1 DEF StepFits, s, a, Resources, Caller
  <2>2. CASE i = 2
    <3>1. {s[j] : j \in 1..(i - 1)} =
            {"bytes"}
      BY <1>3, <2>2
    <3> QED BY <1>3, <1>6, <2>2, <3>1 DEF StepFits, s, a, Resources, Caller
  <2>3. CASE i = 3
    <3>1. {s[j] : j \in 1..(i - 1)} =
            {"bytes", "digest"}
      BY <1>3, <2>3
    <3> QED BY <1>3, <1>6, <2>3, <3>1 DEF StepFits, s, a, Resources, Caller
  <2>4. CASE i = 4
    <3>1. {s[j] : j \in 1..(i - 1)} =
            {"bytes", "digest", "signature"}
      BY <1>3, <2>4
    <3> QED BY <1>3, <1>6, <2>4, <3>1 DEF StepFits, s, a, Resources, Caller
  <2>5. CASE i = 5
    <3>1. {s[j] : j \in 1..(i - 1)} =
            {"bytes", "digest", "signature", "module"}
      BY <1>3, <2>5
    <3> QED BY <1>3, <1>6, <2>5, <3>1 DEF StepFits, s, a, Resources, Caller
  <2>6. CASE i = 6
    <3>1. {s[j] : j \in 1..(i - 1)} =
            {"bytes", "digest", "signature", "module", "inst"}
      BY <1>3, <2>6
    <3> QED BY <1>3, <1>6, <2>6, <3>1 DEF StepFits, s, a, Resources, Caller
  <2>7. CASE i = 7
    <3>1. {s[j] : j \in 1..(i - 1)} =
            {"bytes", "digest", "signature", "module", "inst", "env"}
      BY <1>3, <2>7
    <3> QED BY <1>3, <1>6, <2>7, <3>1 DEF StepFits, s, a, Resources, Caller
  <2>8. CASE i = 8
    <3>1. {s[j] : j \in 1..(i - 1)} =
            {"bytes", "digest", "signature", "module", "inst", "env", "abi"}
      BY <1>3, <2>8
    <3> QED BY <1>3, <1>6, <2>8, <3>1 DEF StepFits, s, a, Resources, Caller
  <2>9. CASE i = 9
    <3>1. {s[j] : j \in 1..(i - 1)} =
            {"bytes", "digest", "signature", "module", "inst", "env", "abi", "input"}
      BY <1>3, <2>9
    <3> QED BY <1>3, <1>6, <2>9, <3>1 DEF StepFits, s, a, Resources, Caller
  <2>10. CASE i = 10
    <3>1. {s[j] : j \in 1..(i - 1)} =
            {"bytes", "digest", "signature", "module", "inst", "env", "abi", "input", "desc"}
      BY <1>3, <2>10
    <3> QED BY <1>3, <1>6, <2>10, <3>1 DEF StepFits, s, a, Resources, Caller
  <2>11. CASE i = 11
    <3>1. {s[j] : j \in 1..(i - 1)} =
            {"bytes", "digest", "signature", "module", "inst", "env", "abi", "input", "desc",
             "main"}
      BY <1>3, <2>11
    <3> QED BY <1>3, <1>6, <2>11, <3>1 DEF StepFits, s, a, Resources, Caller
  <2> QED BY <1>3, <2>1, <2>2, <2>3, <2>4, <2>5, <2>6, <2>7, <2>8, <2>9, <2>10, <2>11
<1> QED BY <1>7, <1>8, <1>9 DEF s, a

LEMMA TaAgentTable ==
    StepsEnd("taAgent") /\ Ordered(AllOf("taAgent")) /\ \A i \in 1..Len(Steps("taAgent")) : StepFits("taAgent", i)
<1> DEFINE s == Steps("taAgent")
           a == AllOf("taAgent")
<1>1. s = <<"signature", "key", "mode", "wamr", "natives", "bytes", "module", "inst", "env",
            "abi", "input", "desc", "main", "budget">>
  BY DEF Steps
<1>2. a = <<"output", "desc", "input", "env", "inst", "module", "bytes", "wamr", "key">>
  BY DEF AllOf
<1>3. /\ Len(s) = 14 /\ s[1] = "signature" /\ s[2] = "key" /\ s[3] = "mode" /\ s[4] = "wamr"
      /\ s[5] = "natives" /\ s[6] = "bytes" /\ s[7] = "module" /\ s[8] = "inst" /\ s[9] = "env"
      /\ s[10] = "abi" /\ s[11] = "input" /\ s[12] = "desc" /\ s[13] = "main" /\ s[14] = "budget"
  BY <1>1
<1>4. /\ DOMAIN a = 1..9 /\ a[1] = "output" /\ a[2] = "desc" /\ a[3] = "input" /\ a[4] = "env"
      /\ a[5] = "inst" /\ a[6] = "module" /\ a[7] = "bytes" /\ a[8] = "wamr" /\ a[9] = "key"
  BY <1>2
<1>5. a \in Seq((Resources \ Caller) \cup {"wamr"})
  <2> DEFINE S == (Resources \ Caller) \cup {"wamr"}
  <2>1. {"output", "desc", "input", "env", "inst", "module", "bytes", "wamr", "key"} \subseteq S
    BY DEF Resources, Caller
  <2> HIDE DEF S
  <2>2. <<"output", "desc", "input", "env", "inst", "module", "bytes", "wamr", "key">> \in Seq(S)
    BY <2>1
  <2> QED BY <1>2, <2>2 DEF S
<1> HIDE DEF s, a
<1>6. Listed(a) = {"output", "desc", "input", "env", "inst", "module", "bytes", "wamr", "key"}
  BY <1>4 DEF Listed
<1>7. StepsEnd("taAgent")
  <2>1. {"wamr", "natives", "bytes", "module", "inst", "env", "main"}
          \subseteq {s[j] : j \in 1..Len(s)}
    BY <1>3
  <2> QED BY <1>3, <1>5, <1>6, <2>1 DEF StepsEnd, s, a
<1>8. Ordered(a)
  BY <1>4 DEF Ordered, After, Needs
<1>9. ASSUME NEW i \in 1..Len(s) PROVE StepFits("taAgent", i)
  <2>1. CASE i = 1
    BY <1>3, <1>6, <2>1 DEF StepFits, s, a, Resources, Caller
  <2>2. CASE i = 2
    <3>1. {s[j] : j \in 1..(i - 1)} =
            {"signature"}
      BY <1>3, <2>2
    <3> QED BY <1>3, <1>6, <2>2, <3>1 DEF StepFits, s, a, Resources, Caller
  <2>3. CASE i = 3
    <3>1. {s[j] : j \in 1..(i - 1)} =
            {"signature", "key"}
      BY <1>3, <2>3
    <3> QED BY <1>3, <1>6, <2>3, <3>1 DEF StepFits, s, a, Resources, Caller
  <2>4. CASE i = 4
    <3>1. {s[j] : j \in 1..(i - 1)} =
            {"signature", "key", "mode"}
      BY <1>3, <2>4
    <3> QED BY <1>3, <1>6, <2>4, <3>1 DEF StepFits, s, a, Resources, Caller
  <2>5. CASE i = 5
    <3>1. {s[j] : j \in 1..(i - 1)} =
            {"signature", "key", "mode", "wamr"}
      BY <1>3, <2>5
    <3> QED BY <1>3, <1>6, <2>5, <3>1 DEF StepFits, s, a, Resources, Caller
  <2>6. CASE i = 6
    <3>1. {s[j] : j \in 1..(i - 1)} =
            {"signature", "key", "mode", "wamr", "natives"}
      BY <1>3, <2>6
    <3> QED BY <1>3, <1>6, <2>6, <3>1 DEF StepFits, s, a, Resources, Caller
  <2>7. CASE i = 7
    <3>1. {s[j] : j \in 1..(i - 1)} =
            {"signature", "key", "mode", "wamr", "natives", "bytes"}
      BY <1>3, <2>7
    <3> QED BY <1>3, <1>6, <2>7, <3>1 DEF StepFits, s, a, Resources, Caller
  <2>8. CASE i = 8
    <3>1. {s[j] : j \in 1..(i - 1)} =
            {"signature", "key", "mode", "wamr", "natives", "bytes", "module"}
      BY <1>3, <2>8
    <3> QED BY <1>3, <1>6, <2>8, <3>1 DEF StepFits, s, a, Resources, Caller
  <2>9. CASE i = 9
    <3>1. {s[j] : j \in 1..(i - 1)} =
            {"signature", "key", "mode", "wamr", "natives", "bytes", "module", "inst"}
      BY <1>3, <2>9
    <3> QED BY <1>3, <1>6, <2>9, <3>1 DEF StepFits, s, a, Resources, Caller
  <2>10. CASE i = 10
    <3>1. {s[j] : j \in 1..(i - 1)} =
            {"signature", "key", "mode", "wamr", "natives", "bytes", "module", "inst", "env"}
      BY <1>3, <2>10
    <3> QED BY <1>3, <1>6, <2>10, <3>1 DEF StepFits, s, a, Resources, Caller
  <2>11. CASE i = 11
    <3>1. {s[j] : j \in 1..(i - 1)} =
            {"signature", "key", "mode", "wamr", "natives", "bytes", "module", "inst", "env",
             "abi"}
      BY <1>3, <2>11
    <3> QED BY <1>3, <1>6, <2>11, <3>1 DEF StepFits, s, a, Resources, Caller
  <2>12. CASE i = 12
    <3>1. {s[j] : j \in 1..(i - 1)} =
            {"signature", "key", "mode", "wamr", "natives", "bytes", "module", "inst", "env",
             "abi", "input"}
      BY <1>3, <2>12
    <3> QED BY <1>3, <1>6, <2>12, <3>1 DEF StepFits, s, a, Resources, Caller
  <2>13. CASE i = 13
    <3>1. {s[j] : j \in 1..(i - 1)} =
            {"signature", "key", "mode", "wamr", "natives", "bytes", "module", "inst", "env",
             "abi", "input", "desc"}
      BY <1>3, <2>13
    <3> QED BY <1>3, <1>6, <2>13, <3>1 DEF StepFits, s, a, Resources, Caller
  <2>14. CASE i = 14
    <3>1. {s[j] : j \in 1..(i - 1)} =
            {"signature", "key", "mode", "wamr", "natives", "bytes", "module", "inst", "env",
             "abi", "input", "desc", "main"}
      BY <1>3, <2>14
    <3> QED BY <1>3, <1>6, <2>14, <3>1 DEF StepFits, s, a, Resources, Caller
  <2> QED BY <1>3, <2>1, <2>2, <2>3, <2>4, <2>5, <2>6, <2>7, <2>8, <2>9, <2>10, <2>11, <2>12, <2>13,
            <2>14
<1> QED BY <1>7, <1>8, <1>9 DEF s, a

LEMMA TaAppTable ==
    StepsEnd("taApp") /\ Ordered(AllOf("taApp")) /\ \A i \in 1..Len(Steps("taApp")) : StepFits("taApp", i)
<1> DEFINE s == Steps("taApp")
           a == AllOf("taApp")
<1>1. s = <<"wamr", "imports", "module", "inst", "env", "abi", "input", "desc", "main",
            "budget">>
  BY DEF Steps
<1>2. a = <<"output", "desc", "input", "env", "inst", "module">>
  BY DEF AllOf
<1>3. /\ Len(s) = 10 /\ s[1] = "wamr" /\ s[2] = "imports" /\ s[3] = "module" /\ s[4] = "inst" /\ s[5] = "env"
      /\ s[6] = "abi" /\ s[7] = "input" /\ s[8] = "desc" /\ s[9] = "main" /\ s[10] = "budget"
  BY <1>1
<1>4. /\ DOMAIN a = 1..6 /\ a[1] = "output" /\ a[2] = "desc" /\ a[3] = "input" /\ a[4] = "env" /\ a[5] = "inst"
      /\ a[6] = "module"
  BY <1>2
<1>5. a \in Seq((Resources \ Caller) \cup {"wamr"})
  <2> DEFINE S == (Resources \ Caller) \cup {"wamr"}
  <2>1. {"output", "desc", "input", "env", "inst", "module"} \subseteq S
    BY DEF Resources, Caller
  <2> HIDE DEF S
  <2>2. <<"output", "desc", "input", "env", "inst", "module">> \in Seq(S)
    BY <2>1
  <2> QED BY <1>2, <2>2 DEF S
<1> HIDE DEF s, a
<1>6. Listed(a) = {"output", "desc", "input", "env", "inst", "module"}
  BY <1>4 DEF Listed
<1>7. StepsEnd("taApp")
  <2>1. {"wamr", "imports", "module", "inst", "env", "abi", "main"}
          \subseteq {s[j] : j \in 1..Len(s)}
    BY <1>3
  <2> QED BY <1>3, <1>5, <1>6, <2>1 DEF StepsEnd, s, a
<1>8. Ordered(a)
  BY <1>4 DEF Ordered, After, Needs
<1>9. ASSUME NEW i \in 1..Len(s) PROVE StepFits("taApp", i)
  <2>1. CASE i = 1
    BY <1>3, <1>6, <2>1 DEF StepFits, s, a, Resources, Caller
  <2>2. CASE i = 2
    <3>1. {s[j] : j \in 1..(i - 1)} =
            {"wamr"}
      BY <1>3, <2>2
    <3> QED BY <1>3, <1>6, <2>2, <3>1 DEF StepFits, s, a, Resources, Caller
  <2>3. CASE i = 3
    <3>1. {s[j] : j \in 1..(i - 1)} =
            {"wamr", "imports"}
      BY <1>3, <2>3
    <3> QED BY <1>3, <1>6, <2>3, <3>1 DEF StepFits, s, a, Resources, Caller
  <2>4. CASE i = 4
    <3>1. {s[j] : j \in 1..(i - 1)} =
            {"wamr", "imports", "module"}
      BY <1>3, <2>4
    <3> QED BY <1>3, <1>6, <2>4, <3>1 DEF StepFits, s, a, Resources, Caller
  <2>5. CASE i = 5
    <3>1. {s[j] : j \in 1..(i - 1)} =
            {"wamr", "imports", "module", "inst"}
      BY <1>3, <2>5
    <3> QED BY <1>3, <1>6, <2>5, <3>1 DEF StepFits, s, a, Resources, Caller
  <2>6. CASE i = 6
    <3>1. {s[j] : j \in 1..(i - 1)} =
            {"wamr", "imports", "module", "inst", "env"}
      BY <1>3, <2>6
    <3> QED BY <1>3, <1>6, <2>6, <3>1 DEF StepFits, s, a, Resources, Caller
  <2>7. CASE i = 7
    <3>1. {s[j] : j \in 1..(i - 1)} =
            {"wamr", "imports", "module", "inst", "env", "abi"}
      BY <1>3, <2>7
    <3> QED BY <1>3, <1>6, <2>7, <3>1 DEF StepFits, s, a, Resources, Caller
  <2>8. CASE i = 8
    <3>1. {s[j] : j \in 1..(i - 1)} =
            {"wamr", "imports", "module", "inst", "env", "abi", "input"}
      BY <1>3, <2>8
    <3> QED BY <1>3, <1>6, <2>8, <3>1 DEF StepFits, s, a, Resources, Caller
  <2>9. CASE i = 9
    <3>1. {s[j] : j \in 1..(i - 1)} =
            {"wamr", "imports", "module", "inst", "env", "abi", "input", "desc"}
      BY <1>3, <2>9
    <3> QED BY <1>3, <1>6, <2>9, <3>1 DEF StepFits, s, a, Resources, Caller
  <2>10. CASE i = 10
    <3>1. {s[j] : j \in 1..(i - 1)} =
            {"wamr", "imports", "module", "inst", "env", "abi", "input", "desc", "main"}
      BY <1>3, <2>10
    <3> QED BY <1>3, <1>6, <2>10, <3>1 DEF StepFits, s, a, Resources, Caller
  <2> QED BY <1>3, <2>1, <2>2, <2>3, <2>4, <2>5, <2>6, <2>7, <2>8, <2>9, <2>10
<1> QED BY <1>7, <1>8, <1>9 DEF s, a

LEMMA SpikeTable ==
    StepsEnd("spike") /\ Ordered(AllOf("spike")) /\ \A i \in 1..Len(Steps("spike")) : StepFits("spike", i)
<1> DEFINE s == Steps("spike")
           a == AllOf("spike")
<1>1. s = <<"wamr", "imports", "module", "inst", "env", "input", "desc", "main", "budget">>
  BY DEF Steps
<1>2. a = <<"output", "desc", "input", "env", "inst", "module", "wamr">>
  BY DEF AllOf
<1>3. /\ Len(s) = 9 /\ s[1] = "wamr" /\ s[2] = "imports" /\ s[3] = "module" /\ s[4] = "inst" /\ s[5] = "env"
      /\ s[6] = "input" /\ s[7] = "desc" /\ s[8] = "main" /\ s[9] = "budget"
  BY <1>1
<1>4. /\ DOMAIN a = 1..7 /\ a[1] = "output" /\ a[2] = "desc" /\ a[3] = "input" /\ a[4] = "env" /\ a[5] = "inst"
      /\ a[6] = "module" /\ a[7] = "wamr"
  BY <1>2
<1>5. a \in Seq((Resources \ Caller) \cup {"wamr"})
  <2> DEFINE S == (Resources \ Caller) \cup {"wamr"}
  <2>1. {"output", "desc", "input", "env", "inst", "module", "wamr"} \subseteq S
    BY DEF Resources, Caller
  <2> HIDE DEF S
  <2>2. <<"output", "desc", "input", "env", "inst", "module", "wamr">> \in Seq(S)
    BY <2>1
  <2> QED BY <1>2, <2>2 DEF S
<1> HIDE DEF s, a
<1>6. Listed(a) = {"output", "desc", "input", "env", "inst", "module", "wamr"}
  BY <1>4 DEF Listed
<1>7. StepsEnd("spike")
  <2>1. {"wamr", "module", "inst", "env", "main"} \subseteq {s[j] : j \in 1..Len(s)}
    BY <1>3
  <2> QED BY <1>3, <1>5, <1>6, <2>1 DEF StepsEnd, s, a
<1>8. Ordered(a)
  BY <1>4 DEF Ordered, After, Needs
<1>9. ASSUME NEW i \in 1..Len(s) PROVE StepFits("spike", i)
  <2>1. CASE i = 1
    BY <1>3, <1>6, <2>1 DEF StepFits, s, a, Resources, Caller
  <2>2. CASE i = 2
    <3>1. {s[j] : j \in 1..(i - 1)} =
            {"wamr"}
      BY <1>3, <2>2
    <3> QED BY <1>3, <1>6, <2>2, <3>1 DEF StepFits, s, a, Resources, Caller
  <2>3. CASE i = 3
    <3>1. {s[j] : j \in 1..(i - 1)} =
            {"wamr", "imports"}
      BY <1>3, <2>3
    <3> QED BY <1>3, <1>6, <2>3, <3>1 DEF StepFits, s, a, Resources, Caller
  <2>4. CASE i = 4
    <3>1. {s[j] : j \in 1..(i - 1)} =
            {"wamr", "imports", "module"}
      BY <1>3, <2>4
    <3> QED BY <1>3, <1>6, <2>4, <3>1 DEF StepFits, s, a, Resources, Caller
  <2>5. CASE i = 5
    <3>1. {s[j] : j \in 1..(i - 1)} =
            {"wamr", "imports", "module", "inst"}
      BY <1>3, <2>5
    <3> QED BY <1>3, <1>6, <2>5, <3>1 DEF StepFits, s, a, Resources, Caller
  <2>6. CASE i = 6
    <3>1. {s[j] : j \in 1..(i - 1)} =
            {"wamr", "imports", "module", "inst", "env"}
      BY <1>3, <2>6
    <3> QED BY <1>3, <1>6, <2>6, <3>1 DEF StepFits, s, a, Resources, Caller
  <2>7. CASE i = 7
    <3>1. {s[j] : j \in 1..(i - 1)} =
            {"wamr", "imports", "module", "inst", "env", "input"}
      BY <1>3, <2>7
    <3> QED BY <1>3, <1>6, <2>7, <3>1 DEF StepFits, s, a, Resources, Caller
  <2>8. CASE i = 8
    <3>1. {s[j] : j \in 1..(i - 1)} =
            {"wamr", "imports", "module", "inst", "env", "input", "desc"}
      BY <1>3, <2>8
    <3> QED BY <1>3, <1>6, <2>8, <3>1 DEF StepFits, s, a, Resources, Caller
  <2>9. CASE i = 9
    <3>1. {s[j] : j \in 1..(i - 1)} =
            {"wamr", "imports", "module", "inst", "env", "input", "desc", "main"}
      BY <1>3, <2>9
    <3> QED BY <1>3, <1>6, <2>9, <3>1 DEF StepFits, s, a, Resources, Caller
  <2> QED BY <1>3, <2>1, <2>2, <2>3, <2>4, <2>5, <2>6, <2>7, <2>8, <2>9
<1> QED BY <1>7, <1>8, <1>9 DEF s, a

LEMMA Tables ==
    \A r \in Runners : StepsEnd(r) /\ Ordered(AllOf(r)) /\ \A i \in 1..Len(Steps(r)) : StepFits(r, i)
BY ReeAgentTable, ReeAppTable, TaAgentTable, TaAppTable, SpikeTable DEF Runners, Agents, AppRunners

\* Releasing the head of an ordered list takes nothing away from the rest of it.
LEMMA HeadLast ==
    ASSUME NEW S, NEW list \in Seq(S), list # <<>>, Ordered(list)
    PROVE  /\ Head(list) \in S /\ Tail(list) \in Seq(S)
           /\ Listed(list) \subseteq {Head(list)} \cup Listed(Tail(list))
           /\ Ordered(Tail(list))
           /\ \A y \in Listed(list) : Head(list) \notin After(y)
<1>1. Len(list) \in Nat \ {0} /\ DOMAIN list = 1..Len(list) /\ Head(list) = list[1]
  OBVIOUS
<1>2. /\ Tail(list) \in Seq(S) /\ Len(Tail(list)) = Len(list) - 1
      /\ DOMAIN Tail(list) = 1..(Len(list) - 1)
      /\ \A i \in 1..(Len(list) - 1) : Tail(list)[i] = list[i + 1]
  OBVIOUS
<1>3. Head(list) \in S
  BY <1>1
<1>4. ASSUME NEW y \in Listed(list) PROVE y \in {Head(list)} \cup Listed(Tail(list))
  <2>1. PICK i \in 1..Len(list) : y = list[i]
    BY <1>1, <1>4 DEF Listed
  <2>2. CASE i = 1
    BY <1>1, <2>1, <2>2
  <2>3. CASE i # 1
    <3>1. i - 1 \in 1..(Len(list) - 1) /\ list[i] = Tail(list)[i - 1]
      BY <1>1, <1>2, <2>1, <2>3
    <3> QED BY <1>2, <2>1, <3>1 DEF Listed
  <2> QED BY <2>2, <2>3
<1>5. Ordered(Tail(list))
  <2> SUFFICES ASSUME NEW i \in 1..(Len(list) - 1), NEW j \in 1..(Len(list) - 1),
                      list[i + 1] \in After(list[j + 1])
               PROVE  j < i
    BY <1>2 DEF Ordered
  <2>1. i + 1 \in DOMAIN list /\ j + 1 \in DOMAIN list
    BY <1>1
  <2>2. j + 1 < i + 1
    BY <2>1 DEF Ordered
  <2> QED BY <1>1, <2>2
<1>6. ASSUME NEW y \in Listed(list) PROVE Head(list) \notin After(y)
  <2>1. PICK i \in 1..Len(list) : y = list[i]
    BY <1>1, <1>6 DEF Listed
  <2> QED BY <1>1, <2>1 DEF Ordered
<1> QED BY <1>2, <1>3, <1>4, <1>5, <1>6

----------------------------------------------------------------------------
(* A function that runs a module.                                          *)

LEMMA NeedsSame ==
    ASSUME runner' = runner, verified' = verified
    PROVE  \A y : Needs(y)' = Needs(y) /\ After(y)' = After(y)
<1>1. \A y : Needs(y)' = Needs(y)
  BY DEF Needs
<1> QED BY <1>1 DEF After

\* What the invariant says of the steps done and of the next one.
LEMMA AtStep ==
    ASSUME ReleaseInv, Running
    PROVE  /\ runner \in Runners /\ n \in 1..15 /\ kept \in {{}, LiveSession}
           /\ held \subseteq Resources /\ StepsEnd(runner)
           /\ pc = "step" => StepFits(runner, n) /\ n \in 1..Len(Steps(runner))
           /\ pc \in {"call", "read"} => Done = {Steps(runner)[j] : j \in 1..Len(Steps(runner))}
<1>1. runner \in Runners /\ n \in 1..15 /\ kept \in {{}, LiveSession} /\ held \subseteq Resources
  BY DEF ReleaseInv, TypeOK
<1>2. StepsEnd(runner) /\ \A i \in 1..Len(Steps(runner)) : StepFits(runner, i)
  BY <1>1, Tables
<1>3. pc \in {"call", "read"} => Done = {Steps(runner)[j] : j \in 1..Len(Steps(runner))}
  <2> SUFFICES ASSUME pc \in {"call", "read"}
               PROVE  Done = {Steps(runner)[j] : j \in 1..Len(Steps(runner))}
    OBVIOUS
  <2>1. n - 1 = Len(Steps(runner))
    BY <1>2 DEF ReleaseInv, PlaceInv, StepsEnd
  <2> QED BY <2>1 DEF Done
<1> QED BY <1>1, <1>2, <1>3 DEF ReleaseInv, PlaceInv

\* The steps before an exit acquire only what the list of that exit releases.
LEMMA CleanupFits ==
    ASSUME ReleaseInv, Running, NEW step, pc = "step" => step = Step, pc # "step" => step = "call"
    PROVE  /\ Cleanup(runner, step) \in Seq((Resources \ Caller) \cup {"wamr"})
           /\ Ordered(Cleanup(runner, step))
           /\ held \subseteq Caller \cup {"key"} \cup Listed(Cleanup(runner, step))
           /\ pc # "step" => "output" \in Listed(Cleanup(runner, step))
<1> DEFINE early == step \in {"key", "mode", "wamr"} \/ (runner = "taAgent" /\ step = "signature")
<1>1. /\ runner \in Runners /\ n \in 1..15 /\ held \subseteq Resources /\ StepsEnd(runner)
      /\ pc = "step" => StepFits(runner, n) /\ n \in 1..Len(Steps(runner))
  BY AtStep
<1>2. Ordered(AllOf(runner)) /\ AllOf(runner) \in Seq((Resources \ Caller) \cup {"wamr"})
  BY <1>1, Tables DEF StepsEnd
<1>3. held \subseteq Caller \cup Done
  BY DEF ReleaseInv, RunnerInv
<1>4. ASSUME early
      PROVE  held \subseteq Caller \cup {"key"} /\ Cleanup(runner, step) = <<>> /\ pc = "step"
  <2>1. pc = "step" /\ step = Step
    BY <1>4
  <2>2. Done \subseteq {"signature", "key", "mode"}
    BY <1>1, <1>4, <2>1 DEF StepFits, Done, Step
  <2> QED BY <1>1, <1>3, <1>4, <2>1, <2>2 DEF Cleanup, Resources
<1>5. ASSUME NEW x \in Done, x \in Resources PROVE x \in Listed(AllOf(runner))
  <2>1. PICK i \in 1..(n - 1) : x = Steps(runner)[i]
    BY <1>5 DEF Done
  <2>2. i \in 1..Len(Steps(runner))
    BY <1>1, <2>1 DEF ReleaseInv, PlaceInv, Running, StepsEnd
  <2>3. StepFits(runner, i)
    BY <1>1, <2>2, Tables
  <2> QED BY <1>5, <2>1, <2>3 DEF StepFits
<1>6. CASE early
  <2>1. Cleanup(runner, step) = <<>> /\ held \subseteq Caller \cup {"key"} /\ pc = "step"
    BY <1>4, <1>6
  <2>2. <<>> \in Seq((Resources \ Caller) \cup {"wamr"}) /\ DOMAIN <<>> = {}
    OBVIOUS
  <2>3. Ordered(<<>>)
    BY <2>2 DEF Ordered
  <2> QED BY <2>1, <2>2, <2>3
<1>7. CASE ~early
  <2>1. Cleanup(runner, step) = AllOf(runner)
    BY <1>7 DEF Cleanup
  <2> QED BY <1>1, <1>2, <1>3, <1>5, <2>1 DEF StepsEnd
<1> QED BY <1>6, <1>7

\* An exit: what is held is in the list.
LEMMA Leaving ==
    ASSUME ReleaseInv, Running, pc' = "release", Ordered(todo'),
           todo' \in Seq((Resources \ Caller) \cup {"wamr"}),
           held \subseteq Caller \cup {"key"} \cup Listed(todo'),
           \/ held' = held
           \/ held' = held \cup {"output"} /\ pc = "read" /\ "output" \in Listed(todo'),
           result'[1] \in {"resolved", "error", "need", "ok", "app", "limit", "fail"},
           faulty' \in BOOLEAN,
           UNCHANGED <<app, request, verified, runner, n, lost, kept, pending, wamr, natives,
                       metered, fuel, answers>>
    PROVE  ReleaseInv'
<1>1. held' \subseteq Resources /\ held' \subseteq Caller \cup {"key"} \cup Listed(todo')
      /\ held' \cap Caller = held \cap Caller
  BY DEF ReleaseInv, TypeOK, Resources, Caller
<1>2. TypeOK'
  BY <1>1 DEF ReleaseInv, TypeOK
<1>3. PlaceInv'
  BY DEF ReleaseInv, PlaceInv
<1>4. CallerInv'
  BY <1>1 DEF ReleaseInv, CallerInv, Running, Caller
<1>5. \A y : Needs(y)' = Needs(y) /\ After(y)' = After(y)
  BY NeedsSame
<1>6. Ordered(todo)' /\ Listed(todo)' = Listed(todo')
  BY <1>5 DEF Ordered, Listed
<1>7. RunnerInv'
  BY <1>1, <1>6 DEF RunnerInv, Running
<1>8. Released'
  BY DEF ReleaseInv, Released
<1>9. held' # held => {"env", "inst"} \subseteq held \cup kept
  <2> SUFFICES ASSUME pc = "read" PROVE {"env", "inst"} \subseteq held \cup kept
    OBVIOUS
  <2>1. {"env", "inst"} \subseteq Done
    BY AtStep DEF StepsEnd
  <2> QED BY <2>1 DEF ReleaseInv, RunnerInv
<1>10. \A r \in held' : Needs(r)' \subseteq held' \cup kept'
  <2>1. Needs("output") = {"env", "inst"}
    BY DEF Needs
  <2> QED BY <1>5, <1>9, <2>1 DEF ReleaseInv, Anchored
<1>11. Anchored'
  BY <1>10 DEF ReleaseInv, Anchored
<1> QED BY <1>2, <1>3, <1>4, <1>7, <1>8, <1>11 DEF ReleaseInv

LEMMA AcquireReleases ==
    ASSUME ReleaseInv, Acquire
    PROVE  ReleaseInv'
<1>1. /\ pc = "step" /\ n' = n + 1 /\ held \subseteq held' /\ held' \subseteq held \cup Acquired
      /\ (held' = held \cup Acquired \/ Step = "key")
      /\ pc' = IF n = Len(Steps(runner)) THEN "call" ELSE "step"
      /\ wamr' = (wamr \/ Step = "wamr") /\ natives' = (natives \/ Step = "natives")
      /\ metered' = (metered \/ Step = "budget")
      /\ fuel' = IF Step = "budget" THEN Budget ELSE fuel
      /\ UNCHANGED <<app, request, verified, runner, lost, kept, pending, todo, result, faulty, answers>>
  BY DEF Acquire
<1>2. /\ runner \in Runners /\ n \in 1..15 /\ kept \in {{}, LiveSession} /\ held \subseteq Resources
      /\ StepsEnd(runner) /\ StepFits(runner, n) /\ n \in 1..Len(Steps(runner))
  BY <1>1, AtStep DEF Running
<1>3. Len(Steps(runner)) \in 1..14
  BY <1>2 DEF StepsEnd
<1>4. Acquired \subseteq {Step} \cap Resources
  BY DEF Acquired
<1>5. /\ Step \notin Caller \cup {"output"}
      /\ Step = "module" /\ runner \in {"taAgent", "taApp", "spike"} => "wamr" \in Done
      /\ Step = "module" /\ runner = "taAgent" => "natives" \in Done
      /\ Step = "module" /\ runner \in {"reeAgent", "reeApp", "taAgent"} => "bytes" \in Done
      /\ Step = "inst" => "module" \in Done
      /\ Step \in {"env", "input", "desc"} => "inst" \in Done
  BY <1>2 DEF StepFits, Step, Done
<1>6. Done' = Done \cup {Step}
  BY <1>1, <1>2 DEF Done, Step
<1>7. held \subseteq Caller \cup Done
      /\ Done \cap {"bytes", "module", "inst", "env", "desc"} \subseteq held \cup kept
      /\ ("wamr" \in Done => wamr) /\ ("natives" \in Done => natives)
  BY <1>1 DEF ReleaseInv, RunnerInv, Running
<1>8. Step \in {"bytes", "module", "inst", "env", "desc"} => Step \in held' \cup kept'
  <2>1. CASE Step \in LiveSession /\ Lent
    BY <1>1, <1>2, <2>1 DEF Lent
  <2>2. CASE ~(Step \in LiveSession /\ Lent) /\ Step \in {"bytes", "module", "inst", "env", "desc"}
    <3>1. Acquired = {Step} \cap Resources
      BY <2>2 DEF Acquired
    <3> QED BY <1>1, <2>2, <3>1 DEF Resources
  <2> QED BY <2>1, <2>2
<1>9. held' \subseteq Resources /\ held' \cap Caller = held \cap Caller
  BY <1>1, <1>2, <1>4, <1>5
<1>10. TypeOK'
  <2>1. n' \in 1..15
    <3>0. \A m \in 1..14 : \A k \in 1..m : k \in 1..14
      OBVIOUS
    <3>1. n \in 1..14
      BY <1>2, <1>3, <3>0
    <3>2. n' = n + 1
      BY <1>1
    <3> QED BY <3>1, <3>2
  <2>2. fuel' \in 0..Budget
    <3>1. Budget \in Nat /\ fuel \in 0..Budget
      BY SizesAssumption DEF ReleaseInv, TypeOK
    <3> QED BY <1>1, <3>1
  <2>3. {verified', pending', wamr', natives', metered', faulty'} \subseteq BOOLEAN
    BY <1>1 DEF ReleaseInv, TypeOK
  <2> QED BY <1>1, <1>9, <2>1, <2>2, <2>3 DEF ReleaseInv, TypeOK
<1>11. PlaceInv'
  BY <1>1, <1>2, <1>3 DEF ReleaseInv, PlaceInv
<1>12. CallerInv'
  BY <1>1, <1>9 DEF ReleaseInv, CallerInv, Caller
<1>13. RunnerInv'
  BY <1>1, <1>4, <1>6, <1>7, <1>8 DEF RunnerInv, Running
<1>14. Released'
  BY <1>1 DEF ReleaseInv, Released
<1>15. \A y : Needs(y)' = Needs(y)
  BY <1>1, NeedsSame
<1>16. Step \in held' /\ Step \notin held => Needs(Step) \subseteq held' \cup kept'
  <2>1. CASE Step = "module"
    <3>1. CASE runner = "taApp"
      <4>1. Needs(Step) \subseteq {"protected_app"} /\ (~verified => Needs(Step) = {})
        BY <2>1, <3>1 DEF Needs
      <4>2. verified => "protected_app" \in held
        BY <1>1, <3>1 DEF ReleaseInv, CallerInv
      <4> QED BY <1>1, <4>1, <4>2
    <3>2. CASE runner \in {"reeAgent", "reeApp", "taAgent"}
      BY <1>1, <1>5, <1>7, <2>1, <3>2 DEF Needs
    <3>3. CASE runner = "spike"
      BY <2>1, <3>3 DEF Needs
    <3> QED BY <1>2, <3>1, <3>2, <3>3 DEF Runners, Agents, AppRunners
  <2>2. CASE Step \in {"inst", "env", "input", "desc"}
    BY <1>1, <1>5, <1>7, <2>2 DEF Needs
  <2>3. CASE Step \notin {"module", "inst", "env", "input", "desc"}
    BY <1>5, <2>3 DEF Needs
  <2> QED BY <2>1, <2>2, <2>3
<1>17. Anchored'
  <2>1. \A r \in held' : Needs(r)' \subseteq held' \cup kept'
    BY <1>1, <1>4, <1>15, <1>16 DEF ReleaseInv, Anchored
  <2>2. "module" \in held' => "module" \in held \/ Step = "module"
    BY <1>1, <1>4
  <2> QED BY <1>1, <1>5, <1>7, <2>1, <2>2 DEF ReleaseInv, Anchored
<1> QED BY <1>10, <1>11, <1>12, <1>13, <1>14, <1>17 DEF ReleaseInv

LEMMA RefuseReleases ==
    ASSUME ReleaseInv, Refuse \/ NoMemory
    PROVE  ReleaseInv'
<1>1. /\ pc = "step" /\ pc' = "release" /\ todo' = Cleanup(runner, Step) /\ result' = <<"fail">>
      /\ held' = held /\ faulty' \in {faulty, TRUE}
      /\ UNCHANGED <<app, request, verified, runner, n, lost, kept, pending, wamr, natives,
                     metered, fuel, answers>>
  BY DEF Refuse, NoMemory, Exit
<1>2. /\ todo' \in Seq((Resources \ Caller) \cup {"wamr"}) /\ Ordered(todo')
      /\ held \subseteq Caller \cup {"key"} \cup Listed(todo')
  BY <1>1, CleanupFits DEF Running
<1>3. faulty' \in BOOLEAN
  BY <1>1 DEF ReleaseInv, TypeOK
<1>4. result'[1] = "fail"
  BY <1>1
<1> QED BY <1>1, <1>2, <1>3, <1>4, Leaving DEF Running

\* The call has returned; the output is still to be read.
LEMMA ToReadReleases ==
    ASSUME ReleaseInv, pc = "call", pc' = "read",
           UNCHANGED <<app, request, verified, runner, n, held, lost, kept, pending, wamr, natives,
                       metered, fuel, todo, result, faulty, answers>>
    PROVE  ReleaseInv'
<1>1. \A y : Needs(y)' = Needs(y)
  BY NeedsSame
<1>2. TypeOK' /\ Released'
  BY DEF ReleaseInv, TypeOK, Released
<1>3. PlaceInv' /\ CallerInv'
  BY DEF ReleaseInv, PlaceInv, CallerInv
<1>4. RunnerInv'
  BY DEF ReleaseInv, RunnerInv, Running, Done
<1>5. Anchored'
  BY <1>1 DEF ReleaseInv, Anchored
<1> QED BY <1>2, <1>3, <1>4, <1>5 DEF ReleaseInv

\* Host I/O: the session keeps the module that the runner held or was lent.
LEMMA NeedReleases ==
    ASSUME ReleaseInv, pc = "call", runner = "taAgent", Exit(Cleanup(runner, "call"), <<"need">>),
           kept' = LiveSession, held' = held \ LiveSession,
           UNCHANGED <<app, request, verified, runner, n, lost, pending, wamr, natives, metered, fuel,
                       faulty, answers>>
    PROVE  ReleaseInv'
<1>1. /\ Cleanup(runner, "call") \in Seq((Resources \ Caller) \cup {"wamr"}) /\ Ordered(Cleanup(runner, "call"))
      /\ held \subseteq Caller \cup {"key"} \cup Listed(Cleanup(runner, "call"))
  BY CleanupFits DEF Running
<1>2. pc' = "release" /\ todo' = Cleanup(runner, "call") /\ result' = <<"need">>
  BY DEF Exit
<1>3. result'[1] = "need"
  BY <1>2
<1>4. \A y : Needs(y)' = Needs(y) /\ After(y)' = After(y)
  BY NeedsSame
<1>5. {"wamr", "natives"} \subseteq Done
  BY AtStep DEF Running, StepsEnd
<1>6. wamr /\ natives
  BY <1>5 DEF ReleaseInv, RunnerInv, Running
<1>7. TypeOK'
  BY <1>1, <1>2, <1>3 DEF ReleaseInv, TypeOK
<1>8. PlaceInv'
  BY <1>2 DEF ReleaseInv, PlaceInv
<1>9. CallerInv'
  BY <1>2 DEF ReleaseInv, CallerInv, Caller, LiveSession
<1>10. Ordered(todo)' /\ Listed(todo)' = Listed(todo')
  BY <1>1, <1>2, <1>4 DEF Ordered, Listed
<1>11. RunnerInv'
  BY <1>1, <1>2, <1>10 DEF RunnerInv, Running
<1>12. Released'
  BY DEF ReleaseInv, Released
<1>13. Anchored'
  <2>1. kept \subseteq LiveSession
    BY DEF ReleaseInv, TypeOK
  <2>2. \A r \in held' : Needs(r)' \subseteq held' \cup kept'
    BY <1>4, <2>1 DEF ReleaseInv, Anchored
  <2> QED BY <1>6, <2>2 DEF Anchored
<1> QED BY <1>7, <1>8, <1>9, <1>11, <1>12, <1>13 DEF ReleaseInv

LEMMA CallReleases ==
    ASSUME ReleaseInv, CallAgent \/ CallApp
    PROVE  ReleaseInv'
<1>1. /\ pc = "call"
      /\ UNCHANGED <<app, request, verified, runner, n, lost, pending, wamr, natives, metered, fuel,
                     faulty, answers>>
  BY DEF CallAgent, CallApp
<1>2. CASE pc' = "read" /\ UNCHANGED <<held, kept, todo, result>>
  BY <1>1, <1>2, ToReadReleases
<1>3. CASE /\ pc' = "release" /\ todo' = Cleanup(runner, "call")
           /\ UNCHANGED <<held, kept>> /\ result'[1] \in {"fail", "app"}
  <2>1. /\ todo' \in Seq((Resources \ Caller) \cup {"wamr"}) /\ Ordered(todo')
        /\ held \subseteq Caller \cup {"key"} \cup Listed(todo')
    BY <1>1, <1>3, CleanupFits DEF Running
  <2>2. faulty' \in BOOLEAN
    BY <1>1 DEF ReleaseInv, TypeOK
  <2> QED BY <1>1, <1>3, <2>1, <2>2, Leaving DEF Running
<1>4. CASE /\ runner = "taAgent" /\ Exit(Cleanup(runner, "call"), <<"need">>)
           /\ kept' = LiveSession /\ held' = held \ LiveSession
  BY <1>1, <1>4, NeedReleases
<1>5. CASE CallAgent
  BY <1>2, <1>3, <1>4, <1>5 DEF CallAgent, Exit
<1>6. CASE CallApp
  <2>1. \/ pc' = "read" /\ UNCHANGED <<todo, result>>
        \/ Exit(Cleanup(runner, "call"), <<"app", app.code>>)
        \/ Exit(Cleanup(runner, "call"), <<"fail">>)
    <3>1. CASE app.main = "zero"
      BY <1>6, <3>1 DEF CallApp
    <3>2. CASE app.main = "code" /\ runner = "reeApp"
      BY <1>6, <3>2 DEF CallApp
    <3>3. CASE app.main # "zero" /\ ~(app.main = "code" /\ runner = "reeApp")
      BY <1>6, <3>3 DEF CallApp
    <3> QED BY <3>1, <3>2, <3>3
  <2>2. UNCHANGED <<held, kept>>
    BY <1>6 DEF CallApp
  <2> QED BY <1>2, <1>3, <2>1, <2>2 DEF Exit
<1> QED BY <1>5, <1>6

LEMMA OutputResults ==
    ASSUME NEW r \in AppRunners, NEW kind
    PROVE  ReadAppOutput(r, kind)[1] \in {"ok", "limit", "fail"}
<1>1. CASE Refused
  BY <1>1 DEF ReadAppOutput
<1>2. CASE ~Refused /\ r = "reeApp"
  BY <1>2 DEF ReadAppOutput, Ok
<1>3. CASE ~Refused /\ r = "taApp"
  BY <1>3 DEF ReadAppOutput, Ok
<1>4. CASE ~Refused /\ r = "spike"
  BY <1>4 DEF ReadAppOutput, Ok
<1> QED BY <1>1, <1>2, <1>3, <1>4 DEF AppRunners

LEMMA ReadReleases ==
    ASSUME ReleaseInv, ReadAgent \/ ReadApp
    PROVE  ReleaseInv'
<1>1. /\ pc = "read" /\ pc' = "release" /\ todo' = Cleanup(runner, "call")
      /\ held' \in {held, held \cup {"output"}}
      /\ UNCHANGED <<app, request, verified, runner, n, lost, kept, pending, wamr, natives, metered,
                     fuel, faulty, answers>>
  BY DEF ReadAgent, ReadApp, Exit
<1>2. result'[1] \in {"resolved", "error", "need", "ok", "app", "limit", "fail"}
  BY OutputResults DEF ReadAgent, ReadApp, Exit
<1>3. /\ todo' \in Seq((Resources \ Caller) \cup {"wamr"}) /\ Ordered(todo') /\ "output" \in Listed(todo')
      /\ held \subseteq Caller \cup {"key"} \cup Listed(todo')
  BY <1>1, CleanupFits DEF Running
<1>4. faulty' \in BOOLEAN
  BY <1>1 DEF ReleaseInv, TypeOK
<1> QED BY <1>1, <1>2, <1>3, <1>4, Leaving DEF Running

LEMMA ReleaseReleases ==
    ASSUME ReleaseInv, Release
    PROVE  ReleaseInv'
<1> DEFINE x == Head(todo)
<1>1. /\ pc = "release" /\ pc' = "release" /\ todo # <<>> /\ held' = held \ {x} /\ todo' = Tail(todo)
      /\ wamr' = (wamr /\ ~(x = "wamr" /\ kept = {})) /\ natives' = (natives /\ ~(x = "wamr" /\ kept = {}))
      /\ UNCHANGED <<app, request, verified, runner, n, lost, kept, pending, metered, fuel, result,
                     faulty, answers>>
  BY DEF Release
<1>2. todo \in Seq((Resources \ Caller) \cup {"wamr"})
  BY DEF ReleaseInv, TypeOK
<1>3. Ordered(todo) /\ held \subseteq Caller \cup {"key"} \cup Listed(todo)
  BY <1>1 DEF ReleaseInv, RunnerInv
<1>4. /\ Tail(todo) \in Seq((Resources \ Caller) \cup {"wamr"}) /\ Ordered(Tail(todo))
      /\ Listed(todo) \subseteq {x} \cup Listed(Tail(todo))
      /\ \A y \in Listed(todo) : x \notin After(y)
  BY <1>1, <1>2, <1>3, HeadLast
<1>5. \A y : Needs(y)' = Needs(y) /\ After(y)' = After(y)
  BY <1>1, NeedsSame
<1>6. TypeOK'
  <2>1. {verified', pending', wamr', natives', metered', faulty'} \subseteq BOOLEAN
    BY <1>1 DEF ReleaseInv, TypeOK
  <2> QED BY <1>1, <1>4, <2>1 DEF ReleaseInv, TypeOK
<1>7. PlaceInv'
  BY <1>1 DEF ReleaseInv, PlaceInv
<1>8. x \notin Caller
  BY <1>4 DEF Caller
<1>9. CallerInv'
  BY <1>1, <1>8 DEF ReleaseInv, CallerInv, Caller
<1>10. Ordered(todo)' /\ Listed(todo)' = Listed(Tail(todo))
  BY <1>1, <1>4, <1>5 DEF Ordered, Listed
<1>11. RunnerInv'
  BY <1>1, <1>3, <1>4, <1>10 DEF RunnerInv, Running
<1>12. Released'
  BY <1>1 DEF ReleaseInv, Released
<1>13. ASSUME NEW y \in held' PROVE x \notin After(y)
  <2>1. CASE y \in Listed(todo)
    BY <1>4, <2>1
  <2>2. CASE y \in Caller \cup {"key"}
    <3>1. After(y) = {}
      BY <2>2 DEF After, Needs, Caller
    <3> QED BY <3>1
  <2> QED BY <1>1, <1>3, <2>1, <2>2
<1>14. \A y \in held' : Needs(y)' \subseteq held' \cup kept'
  BY <1>1, <1>5, <1>13 DEF ReleaseInv, Anchored, After
<1>15. "module" \in held' => x # "wamr"
  BY <1>13 DEF After
<1>16. Anchored'
  BY <1>1, <1>14, <1>15 DEF ReleaseInv, Anchored
<1> QED BY <1>6, <1>7, <1>9, <1>11, <1>12, <1>16 DEF ReleaseInv

LEMMA ReturnReleases ==
    ASSUME ReleaseInv, Return
    PROVE  ReleaseInv'
<1>1. /\ pc = "release" /\ pc' = "returned" /\ todo = <<>>
      /\ lost' = lost \cup (held \ Caller) /\ held' = held \cap Caller
      /\ UNCHANGED <<app, request, verified, runner, n, kept, pending, wamr, natives, metered, fuel,
                     todo, result, faulty, answers>>
  BY DEF Return
<1>2. DOMAIN todo = {}
  BY <1>1
<1>3. held \subseteq Caller \cup {"key"}
  BY <1>1, <1>2 DEF ReleaseInv, RunnerInv, Listed
<1>4. TypeOK'
  BY <1>1 DEF ReleaseInv, TypeOK
<1>5. PlaceInv'
  BY <1>1 DEF ReleaseInv, PlaceInv
<1>6. CallerInv'
  BY <1>1 DEF ReleaseInv, CallerInv, Caller
<1>7. RunnerInv'
  BY <1>1 DEF RunnerInv, Running
<1>8. Released'
  BY <1>1, <1>3 DEF ReleaseInv, Released
<1>9. \A y \in held' : Needs(y)' = {}
  BY <1>1 DEF Needs, Caller
<1>10. Anchored'
  BY <1>1, <1>9 DEF ReleaseInv, Anchored
<1> QED BY <1>4, <1>5, <1>6, <1>7, <1>8, <1>10 DEF ReleaseInv

----------------------------------------------------------------------------
(* The requests.                                                           *)

\* Between two runners only the request holds anything, and nothing of it depends on
\* what the session keeps.
LEMMA Between ==
    ASSUME ReleaseInv, TypeOK', PlaceInv', CallerInv', Released', held' \subseteq Caller,
           Running' => n' = 1, pc' # "release", kept' \in {{}, kept}, wamr' = wamr, natives' = natives
    PROVE  ReleaseInv'
<1>1. Running' => Done' = {}
  BY DEF Done
<1>2. RunnerInv'
  BY <1>1 DEF RunnerInv, Running
<1>3. \A y \in held' : Needs(y)' = {}
  BY DEF Needs, Caller
<1>4. Anchored'
  BY <1>3 DEF ReleaseInv, Anchored, Caller
<1> QED BY <1>2, <1>4 DEF ReleaseInv

LEMMA FirstStep == \A r \in Runners : 1 \in 1..Len(Steps(r))
<1> SUFFICES ASSUME NEW r \in Runners PROVE 1 \in 1..Len(Steps(r))
  OBVIOUS
<1>1. Len(Steps(r)) \in 1..14
  BY Tables DEF StepsEnd
<1>2. \A m \in 1..14 : 1 \in 1..m
  OBVIOUS
<1> QED BY <1>1, <1>2

\* A request, or the application after the Agent, starts a runner.
LEMMA StartReleases ==
    ASSUME ReleaseInv,
           \/ \E kind \in Requests : Start(kind)
           \/ StartResume \/ ExecuteRunsApp \/ ResumeRunsApp
           \/ LinuxAgentReturns /\ result[1] = "resolved"
    PROVE  ReleaseInv'
<1>0. pc' = "step" /\ n' = 1 /\ metered' = FALSE /\ fuel' = 0 /\ UNCHANGED <<app, lost, kept, pending,
         wamr, natives, todo, result, answers>> /\ faulty' \in {faulty, FALSE}
  BY DEF Start, StartResume, ExecuteRunsApp, ResumeRunsApp, LinuxAgentReturns, Run, Local
<1>1. /\ request' \in {"Linux", "Execute", "Resume", "Spike"} /\ runner' \in Runners
      /\ verified' \in BOOLEAN /\ held' \subseteq Caller
      /\ request' = "Linux" => runner' \in {"reeAgent", "reeApp"} /\ ~verified' /\ held' = {}
      /\ request' \in {"Execute", "Resume"} => runner' \in {"taAgent", "taApp"}
      /\ request' = "Spike" => runner' = "spike" /\ held' = {}
      /\ runner' = "taAgent" => held' = {"teep_output"}
      /\ request' = "Execute" /\ runner' = "taApp" => "teep_output" \notin held'
      /\ runner' = "taApp" /\ verified' => "protected_app" \in held'
  <2>1. ASSUME NEW kind \in Requests, Start(kind) PROVE <1>1!:
    <3>1. CASE kind = "Linux"
      BY <2>1, <3>1 DEF Start, Run, Runners, Agents
    <3>2. CASE kind = "Execute"
      BY <2>1, <3>2 DEF Start, Run, Runners, Agents, Caller
    <3>3. CASE kind = "Spike"
      BY <2>1, <3>3 DEF Start, Run, Runners, AppRunners
    <3> QED BY <3>1, <3>2, <3>3, RequestsAssumption
  <2>2. CASE StartResume
    BY <2>2 DEF StartResume, Run, Runners, Agents, Caller, ReleaseInv, TypeOK
  <2>3. CASE ExecuteRunsApp
    BY <2>3 DEF ExecuteRunsApp, Run, Local, Runners, AppRunners, Caller, ReleaseInv, TypeOK
  <2>4. CASE ResumeRunsApp
    BY <2>4 DEF ResumeRunsApp, Run, Local, Runners, AppRunners, Caller, ReleaseInv, TypeOK, CallerInv
  <2>5. CASE LinuxAgentReturns /\ result[1] = "resolved"
    BY <2>5 DEF LinuxAgentReturns, Run, Local, Runners, AppRunners, Caller, ReleaseInv, TypeOK,
                CallerInv, PlaceInv
  <2> QED BY <2>1, <2>2, <2>3, <2>4, <2>5
<1>2. TypeOK'
  <2>1. Caller \subseteq Resources
    BY DEF Caller, Resources
  <2>2. fuel' \in 0..Budget /\ n' \in 1..15
    BY <1>0, SizesAssumption
  <2>3. {verified', pending', wamr', natives', metered', faulty'} \subseteq BOOLEAN
    BY <1>0, <1>1 DEF ReleaseInv, TypeOK
  <2> QED BY <1>0, <1>1, <2>1, <2>2, <2>3 DEF ReleaseInv, TypeOK
<1>3. PlaceInv'
  BY <1>0, <1>1, FirstStep DEF PlaceInv
<1>4. CallerInv'
  BY <1>0, <1>1 DEF CallerInv, Caller
<1>5. Released'
  BY <1>0 DEF ReleaseInv, Released
<1> QED BY <1>0, <1>1, <1>2, <1>3, <1>4, <1>5, Between

\* A request ends, or the session does between two requests.
LEMMA OverReleases ==
    ASSUME ReleaseInv,
           \/ LinuxAgentReturns /\ result[1] # "resolved"
           \/ LinuxAppReturns \/ SpikeReturns \/ ExecuteAgentEnds \/ ExecuteAppReturns
           \/ ResumeAgentEnds \/ ResumeAppReturns \/ CloseSession
    PROVE  ReleaseInv'
<1>1. /\ pc' = "idle" /\ held' = {} /\ kept' \in {{}, kept} /\ pending' \in BOOLEAN
      /\ UNCHANGED <<app, request, verified, runner, n, wamr, natives, metered, fuel, todo, result,
                     faulty>>
  BY DEF LinuxAgentReturns, LinuxAppReturns, SpikeReturns, ExecuteAgentEnds, ExecuteAppReturns,
         ResumeAgentEnds, ResumeAppReturns, CloseSession, EndLive, Over, Local, ReleaseInv, TypeOK, CallerInv
<1>2. lost' = lost
  BY DEF LinuxAgentReturns, LinuxAppReturns, SpikeReturns, ExecuteAgentEnds, ExecuteAppReturns,
         ResumeAgentEnds, ResumeAppReturns, CloseSession, EndLive, Over, ReleaseInv, CallerInv, PlaceInv, Caller
<1>3. DOMAIN answers' = DOMAIN answers
  BY DEF LinuxAgentReturns, LinuxAppReturns, SpikeReturns, ExecuteAgentEnds, ExecuteAppReturns,
         ResumeAgentEnds, ResumeAppReturns, CloseSession, Answered
<1>4. TypeOK'
  <2>1. {verified', pending', wamr', natives', metered', faulty'} \subseteq BOOLEAN
    BY <1>1 DEF ReleaseInv, TypeOK
  <2> QED BY <1>1, <1>2, <1>3, <2>1 DEF ReleaseInv, TypeOK
<1>5. PlaceInv' /\ CallerInv' /\ Released'
  BY <1>1, <1>2 DEF ReleaseInv, PlaceInv, CallerInv, Released
<1> QED BY <1>1, <1>4, <1>5, Between DEF Running

LEMMA LoopReleases ==
    ASSUME ReleaseInv, Loop
    PROVE  ReleaseInv'
<1>1. UNCHANGED <<app, request, verified, runner, pc, n, held, lost, kept, pending, wamr, natives,
                  metered, todo, result, faulty, answers>>
  BY DEF Loop
<1>2. fuel' \in 0..Budget
  BY SizesAssumption DEF Loop, ReleaseInv, TypeOK
<1>3. TypeOK' /\ PlaceInv' /\ CallerInv' /\ Released'
  BY <1>1, <1>2 DEF ReleaseInv, TypeOK, PlaceInv, CallerInv, Released
<1>4. \A y : Needs(y)' = Needs(y) /\ After(y)' = After(y)
  BY <1>1, NeedsSame
<1>5. RunnerInv' /\ Anchored'
  BY <1>1, <1>4 DEF ReleaseInv, RunnerInv, Running, Done, Ordered, Listed, Anchored
<1> QED BY <1>3, <1>5 DEF ReleaseInv

LEMMA StutterReleases ==
    ASSUME ReleaseInv, UNCHANGED vars
    PROVE  ReleaseInv'
<1>1. UNCHANGED <<app, request, verified, runner, pc, n, held, lost, kept, pending, wamr, natives,
                  metered, fuel, todo, result, faulty, answers>>
  BY DEF vars
<1>2. TypeOK' /\ PlaceInv' /\ CallerInv' /\ Released'
  BY <1>1 DEF ReleaseInv, TypeOK, PlaceInv, CallerInv, Released
<1>3. \A y : Needs(y)' = Needs(y) /\ After(y)' = After(y)
  BY <1>1, NeedsSame
<1>4. RunnerInv' /\ Anchored'
  BY <1>1, <1>3 DEF ReleaseInv, RunnerInv, Running, Done, Ordered, Listed, Anchored
<1> QED BY <1>2, <1>4 DEF ReleaseInv

LEMMA InitReleases == Init => ReleaseInv
<1> SUFFICES ASSUME Init PROVE ReleaseInv
  OBVIOUS
<1>1. TypeOK
  <2>1. todo \in Seq((Resources \ Caller) \cup {"wamr"}) /\ result[1] = "fail"
    BY DEF Init
  <2>2. fuel \in 0..Budget /\ n \in 1..15
    BY SizesAssumption DEF Init
  <2> QED BY <2>1, <2>2 DEF Init, TypeOK, Runners, Agents, AppRunners
<1>2. PlaceInv /\ CallerInv /\ RunnerInv /\ Released /\ Anchored
  BY DEF Init, PlaceInv, CallerInv, RunnerInv, Running, Released, Anchored
<1> QED BY <1>1, <1>2 DEF ReleaseInv

LEMMA NextReleases == ReleaseInv /\ [Next]_vars => ReleaseInv'
<1> SUFFICES ASSUME ReleaseInv, [Next]_vars PROVE ReleaseInv'
  OBVIOUS
<1>1. CASE UNCHANGED vars
  BY <1>1, StutterReleases
<1>2. CASE Next
  BY <1>2, AcquireReleases, RefuseReleases, CallReleases, ReadReleases, ReleaseReleases,
     ReturnReleases, StartReleases, OverReleases, LoopReleases DEF Next
<1> QED BY <1>1, <1>2

\* The inductive invariant of the runners: what a runner holds, it has acquired by its
\* steps, and every exit lists all of it, users before what they use.
THEOREM ReleaseCorrect == Spec => []ReleaseInv
<1>1. Init => ReleaseInv
  BY InitReleases
<1>2. ReleaseInv /\ [Next]_vars => ReleaseInv'
  BY NextReleases
<1> QED BY <1>1, <1>2, PTL DEF Spec

\* No exit of the five functions, and no end of a request, loses a resource, but for the
\* copy of the dev Agent key.
THEOREM ReleasedCorrect == Spec => []Released
<1>1. ReleaseInv => Released
  BY DEF ReleaseInv
<1> QED BY <1>1, ReleaseCorrect, PTL

\* Nothing is released, or given to the session and back, before what depends on it; WAMR
\* and the natives of the Agent outlive every module that is linked to them.
THEOREM AnchoredCorrect == Spec => []Anchored
<1>1. ReleaseInv => Anchored
  BY DEF ReleaseInv
<1> QED BY <1>1, ReleaseCorrect, PTL

----------------------------------------------------------------------------
(* The answers.                                                            *)

LEMMA OutcomeSame ==
    ASSUME app' = app
    PROVE  \A r, kind : Outcome(r, kind)' = Outcome(r, kind)
BY DEF Outcome, Runs, ReadAppOutput, StdoutRefused, Refused, MaxOutput, ResponseLen, Ok, StdoutLen

LEMMA OutcomeFails ==
    ASSUME NEW r, NEW kind, ~Runs(r) \/ (app.main # "zero" /\ ~(app.main = "code" /\ r = "reeApp"))
    PROVE  Outcome(r, kind) = <<"fail">>
BY DEF Outcome

\* While no request ends, the answers are those of before.
LEMMA AnswersSame ==
    ASSUME AnswerInv, app' = app, answers' = answers
    PROVE  /\ answers'["Linux"] \in {<<>>, Outcome("reeApp", "Linux")'}
           /\ answers'["Execute"] \in {<<>>, Outcome("taApp", "Execute")'}
           /\ answers'["Resume"] \in {<<>>, Outcome("taApp", "Resume")'}
BY OutcomeSame DEF AnswerInv

LEMMA AcquireAnswers ==
    ASSUME ReleaseInv, AnswerInv, Acquire
    PROVE  AnswerInv'
<1>1. /\ pc = "step" /\ n' = n + 1 /\ pc' \in {"step", "call"}
      /\ runner \in AppRunners => Passes
      /\ UNCHANGED <<app, request, verified, runner, result, faulty, answers>>
  BY DEF Acquire
<1>2. n \in 1..15
  BY DEF ReleaseInv, TypeOK
<1>3. Done' = Done \cup {Step}
  BY <1>1, <1>2 DEF Done, Step
<1>4. runner \in {"reeApp", "taApp"} =>
        /\ Step = "digest" => app.digest
        /\ Step = "signature" => app.signed
        /\ Step = "imports" => ~app.imports
        /\ Step = "module" => app.wasm
        /\ Step = "abi" => app.abi = "one"
        /\ Step = "main" => app.main # "missing"
  BY <1>1 DEF Passes, AppRunners
<1>5. Running' /\ runner' \in {"reeApp", "taApp"} =>
          /\ "digest" \in Done' => app'.digest
          /\ "signature" \in Done' => app'.signed
          /\ "imports" \in Done' => ~app'.imports
          /\ "module" \in Done' => app'.wasm
          /\ "abi" \in Done' => app'.abi = "one"
          /\ "main" \in Done' => app'.main # "missing"
  BY <1>1, <1>3, <1>4 DEF AnswerInv, Running
<1> QED BY <1>1, <1>5, AnswersSame DEF AnswerInv

LEMMA RefuseAnswers ==
    ASSUME ReleaseInv, AnswerInv, Refuse
    PROVE  AnswerInv'
<1>1. /\ pc = "step" /\ pc' = "release" /\ result' = <<"fail">>
      /\ runner \in AppRunners => ~Passes
      /\ UNCHANGED <<app, request, runner, n, faulty, answers>>
  BY DEF Refuse, Exit
<1>2. runner \in {"reeApp", "taApp"} => ~Runs(runner)
  <2> SUFFICES ASSUME runner \in {"reeApp", "taApp"} PROVE ~Runs(runner)
    OBVIOUS
  <2>1. ~Passes
    BY <1>1 DEF AppRunners
  <2>2. /\ Step = "imports" => runner = "taApp"
        /\ Step \in {"digest", "signature"} => runner = "reeApp"
    <3>1. n \in 1..Len(Steps(runner))
      BY <1>1 DEF ReleaseInv, PlaceInv
    <3>2. CASE runner = "reeApp"
      <4>1. /\ Len(Steps(runner)) = 11
            /\ \A i \in 1..11 : Steps(runner)[i] # "imports"
        BY <3>2 DEF Steps
      <4> QED BY <3>1, <3>2, <4>1 DEF Step
    <3>3. CASE runner = "taApp"
      <4>1. /\ Len(Steps(runner)) = 10
            /\ \A i \in 1..10 : Steps(runner)[i] \notin {"digest", "signature"}
        BY <3>3 DEF Steps
      <4> QED BY <3>1, <3>3, <4>1 DEF Step
    <3> QED BY <3>2, <3>3
  <2> QED BY <2>1, <2>2 DEF Passes, Runs
<1>3. runner \in {"reeApp", "taApp"} => result' = Outcome(runner, request)
  BY <1>1, <1>2, OutcomeFails
<1> QED BY <1>1, <1>3, AnswersSame, OutcomeSame DEF AnswerInv, Running

LEMMA NoMemoryAnswers ==
    ASSUME AnswerInv, NoMemory
    PROVE  AnswerInv'
<1>1. pc' = "release" /\ faulty' = TRUE /\ app' = app /\ answers' = answers
  BY DEF NoMemory, Exit
<1> QED BY <1>1, AnswersSame DEF AnswerInv, Running

LEMMA AllPassed ==
    ASSUME ReleaseInv, AnswerInv, pc \in {"call", "read"}, runner \in {"reeApp", "taApp"}
    PROVE  Runs(runner)
<1>1. /\ {"module", "abi", "main"} \subseteq Done
      /\ runner = "reeApp" => {"digest", "signature"} \subseteq Done
      /\ runner = "taApp" => "imports" \in Done
  BY AtStep DEF Running, StepsEnd
<1> QED BY <1>1 DEF AnswerInv, Running, Runs

LEMMA CallAppAnswers ==
    ASSUME ReleaseInv, AnswerInv, CallApp
    PROVE  AnswerInv'
<1>1. /\ pc = "call" /\ runner \in AppRunners
      /\ UNCHANGED <<app, request, runner, n, faulty, answers>>
  BY DEF CallApp
<1>2. CASE app.main = "zero"
  <2>1. pc' = "read" /\ result' = result
    BY <1>2 DEF CallApp
  <2>2. Done' = Done
    BY <1>1 DEF Done
  <2> QED BY <1>1, <1>2, <2>1, <2>2, AnswersSame DEF AnswerInv, Running
<1>3. CASE app.main = "code" /\ runner = "reeApp"
  <2>1. pc' = "release" /\ result' = <<"app", app.code>>
    BY <1>3 DEF CallApp, Exit
  <2>2. Runs(runner)
    BY <1>1, <1>3, AllPassed
  <2>3. result' = Outcome(runner, request)
    BY <1>3, <2>1, <2>2 DEF Outcome
  <2> QED BY <1>1, <2>1, <2>3, AnswersSame, OutcomeSame DEF AnswerInv, Running
<1>4. CASE app.main # "zero" /\ ~(app.main = "code" /\ runner = "reeApp")
  <2>1. pc' = "release" /\ result' = <<"fail">>
    BY <1>4 DEF CallApp, Exit
  <2>2. result' = Outcome(runner, request)
    BY <1>4, <2>1, OutcomeFails
  <2> QED BY <1>1, <2>1, <2>2, AnswersSame, OutcomeSame DEF AnswerInv, Running
<1> QED BY <1>2, <1>3, <1>4

LEMMA ReadAppAnswers ==
    ASSUME ReleaseInv, AnswerInv, ReadApp
    PROVE  AnswerInv'
<1>1. /\ pc = "read" /\ pc' = "release" /\ result' = ReadAppOutput(runner, request)
      /\ UNCHANGED <<app, request, runner, faulty, answers>>
  BY DEF ReadApp, Exit
<1>2. runner \in {"reeApp", "taApp"} => result' = Outcome(runner, request)
  BY <1>1, AllPassed DEF AnswerInv, Outcome
<1> QED BY <1>1, <1>2, AnswersSame, OutcomeSame DEF AnswerInv, Running

\* A step of the Agent, the rest of an exit, a round of a loop, a runner that starts.
LEMMA OtherAnswers ==
    ASSUME AnswerInv,
           \/ CallAgent \/ ReadAgent \/ Release \/ Return \/ Loop
           \/ \E kind \in Requests : Start(kind)
           \/ StartResume \/ ExecuteRunsApp \/ ResumeRunsApp \/ LinuxAgentReturns
           \/ SpikeReturns \/ ExecuteAgentEnds \/ ResumeAgentEnds \/ CloseSession
    PROVE  AnswerInv'
<1>1. app' = app /\ answers' = answers
  BY DEF CallAgent, ReadAgent, Release, Return, Loop, Start, StartResume, ExecuteRunsApp,
         ResumeRunsApp, LinuxAgentReturns, SpikeReturns, ExecuteAgentEnds, ResumeAgentEnds,
         CloseSession, Local
<1>2. CASE CallAgent \/ ReadAgent
  <2>1. runner' = runner /\ runner \in Agents
    BY <1>2 DEF CallAgent, ReadAgent
  <2> QED BY <1>1, <2>1, AnswersSame DEF AnswerInv, Agents
<1>3. CASE Release \/ Return
  <2>1. /\ pc = "release" /\ pc' \in {"release", "returned"}
        /\ UNCHANGED <<runner, request, result, faulty>>
    BY <1>3 DEF Release, Return
  <2> QED BY <1>1, <2>1, AnswersSame, OutcomeSame DEF AnswerInv, Running
<1>4. CASE Loop
  <2>1. UNCHANGED <<pc, n, runner, request, result, faulty>>
    BY <1>4 DEF Loop
  <2>2. Done' = Done
    BY <2>1 DEF Done
  <2> QED BY <1>1, <2>1, <2>2, AnswersSame, OutcomeSame DEF AnswerInv, Running
<1>5. CASE \/ \E kind \in Requests : Start(kind)
           \/ StartResume \/ ExecuteRunsApp \/ ResumeRunsApp
           \/ LinuxAgentReturns /\ result[1] = "resolved"
  <2>1. pc' = "step" /\ n' = 1
    BY <1>5 DEF Start, StartResume, ExecuteRunsApp, ResumeRunsApp, LinuxAgentReturns, Run
  <2>2. Done' = {}
    BY <2>1 DEF Done
  <2> QED BY <1>1, <2>1, <2>2, AnswersSame DEF AnswerInv
<1>6. CASE \/ LinuxAgentReturns /\ result[1] # "resolved"
           \/ SpikeReturns \/ ExecuteAgentEnds \/ ResumeAgentEnds
  <2>1. pc' = "idle"
    BY <1>6 DEF LinuxAgentReturns, SpikeReturns, ExecuteAgentEnds, ResumeAgentEnds, Over
  <2> QED BY <1>1, <2>1, AnswersSame DEF AnswerInv, Running
<1>7. CASE CloseSession
  <2>1. pc' = "idle"
    BY <1>7 DEF CloseSession
  <2> QED BY <1>1, <2>1, AnswersSame DEF AnswerInv, Running
<1> QED BY <1>2, <1>3, <1>4, <1>5, <1>6, <1>7

\* The three ends of a request that ran the application.
LEMMA AppReturnsAnswers ==
    ASSUME ReleaseInv, AnswerInv, LinuxAppReturns \/ ExecuteAppReturns \/ ResumeAppReturns
    PROVE  AnswerInv'
<1>1. /\ pc = "returned" /\ pc' = "idle" /\ app' = app
      /\ runner = (IF request = "Linux" THEN "reeApp" ELSE "taApp")
      /\ request \in {"Linux", "Execute", "Resume"}
      /\ answers' = IF faulty THEN answers ELSE [answers EXCEPT ![request] = result]
  BY DEF LinuxAppReturns, ExecuteAppReturns, ResumeAppReturns, Over, Local, Answered
<1>2. ~faulty => result = Outcome(runner, request)
  BY <1>1 DEF AnswerInv
<1>3. DOMAIN answers = {"Linux", "Execute", "Resume"}
  BY DEF ReleaseInv, TypeOK
<1>4. CASE faulty
  BY <1>1, <1>4, AnswersSame DEF AnswerInv, Running
<1>5. CASE ~faulty
  <2>1. /\ answers'[request] = Outcome(runner, request)
        /\ \A f \in {"Linux", "Execute", "Resume"} \ {request} : answers'[f] = answers[f]
    BY <1>1, <1>2, <1>3, <1>5
  <2> QED BY <1>1, <2>1, OutcomeSame DEF AnswerInv, Running
<1> QED BY <1>4, <1>5

LEMMA NextAnswers == ReleaseInv /\ AnswerInv /\ [Next]_vars => AnswerInv'
<1> SUFFICES ASSUME ReleaseInv, AnswerInv, [Next]_vars PROVE AnswerInv'
  OBVIOUS
<1>1. CASE UNCHANGED vars
  <2>1. app' = app /\ answers' = answers /\ UNCHANGED <<pc, n, runner, request, result, faulty>>
    BY <1>1 DEF vars
  <2>2. Done' = Done
    BY <2>1 DEF Done
  <2> QED BY <2>1, <2>2, AnswersSame, OutcomeSame DEF AnswerInv, Running
<1>2. CASE Next
  BY <1>2, AcquireAnswers, RefuseAnswers, NoMemoryAnswers, CallAppAnswers, ReadAppAnswers,
     OtherAnswers, AppReturnsAnswers DEF Next
<1> QED BY <1>1, <1>2

\* The application alone decides what a request answers in which memory was not short.
THEOREM AnswersCorrect == Spec => []AnswerInv
<1>1. Init => AnswerInv
  BY DEF Init, AnswerInv, Running
<1>2. ReleaseInv /\ AnswerInv /\ [Next]_vars => AnswerInv'
  BY NextAnswers
<1> QED BY <1>1, <1>2, ReleaseCorrect, PTL DEF Spec

LEMMA Lengths ==
    ASSUME app \in Apps
    PROVE  /\ app.len \in Nat /\ app.limit \in Nat /\ StdoutLen \in Nat /\ ResponseLen \in Nat
           /\ app.len <= TaOutputMax => ResponseLen <= ResponseCap /\ ResponseLen <= ReeResponseMax
<1>1. app.len \in Nat /\ app.limit \in Nat
  BY AppsAssumption
<1>2. IdLen \in Nat /\ TaOutputMax \in Nat /\ ResponseCap \in Nat /\ ReeResponseMax \in Nat
  BY SizesAssumption
<1>3. StdoutLen \in Nat /\ (app.len <= TaOutputMax => StdoutLen <= TaOutputMax \div 2)
  BY <1>1, <1>2 DEF StdoutLen
<1>4. \A k \in Nat : HeadLen(k) \in 1..5
  BY DEF HeadLen
<1>5. HeadLen(IdLen) \in 1..5 /\ HeadLen(StdoutLen) \in 1..5 /\ HeadLen(app.len) \in 1..5
  BY <1>1, <1>2, <1>3, <1>4
<1>6. TaOutputMax \div 2 \in Nat
  BY <1>2
<1>7. ResponseLen \in Nat
  BY <1>1, <1>2, <1>3, <1>5 DEF ResponseLen
<1>8. app.len <= TaOutputMax =>
        ResponseLen <= 82 + IdLen + TaOutputMax + (TaOutputMax \div 2)
  BY <1>1, <1>2, <1>3, <1>5, <1>6 DEF ResponseLen
<1> QED BY <1>1, <1>2, <1>3, <1>6, <1>7, <1>8, CapsAssumption

\* An output that the TA can take is within the limit of both runtimes or of neither.
LEMMA LimitsAlike ==
    ASSUME app \in Apps, app.len <= TaOutputMax
    PROVE  app.len > MaxOutput("reeApp") <=> app.len > MaxOutput("taApp")
<1>1. app.len \in Nat /\ app.limit \in Nat /\ TaOutputMax \in Nat /\ ReeOutputMax \in Nat
      /\ TaOutputMax <= ReeOutputMax
  BY Lengths, SizesAssumption, CapsAssumption
<1> QED BY <1>1 DEF MaxOutput

LEMMA OutputsAlike ==
    ASSUME app \in Apps, app.len <= TaOutputMax, app.stdout \notin {"float", "long"}
    PROVE  LET ree == ReadAppOutput("reeApp", "Linux")
               ta == ReadAppOutput("taApp", "Execute")
           IN  \/ ree = Ok /\ ta = Ok
               \/ ree = <<"fail">> /\ ta \in {<<"fail">>, <<"limit">>}
<1>1. ResponseLen \in Nat /\ ResponseLen <= ResponseCap /\ ResponseLen <= ReeResponseMax
  BY Lengths
<1>2. ~(ResponseLen > ResponseCap) /\ ~(ResponseLen > ReeResponseMax)
  BY <1>1, SizesAssumption
<1>3. app.len > MaxOutput("reeApp") <=> app.len > MaxOutput("taApp")
  BY LimitsAlike
<1> QED BY <1>2, <1>3 DEF ReadAppOutput, StdoutRefused

\* What the REE runs with success EXECUTE does too, and the other way round for an application
\* with the right digest and signature, as far as the TA takes imports, output and stdout; a
\* suspended request ends like one that was not, if its response fits RESUME's buffer.
THEOREM SucceedsAlikeCorrect == Spec => []SucceedsAlike
<1>1. ASSUME ReleaseInv, AnswerInv PROVE SucceedsAlike
  <2>1. app \in Apps
    BY <1>1 DEF ReleaseInv, TypeOK
  <2>2. ASSUME ~app.imports, app.len <= TaOutputMax, app.stdout \notin {"float", "long"}
        PROVE  LET ree == Outcome("reeApp", "Linux")
                   ta == Outcome("taApp", "Execute")
               IN  /\ ree[1] = "ok" => ree = ta
                   /\ ta[1] = "ok" /\ app.digest /\ app.signed => ree[1] = "ok"
    <3>1. /\ Runs("reeApp") => Runs("taApp")
          /\ Runs("taApp") /\ app.digest /\ app.signed => Runs("reeApp")
      BY <2>2 DEF Runs
    <3>0. Ok[1] = "ok" /\ <<"fail">>[1] = "fail" /\ <<"limit">>[1] = "limit" /\ <<"app", app.code>>[1] = "app"
      BY DEF Ok
    <3>2. CASE Runs("reeApp") /\ app.main = "zero"
      <4>1. /\ Outcome("reeApp", "Linux") = ReadAppOutput("reeApp", "Linux")
            /\ Outcome("taApp", "Execute") = ReadAppOutput("taApp", "Execute")
        BY <3>1, <3>2 DEF Outcome
      <4> QED BY <2>1, <2>2, <3>0, <4>1, OutputsAlike
    <3>3. CASE ~(Runs("reeApp") /\ app.main = "zero")
      <4>1. Outcome("reeApp", "Linux") \in {<<"fail">>, <<"app", app.code>>}
        BY <3>3 DEF Outcome
      <4>2. app.digest /\ app.signed => Outcome("taApp", "Execute") = <<"fail">>
        BY <3>1, <3>3 DEF Outcome
      <4> QED BY <3>0, <4>1, <4>2
    <3> QED BY <3>2, <3>3
  <2>3. ASSUME ResponseLen <= ResumeCap
        PROVE  Outcome("taApp", "Execute") = Outcome("taApp", "Resume")
    <3>1. ~(ResponseLen > ResumeCap) /\ ~(ResponseLen > ResponseCap)
      BY <2>1, <2>3, Lengths, SizesAssumption, CapsAssumption
    <3>2. ReadAppOutput("taApp", "Execute") = ReadAppOutput("taApp", "Resume")
      BY <3>1 DEF ReadAppOutput, StdoutRefused
    <3> QED BY <3>2 DEF Outcome
  <2>4. ResponseLen <= ResumeCap => ResumedAlike
    BY <1>1, <2>3 DEF AnswerInv, ResumedAlike
  <2> QED BY <1>1, <2>2, <2>4 DEF AnswerInv, SucceedsAlike
<1> QED BY <1>1, ReleaseCorrect, AnswersCorrect, PTL

================================================================================
