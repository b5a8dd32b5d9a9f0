---------------------------- MODULE MessagesProofs ----------------------------
(***************************************************************************)
(* Every message fits its buffer, carries the length that was written, and *)
(* is understood by its receiver: for texts and byte strings of every      *)
(* length below 2^32.  The proof has two halves.  The first looks at one   *)
(* table of items after the other: what its items take up, against the     *)
(* length that its builder computes, and where its maps, keys and values   *)
(* are.  The second follows the steps and uses of a table only what the    *)
(* first says.                                                             *)
(***************************************************************************)
EXTENDS Messages, WellFoundedInduction, TLAPS

----------------------------------------------------------------------------
(* What the steps need to know of a table.                                 *)

\* The fields of a builder are lengths; a return code may be negative.
Typed(bld, ll) == \A f \in Fields(bld) : ll[f] \in IF f = "return_code" THEN Int ELSE Nat

\* The items of a message.
Count(bld, ll) == Len(Items(bld, ll))

\* The bytes that the first items of a message take up.
IsOffsets(g, bld, ll) ==
    /\ g \in [0..Count(bld, ll) -> Nat]
    /\ g[0] = 0
    /\ \A k \in 1..Count(bld, ll) : g[k] = g[k - 1] + Written(Items(bld, ll)[k], ll)

\* The byte at which each item of a message ends.
Offsets(bld, ll) == CHOOSE g : IsOffsets(g, bld, ll)

\* The responses with an error, whose details the receiver skips, and those that ask
\* the host for something: their items are not all on one level.
Errors == {"make_app_error_response", "build_teep_error_execute_response",
           "build_app_runtime_error_execute_response"}
Needs == {"build_need_host_io_response", "build_need_evidence_response_with_payload"}

\* The items that the k-th one announces, k > 1.
Nested(bld, k) ==
    IF bld \in Needs /\ k = 7 THEN 14 ELSE IF bld \in Errors /\ k \in {11, 17} THEN 6 ELSE 0

\* What is due before the k-th of n items is read, k > 1.
Due(bld, n, k) ==
    IF bld \in Needs /\ k <= 7 THEN 8 - k
    ELSE IF bld \in Errors /\ k <= 11 THEN 12 - k
    ELSE IF bld \in Errors /\ k <= 17 THEN 18 - k
    ELSE n + 1 - k

\* The readers that refuse an empty text, and the fields it may stand in.
Strict(bld) == Reader(bld) \in {"parse_production_envelope", "host_io_result_ok",
                                "parse_teep_resolve_input"}
Insisted == {"request_id", "command", "resolver_mode", "target_command", "io_id"}

\* The reader of a message takes the value at k, or takes no value for its key.
WantsAt(bld, ll, k) == Wants(Reader(bld), Items(bld, ll)[k].s)
Fits(bld, ll, k) ==
    WantsAt(bld, ll, k - 1) = {} \/ Wire(Items(bld, ll)[k], ll) \in WantsAt(bld, ll, k - 1)

\* The keys of the values that are taken from the items before the n-th.
TakenAt(bld, ll, n) ==
    {k \in 2..Count(bld, ll) : k % 2 = 0 /\ k + 1 < n /\ WantsAt(bld, ll, k) # {}}
Taken(bld, ll, n) == {Items(bld, ll)[k].s : k \in TakenAt(bld, ll, n)}

\* make_app_error_response writes one byte more than it has allocated.
Excess(bld) == IF bld = "make_app_error_response" THEN 1 ELSE 0

\* A table whose items take up what its builder has computed.
Fitting(bld, ll) ==
    /\ Count(bld, ll) \in Nat
    /\ Reserved(bld, ll) \in Nat \ {0}
    /\ \A k \in 1..Count(bld, ll) : Written(Items(bld, ll)[k], ll) \in Nat \ {0}
    /\ \A g : IsOffsets(g, bld, ll) =>
          /\ g[Count(bld, ll)] <= Reserved(bld, ll) + Excess(bld)
          /\ bld \in ReportsReserved => g[Count(bld, ll)] = Reserved(bld, ll)

\* A table that its receiver reads to its end, each key as a key and each value as the
\* value of its key.
Legible(bld, ll) ==
    /\ Count(bld, ll) \in Nat /\ Count(bld, ll) % 2 = 1
    /\ bld \in Needs => Count(bld, ll) = 21
    /\ bld \in Errors => Count(bld, ll) = 23
    /\ Items(bld, ll)[1].kind = "map"
    /\ Children(Items(bld, ll)[1]) = Due(bld, Count(bld, ll), 2)
    /\ \A k \in 2..Count(bld, ll) : Children(Items(bld, ll)[k]) = Nested(bld, k)
    /\ \A k \in 2..Count(bld, ll) : k % 2 = 0 =>
          /\ Items(bld, ll)[k].kind \in {"key", "short"}
          /\ Items(bld, ll)[k].s # NoKey
          /\ bld \in Errors /\ k >= 10 => WantsAt(bld, ll, k) = {}
          /\ bld \in Needs /\ k = 6 => WantsAt(bld, ll, k) # {}
    /\ \A k \in 3..Count(bld, ll) : k % 2 = 1 =>
          \/ Fits(bld, ll, k)
          \/ Strict(bld) /\ \E f \in Fields(bld) \cap Insisted : ll[f] = 0
    /\ Strict(bld) => \A f \in Fields(bld) \cap Insisted : ll[f] = 0 =>
          \E k \in 3..Count(bld, ll) : k % 2 = 1 /\ ~Fits(bld, ll, k)
    /\ Outcome(bld, Taken(bld, ll, Count(bld, ll) + 1)) = Expected(bld)

----------------------------------------------------------------------------
(* The inductive invariant.                                                *)

\* Nothing of the message has been read.
Unread == key = NoKey /\ skip = 0 /\ seen = {}

\* The buffer holds the first n items of the table, and is as long as was computed.
Holding(n) ==
    /\ buffer \in Seq({Items(b, l)[k] : k \in 1..Count(b, l)})
    /\ Len(buffer) = n
    /\ \A k \in 1..n : buffer[k] = Items(b, l)[k]
    /\ p = Offsets(b, l)[n]
    /\ capacity \in Nat /\ capacity >= Reserved(b, l)

\* Before the i-th item is read: what is due, skipped, held as a key and taken is what the
\* table says of its first i - 1 items.
ReadInv ==
    /\ i \in 1..(Count(b, l) + 1)
    /\ i = 1 => due = 1 /\ Unread
    /\ i > 1 =>
          /\ due = Due(b, Count(b, l), i)
          /\ skip = IF b \in Errors /\ i > 11 THEN due ELSE 0
          /\ key = IF i % 2 = 1 /\ ~(b \in Errors /\ i > 11) THEN Items(b, l)[i - 1].s ELSE NoKey
          /\ seen = Taken(b, l, i)
          /\ Strict(b) => \A k \in 3..(i - 1) : k % 2 = 1 => Fits(b, l, k)

\* What is written is a prefix of the table, what is read is all of it, and it is read in
\* step with the table.
MessageInv ==
    /\ b \in Builders /\ Typed(b, l)
    /\ phase \in {"idle", "writing", "reading", "done", "SHORT_BUFFER", "dropped"}
    /\ phase \in {"idle", "SHORT_BUFFER"} => p = 0 /\ capacity \in Nat
    /\ phase = "idle" => buffer = << >> /\ i = 1
    /\ phase \in {"idle", "writing"} => Unread
    /\ phase = "writing" => i \in 1..(Count(b, l) + 1) /\ Holding(i - 1)
    /\ phase \in {"reading", "done", "dropped"} => Holding(Count(b, l)) /\ reported = p
    /\ phase = "reading" => ReadInv
    /\ phase \in {"writing", "reading"} => Writable
    /\ Delivered

----------------------------------------------------------------------------
(* The offsets of the items exist, and do not go down.                     *)

\* A set of numbers has a least one.
LEMMA LeastNumber ==
    ASSUME NEW T \in SUBSET Nat, T # {}
    PROVE  \E n \in T : \A m \in T : n <= m
<1> DEFINE R == {ss \in Nat \X Nat : ss[1] < ss[2]}
<1>1. IsWellFoundedOn(R, Nat)
  BY NatLessThanWellFounded DEF OpToRel
<1> HIDE DEF R
<1>2. PICK n \in T : \A m \in T : ~ (<<m, n>> \in R)
  BY <1>1, WFMin
<1>3. \A m \in T : ~ (m < n)
  BY <1>2 DEF R
<1> QED BY <1>3

\* Numbers can be summed up from the first: by the least number of them for which
\* that fails.
LEMMA SumsExist ==
    ASSUME NEW n \in Nat, NEW w \in [1..n -> Nat]
    PROVE  \E g \in [0..n -> Nat] : g[0] = 0 /\ \A k \in 1..n : g[k] = g[k - 1] + w[k]
<1> DEFINE Good(m) == \E g \in [0..m -> Nat] : g[0] = 0 /\ \A k \in 1..m : g[k] = g[k - 1] + w[k]
<1> DEFINE Bad == {m \in 0..n : ~Good(m)}
<1>1. SUFFICES ASSUME ~Good(n) PROVE FALSE
  OBVIOUS
<1> HIDE DEF Good
<1>2. Bad \in SUBSET Nat /\ n \in Bad
  BY <1>1
<1>3. PICK m \in Bad : \A j \in Bad : m <= j
  BY <1>2, LeastNumber
<1>4. m \in 0..n /\ ~Good(m)
  BY <1>3
<1>5. m # 0
  <2> DEFINE z == [x \in 0..0 |-> 0]
  <2>1. z \in [0..0 -> Nat] /\ z[0] = 0 /\ \A k \in 1..0 : z[k] = z[k - 1] + w[k]
    OBVIOUS
  <2> HIDE DEF z
  <2>2. Good(0)
    BY <2>1 DEF Good
  <2> QED BY <1>4, <2>2
<1>6. m - 1 \in 0..n /\ m - 1 \notin Bad
  <2>1. m - 1 \in 0..n /\ ~(m <= m - 1)
    BY <1>4, <1>5
  <2> QED BY <1>3, <2>1
<1>7. Good(m - 1)
  BY <1>6
<1>8. PICK g \in [0..(m - 1) -> Nat] : g[0] = 0 /\ \A k \in 1..(m - 1) : g[k] = g[k - 1] + w[k]
  BY <1>7 DEF Good
<1> DEFINE h == [k \in 0..m |-> IF k = m THEN g[m - 1] + w[m] ELSE g[k]]
<1>9. h \in [0..m -> Nat]
  BY <1>4, <1>5, <1>8
<1>10. h[0] = 0
  BY <1>4, <1>5, <1>8
<1>11. ASSUME NEW k \in 1..m PROVE h[k] = h[k - 1] + w[k]
  <2>1. h[k - 1] = g[k - 1]
    BY <1>4, <1>5
  <2>2. CASE k = m
    BY <1>4, <2>1, <2>2
  <2>3. CASE k # m
    BY <1>4, <1>8, <2>1, <2>3
  <2> QED BY <2>2, <2>3
<1>12. Good(m)
  <2> HIDE DEF h
  <2> QED BY <1>9, <1>10, <1>11 DEF Good
<1> QED BY <1>4, <1>12

\* The offsets of a table whose items all take up some bytes.
LEMMA OffsetsExist ==
    ASSUME NEW bld, NEW ll, Fitting(bld, ll)
    PROVE  IsOffsets(Offsets(bld, ll), bld, ll)
<1> DEFINE n == Count(bld, ll)
<1> DEFINE w == [k \in 1..n |-> Written(Items(bld, ll)[k], ll)]
<1>1. n \in Nat /\ w \in [1..n -> Nat]
  BY DEF Fitting
<1>2. PICK g \in [0..n -> Nat] : g[0] = 0 /\ \A k \in 1..n : g[k] = g[k - 1] + w[k]
  <2> HIDE DEF n, w
  <2> QED BY <1>1, SumsExist
<1>3. IsOffsets(g, bld, ll)
  BY <1>1, <1>2 DEF IsOffsets
<1> QED BY <1>3 DEF Offsets

\* No offset lies beyond the last one.
LEMMA OffsetsGrow ==
    ASSUME NEW bld, NEW ll, Fitting(bld, ll), NEW g, IsOffsets(g, bld, ll),
           NEW k \in 0..Count(bld, ll)
    PROVE  g[k] <= g[Count(bld, ll)]
<1> DEFINE n == Count(bld, ll)
<1> DEFINE Bad == {d \in 0..n : ~(g[n - d] <= g[n])}
<1>0. n \in Nat /\ g \in [0..n -> Nat]
  BY DEF Fitting, IsOffsets
<1>1. SUFFICES ASSUME n - k \in Bad PROVE FALSE
  <2>1. n - k \in 0..n /\ n - (n - k) = k
    BY <1>0
  <2> QED BY <2>1, <1>0
<1>2. Bad \in SUBSET Nat /\ Bad # {}
  BY <1>0, <1>1
<1>3. PICK d \in Bad : \A j \in Bad : d <= j
  BY <1>2, LeastNumber
<1>4. d \in 0..n /\ ~(g[n - d] <= g[n])
  BY <1>3
<1>5. d # 0
  BY <1>0, <1>4
<1>6. d - 1 \in 0..n /\ d - 1 \notin Bad
  BY <1>0, <1>3, <1>4, <1>5
<1>7. g[n - (d - 1)] <= g[n]
  BY <1>6
<1> DEFINE j == n - d + 1
<1>8. j \in 1..n /\ j - 1 = n - d /\ j = n - (d - 1)
  BY <1>0, <1>4, <1>5
<1>9. g[j] = g[j - 1] + Written(Items(bld, ll)[j], ll) /\ Written(Items(bld, ll)[j], ll) \in Nat
  BY <1>8 DEF IsOffsets, Fitting
<1>10. g[j - 1] \in Nat /\ g[j] \in Nat /\ g[n] \in Nat
  BY <1>0, <1>8
<1> HIDE DEF j
<1>11. g[j - 1] <= g[j]
  BY <1>9, <1>10
<1>12. g[j] <= g[n] /\ ~(g[j - 1] <= g[n])
  BY <1>4, <1>7, <1>8
<1> QED BY <1>10, <1>11, <1>12

----------------------------------------------------------------------------
(* What an item takes up, and what its receiver sees of it.                *)

\* The function that computes a length and the one that writes it agree.
LEMMA HeadsAgree == ASSUME NEW n PROVE HeadWritten(n) = TypeLenSize(n)
BY DEF HeadWritten, TypeLenSize

\* An item of length n with its head.
LEMMA Len1Size ==
    ASSUME NEW n \in Nat
    PROVE  /\ TypeLenSize(n) \in Nat \ {0} /\ Len1(n) \in Nat \ {0}
           /\ n < 24 => TypeLenSize(n) = 1 /\ Len1(n) = n + 1
           /\ n = 25 => Len1(n) = 27
           /\ n = 32 => Len1(n) = 34
<1>1. TypeLenSize(n) \in Nat \ {0} /\ (n < 24 => TypeLenSize(n) = 1)
      /\ (n \in {25, 32} => TypeLenSize(n) = 2)
  BY DEF TypeLenSize
<1> QED BY <1>1 DEF Len1

\* The items of a message that have a fixed length, and those that have a field's.
LEMMA FixedSizes ==
    ASSUME NEW ll, NEW n
    PROVE  /\ Written(Map(n), ll) = 1 /\ Written(One, ll) = 1 /\ Written(Flag, ll) = 1
           /\ Written(Digest, ll) = 34
<1>1. Written(Map(n), ll) = 1 /\ Written(One, ll) = 1 /\ Written(Flag, ll) = 1
  BY DEF Written, Map, One, Flag
<1>2. Written(Digest, ll) = HeadWritten(32) + 32
  BY DEF Written, Digest
<1>3. HeadWritten(32) = 2
  BY DEF HeadWritten
<1> QED BY <1>1, <1>2, <1>3

\* The bytes of an item that stands for a field.
LEMMA FieldSizes ==
    ASSUME NEW ll, NEW f, ll[f] \in Int
    PROVE  /\ ll[f] \in Nat => /\ Written(Text(f), ll) = Len1(ll[f])
                               /\ Written(Bytes(f), ll) = Len1(ll[f])
                               /\ Written(Uint(f), ll) = TypeLenSize(ll[f])
                               /\ Len1(ll[f]) \in Nat \ {0}
           /\ Written(Uint(f), ll) = TypeLenSize(Magnitude(ll[f]))
           /\ TypeLenSize(Magnitude(ll[f])) \in Nat \ {0}
<1>1. Written(Text(f), ll) = HeadWritten(ll[f]) + ll[f]
      /\ Written(Bytes(f), ll) = HeadWritten(ll[f]) + ll[f]
  BY DEF Written, Text, Bytes
<1>2. Written(Uint(f), ll) = HeadWritten(Magnitude(ll[f]))
  BY DEF Written, Uint
<1>3. Magnitude(ll[f]) \in Nat /\ (ll[f] \in Nat => Magnitude(ll[f]) = ll[f])
  BY DEF Magnitude
<1>4. Written(Uint(f), ll) = TypeLenSize(Magnitude(ll[f]))
  BY <1>2, HeadsAgree
<1>5. ll[f] \in Nat => Written(Text(f), ll) = Len1(ll[f]) /\ Written(Bytes(f), ll) = Len1(ll[f])
  BY <1>1, HeadsAgree DEF Len1
<1>6. TypeLenSize(Magnitude(ll[f])) \in Nat \ {0}
  BY <1>3, Len1Size
<1>7. ll[f] \in Nat => Len1(ll[f]) \in Nat \ {0}
  BY Len1Size
<1> QED BY <1>3, <1>4, <1>5, <1>6, <1>7

\* A literal of a known length.
LEMMA LiteralSize ==
    ASSUME NEW s, NEW ll, NEW n \in 0..23, Len(s) = n
    PROVE  Written(Key(s), ll) = n + 1 /\ Written(Short(s), ll) = n + 1
<1>1. Written(Key(s), ll) = HeadWritten(Len(s)) + Len(s)
  BY DEF Written, Key
<1>2. Written(Short(s), ll) = IF Len(s) > 23 THEN 0 ELSE 1 + Len(s)
  BY DEF Written, Short
<1>3. HeadWritten(n) = 1
  BY DEF HeadWritten
<1>4. Written(Key(s), ll) = HeadWritten(n) + n
  BY <1>1
<1>5. Written(Short(s), ll) = IF n > 23 THEN 0 ELSE 1 + n
  BY <1>2
<1> QED BY <1>3, <1>4, <1>5

\* What the length computations count for a key with a value of length n.
LEMMA FieldLenSize ==
    ASSUME NEW s, NEW n \in Nat, NEW m \in 0..25, Len(s) = m
    PROVE  FieldLen(s, n) = Len1(m) + Len1(n)
<1>1. FieldLen(s, n) = TypeLenSize(m) + m + TypeLenSize(n) + n
  BY DEF FieldLen
<1>2. TypeLenSize(m) \in Nat /\ TypeLenSize(n) \in Nat
  <2>1. m \in Nat
    OBVIOUS
  <2> QED BY <2>1, Len1Size
<1> QED BY <1>1, <1>2 DEF Len1

\* The kinds of the items, and how many items they announce.
LEMMA KeyKinds ==
    ASSUME NEW s
    PROVE  /\ Key(s).kind = "key" /\ Key(s).s = s /\ Children(Key(s)) = 0
           /\ Short(s).kind = "short" /\ Short(s).s = s /\ Children(Short(s)) = 0
BY DEF Key, Short, Children

\* An item that stands for a field has that field, and nothing nested in it.
LEMMA FieldKinds ==
    ASSUME NEW f
    PROVE  /\ Text(f).kind = "text" /\ Text(f).f = f /\ Children(Text(f)) = 0
           /\ Bytes(f).kind = "bytes" /\ Bytes(f).f = f /\ Children(Bytes(f)) = 0
           /\ Uint(f).kind = "uint" /\ Uint(f).f = f /\ Children(Uint(f)) = 0
BY DEF Text, Bytes, Uint, Children

\* A map announces two items for each of its pairs; the other items announce none.
LEMMA FixedKinds ==
    /\ \A n : Map(n).kind = "map" /\ Children(Map(n)) = 2 * n
    /\ One.kind = "one" /\ Flag.kind = "flag" /\ Digest.kind = "digest"
    /\ Children(One) = 0 /\ Children(Flag) = 0 /\ Children(Digest) = 0
BY DEF Map, One, Flag, Digest, Children

\* What the items are on the wire.
LEMMA KeyWires ==
    ASSUME NEW s, NEW ll, Len(s) # 0
    PROVE  Wire(Key(s), ll) = "text" /\ Wire(Short(s), ll) = "text"
<1>1. Key(s).kind = "key" /\ Key(s).s = s /\ Short(s).kind = "short" /\ Short(s).s = s
  BY KeyKinds
<1> QED BY <1>1 DEF Wire

\* What a reader meets for an item without a field.
LEMMA FixedWires ==
    ASSUME NEW n, NEW ll
    PROVE  /\ Wire(Map(n), ll) = "map" /\ Wire(One, ll) = "one" /\ Wire(Flag, ll) = "flag"
           /\ Wire(Digest, ll) = "bytes"
BY FixedKinds DEF Wire

\* What a reader meets for a field: an empty text is told apart.
LEMMA FieldWires ==
    ASSUME NEW f, NEW ll
    PROVE  /\ Wire(Bytes(f), ll) = "bytes" /\ Wire(Uint(f), ll) = "uint"
           /\ ll[f] = 0 => Wire(Text(f), ll) = "empty"
           /\ ll[f] # 0 => Wire(Text(f), ll) = "text"
BY FieldKinds DEF Wire

\* The table of a builder without its fields: which items stand for which fields.
NoFields == [return_code |-> 0]

\* A field that an item stands for is one of the builder's, and has a length.
LEMMA FieldAt ==
    ASSUME NEW bld, NEW ll, Typed(bld, ll), NEW f,
           NEW n \in 1..Count(bld, NoFields),
           \/ Items(bld, NoFields)[n] = Text(f)
           \/ Items(bld, NoFields)[n] = Bytes(f)
           \/ Items(bld, NoFields)[n] = Uint(f)
    PROVE  f \in Fields(bld) /\ ll[f] \in Int /\ (f # "return_code" => ll[f] \in Nat)
<1> DEFINE t == Items(bld, NoFields)[n]
<1>1. t.kind \in {"text", "bytes", "uint"} /\ t.f = f
  BY DEF Text, Bytes, Uint
<1>2. t \in {Items(bld, NoFields)[m] : m \in 1..Len(Items(bld, NoFields))}
  BY DEF Count
<1> HIDE DEF t
<1>3. f \in Fields(bld)
  BY <1>1, <1>2 DEF Fields, NoFields
<1> QED BY <1>3 DEF Typed

\* The literals, each with its head.
LEMMA LiteralSizes ==
    ASSUME NEW ll
    PROVE  /\ Written(Key(NoText), ll) = 1 /\ Written(Key(LimitText), ll) = 24
           /\ \A s \in {"ok"} :
                Written(Key(s), ll) = 3 /\ Written(Short(s), ll) = 3
           /\ \A s \in {"url"} :
                Written(Key(s), ll) = 4 /\ Written(Short(s), ll) = 4
           /\ \A s \in {"body", "code", "kind"} :
                Written(Key(s), ll) = 5 /\ Written(Short(s), ll) = 5
           /\ \A s \in {"error", "io_id"} :
                Written(Key(s), ll) = 6 /\ Written(Short(s), ll) = 6
           /\ \A s \in {"reason", "source", "status", "stdout"} :
                Written(Key(s), ll) = 7 /\ Written(Short(s), ll) = 7
           /\ \A s \in {"command", "details", "message"} :
                Written(Key(s), ll) = 8 /\ Written(Short(s), ll) = 8
           /\ \A s \in {"evidence", "insecure", "sequence"} :
                Written(Key(s), ll) = 9 /\ Written(Short(s), ll) = 9
           /\ \A s \in {"challenge", "exit_code", "http_post", "state_dir", "teep_code",
                        "wasm_file"} :
                Written(Key(s), ll) = 10 /\ Written(Short(s), ll) = 10
           /\ \A s \in {"app_output", "request_id", "teep-agent", "wasm_bytes"} :
                Written(Key(s), ll) = 11 /\ Written(Short(s), ll) = 11
           /\ \A s \in {"app-runtime", "app.runtime", "resolve_app", "return_code"} :
                Written(Key(s), ll) = 12 /\ Written(Short(s), ll) = 12
           /\ \A s \in {"app.internal", "attestam_url", "catalog_cbor", "need_host_io"} :
                Written(Key(s), ll) = 13 /\ Written(Short(s), ll) = 13
           /\ \A s \in {"app.no_memory", "resolver_mode", "response_body"} :
                Written(Key(s), ll) = 14 /\ Written(Short(s), ll) = 14
           /\ \A s \in {"app.input_cbor", "app_input_cbor", "app_wasm_bytes",
                        "schema_version", "target_command"} :
                Written(Key(s), ll) = 15 /\ Written(Short(s), ll) = 15
           /\ \A s \in {"create_evidence", "teep-evidence-1"} :
                Written(Key(s), ll) = 16 /\ Written(Short(s), ll) = 16
           /\ \A s \in {"max_output_bytes"} :
                Written(Key(s), ll) = 17 /\ Written(Short(s), ll) = 17
           /\ \A s \in {"app.resource_limit", "request_timeout_ms"} :
                Written(Key(s), ll) = 19 /\ Written(Short(s), ll) = 19
           /\ \A s \in {"final_response_cbor", "host_io_result_cbor", "request_body_sha256"} :
                Written(Key(s), ll) = 20 /\ Written(Short(s), ll) = 20
           /\ \A s \in {"app.invalid_argument"} :
                Written(Key(s), ll) = 21 /\ Written(Short(s), ll) = 21
           /\ \A s \in {"agent_public_key_cose", "app.output_generation"} :
                Written(Key(s), ll) = 22 /\ Written(Short(s), ll) = 22
           /\ \A s \in {"app.unsupported_format"} :
                Written(Key(s), ll) = 23 /\ Written(Short(s), ll) = 23
           /\ \A s \in {"app.unsupported_command", "normalized_input_sha256"} :
                Written(Key(s), ll) = 24 /\ Written(Short(s), ll) = 24
           /\ Written(Key("dev_agent_public_key_cbor"), ll) = 27
<1>1. Written(Key(NoText), ll) = 1 /\ Written(Key(LimitText), ll) = 24
  <2>1. Len(NoText) = 0 /\ Len(LimitText) = 23
    BY TextLengths
  <2> QED BY <2>1, LiteralSize
<1>2. \A s \in {"ok"} :
        Written(Key(s), ll) = 3 /\ Written(Short(s), ll) = 3
  <2> DEFINE S == {"ok"}
  <2>1. \A s \in S : Len(s) = 2
    BY TextLengths
  <2> HIDE DEF S
  <2>2. \A s \in S : Written(Key(s), ll) = 3 /\ Written(Short(s), ll) = 3
    BY <2>1, LiteralSize
  <2> QED BY <2>2 DEF S
<1>3. \A s \in {"url"} :
        Written(Key(s), ll) = 4 /\ Written(Short(s), ll) = 4
  <2> DEFINE S == {"url"}
  <2>1. \A s \in S : Len(s) = 3
    BY TextLengths
  <2> HIDE DEF S
  <2>2. \A s \in S : Written(Key(s), ll) = 4 /\ Written(Short(s), ll) = 4
    BY <2>1, LiteralSize
  <2> QED BY <2>2 DEF S
<1>4. \A s \in {"body", "code", "kind"} :
        Written(Key(s), ll) = 5 /\ Written(Short(s), ll) = 5
  <2> DEFINE S == {"body", "code", "kind"}
  <2>1. \A s \in S : Len(s) = 4
    BY TextLengths
  <2> HIDE DEF S
  <2>2. \A s \in S : Written(Key(s), ll) = 5 /\ Written(Short(s), ll) = 5
    BY <2>1, LiteralSize
  <2> QED BY <2>2 DEF S
<1>5. \A s \in {"error", "io_id"} :
        Written(Key(s), ll) = 6 /\ Written(Short(s), ll) = 6
  <2> DEFINE S == {"error", "io_id"}
  <2>1. \A s \in S : Len(s) = 5
    BY TextLengths
  <2> HIDE DEF S
  <2>2. \A s \in S : Written(Key(s), ll) = 6 /\ Written(Short(s), ll) = 6
    BY <2>1, LiteralSize
  <2> QED BY <2>2 DEF S
<1>6. \A s \in {"reason", "source", "status", "stdout"} :
        Written(Key(s), ll) = 7 /\ Written(Short(s), ll) = 7
  <2> DEFINE S == {"reason", "source", "status", "stdout"}
  <2>1. \A s \in S : Len(s) = 6
    BY TextLengths
  <2> HIDE DEF S
  <2>2. \A s \in S : Written(Key(s), ll) = 7 /\ Written(Short(s), ll) = 7
    BY <2>1, LiteralSize
  <2> QED BY <2>2 DEF S
<1>7. \A s \in {"command", "details", "message"} :
        Written(Key(s), ll) = 8 /\ Written(Short(s), ll) = 8
  <2> DEFINE S == {"command", "details", "message"}
  <2>1. \A s \in S : Len(s) = 7
    BY TextLengths
  <2> HIDE DEF S
  <2>2. \A s \in S : Written(Key(s), ll) = 8 /\ Written(Short(s), ll) = 8
    BY <2>1, LiteralSize
  <2> QED BY <2>2 DEF S
<1>8. \A s \in {"evidence", "insecure", "sequence"} :
        Written(Key(s), ll) = 9 /\ Written(Short(s), ll) = 9
  <2> DEFINE S == {"evidence", "insecure", "sequence"}
  <2>1. \A s \in S : Len(s) = 8
    BY TextLengths
  <2> HIDE DEF S
  <2>2. \A s \in S : Written(Key(s), ll) = 9 /\ Written(Short(s), ll) = 9
    BY <2>1, LiteralSize
  <2> QED BY <2>2 DEF S
<1>9. \A s \in {"challenge", "exit_code", "http_post", "state_dir", "teep_code", "wasm_file"} :
        Written(Key(s), ll) = 10 /\ Written(Short(s), ll) = 10
  <2> DEFINE S == {"challenge", "exit_code", "http_post", "state_dir", "teep_code",
                   "wasm_file"}
  <2>1. \A s \in S : Len(s) = 9
    BY TextLengths
  <2> HIDE DEF S
  <2>2. \A s \in S : Written(Key(s), ll) = 10 /\ Written(Short(s), ll) = 10
    BY <2>1, LiteralSize
  <2> QED BY <2>2 DEF S
<1>10. \A s \in {"app_output", "request_id", "teep-agent", "wasm_bytes"} :
        Written(Key(s), ll) = 11 /\ Written(Short(s), ll) = 11
  <2> DEFINE S == {"app_output", "request_id", "teep-agent", "wasm_bytes"}
  <2>1. \A s \in S : Len(s) = 10
    BY TextLengths
  <2> HIDE DEF S
  <2>2. \A s \in S : Written(Key(s), ll) = 11 /\ Written(Short(s), ll) = 11
    BY <2>1, LiteralSize
  <2> QED BY <2>2 DEF S
<1>11. \A s \in {"app-runtime", "app.runtime", "resolve_app", "return_code"} :
        Written(Key(s), ll) = 12 /\ Written(Short(s), ll) = 12
  <2> DEFINE S == {"app-runtime", "app.runtime", "resolve_app", "return_code"}
  <2>1. \A s \in S : Len(s) = 11
    BY TextLengths
  <2> HIDE DEF S
  <2>2. \A s \in S : Written(Key(s), ll) = 12 /\ Written(Short(s), ll) = 12
    BY <2>1, LiteralSize
  <2> QED BY <2>2 DEF S
<1>12. \A s \in {"app.internal", "attestam_url", "catalog_cbor", "need_host_io"} :
        Written(Key(s), ll) = 13 /\ Written(Short(s), ll) = 13
  <2> DEFINE S == {"app.internal", "attestam_url", "catalog_cbor", "need_host_io"}
  <2>1. \A s \in S : Len(s) = 12
    BY TextLengths
  <2> HIDE DEF S
  <2>2. \A s \in S : Written(Key(s), ll) = 13 /\ Written(Short(s), ll) = 13
    BY <2>1, LiteralSize
  <2> QED BY <2>2 DEF S
<1>13. \A s \in {"app.no_memory", "resolver_mode", "response_body"} :
        Written(Key(s), ll) = 14 /\ Written(Short(s), ll) = 14
  <2> DEFINE S == {"app.no_memory", "resolver_mode", "response_body"}
  <2>1. \A s \in S : Len(s) = 13
    BY TextLengths
  <2> HIDE DEF S
  <2>2. \A s \in S : Written(Key(s), ll) = 14 /\ Written(Short(s), ll) = 14
    BY <2>1, LiteralSize
  <2> QED BY <2>2 DEF S
<1>14. \A s \in {"app.input_cbor", "app_input_cbor", "app_wasm_bytes", "schema_version",
            "target_command"} :
        Written(Key(s), ll) = 15 /\ Written(Short(s), ll) = 15
  <2> DEFINE S == {"app.input_cbor", "app_input_cbor", "app_wasm_bytes", "schema_version",
                   "target_command"}
  <2>1. \A s \in S : Len(s) = 14
    BY TextLengths
  <2> HIDE DEF S
  <2>2. \A s \in S : Written(Key(s), ll) = 15 /\ Written(Short(s), ll) = 15
    BY <2>1, LiteralSize
  <2> QED BY <2>2 DEF S
<1>15. \A s \in {"create_evidence", "teep-evidence-1"} :
        Written(Key(s), ll) = 16 /\ Written(Short(s), ll) = 16
  <2> DEFINE S == {"create_evidence", "teep-evidence-1"}
  <2>1. \A s \in S : Len(s) = 15
    BY TextLengths
  <2> HIDE DEF S
  <2>2. \A s \in S : Written(Key(s), ll) = 16 /\ Written(Short(s), ll) = 16
    BY <2>1, LiteralSize
  <2> QED BY <2>2 DEF S
<1>16. \A s \in {"max_output_bytes"} :
        Written(Key(s), ll) = 17 /\ Written(Short(s), ll) = 17
  <2> DEFINE S == {"max_output_bytes"}
  <2>1. \A s \in S : Len(s) = 16
    BY TextLengths
  <2> HIDE DEF S
  <2>2. \A s \in S : Written(Key(s), ll) = 17 /\ Written(Short(s), ll) = 17
    BY <2>1, LiteralSize
  <2> QED BY <2>2 DEF S
<1>17. \A s \in {"app.resource_limit", "request_timeout_ms"} :
        Written(Key(s), ll) = 19 /\ Written(Short(s), ll) = 19
  <2> DEFINE S == {"app.resource_limit", "request_timeout_ms"}
  <2>1. \A s \in S : Len(s) = 18
    BY TextLengths
  <2> HIDE DEF S
  <2>2. \A s \in S : Written(Key(s), ll) = 19 /\ Written(Short(s), ll) = 19
    BY <2>1, LiteralSize
  <2> QED BY <2>2 DEF S
<1>18. \A s \in {"final_response_cbor", "host_io_result_cbor", "request_body_sha256"} :
        Written(Key(s), ll) = 20 /\ Written(Short(s), ll) = 20
  <2> DEFINE S == {"final_response_cbor", "host_io_result_cbor", "request_body_sha256"}
  <2>1. \A s \in S : Len(s) = 19
    BY TextLengths
  <2> HIDE DEF S
  <2>2. \A s \in S : Written(Key(s), ll) = 20 /\ Written(Short(s), ll) = 20
    BY <2>1, LiteralSize
  <2> QED BY <2>2 DEF S
<1>19. \A s \in {"app.invalid_argument"} :
        Written(Key(s), ll) = 21 /\ Written(Short(s), ll) = 21
  <2> DEFINE S == {"app.invalid_argument"}
  <2>1. \A s \in S : Len(s) = 20
    BY TextLengths
  <2> HIDE DEF S
  <2>2. \A s \in S : Written(Key(s), ll) = 21 /\ Written(Short(s), ll) = 21
    BY <2>1, LiteralSize
  <2> QED BY <2>2 DEF S
<1>20. \A s \in {"agent_public_key_cose", "app.output_generation"} :
        Written(Key(s), ll) = 22 /\ Written(Short(s), ll) = 22
  <2> DEFINE S == {"agent_public_key_cose", "app.output_generation"}
  <2>1. \A s \in S : Len(s) = 21
    BY TextLengths
  <2> HIDE DEF S
  <2>2. \A s \in S : Written(Key(s), ll) = 22 /\ Written(Short(s), ll) = 22
    BY <2>1, LiteralSize
  <2> QED BY <2>2 DEF S
<1>21. \A s \in {"app.unsupported_format"} :
        Written(Key(s), ll) = 23 /\ Written(Short(s), ll) = 23
  <2> DEFINE S == {"app.unsupported_format"}
  <2>1. \A s \in S : Len(s) = 22
    BY TextLengths
  <2> HIDE DEF S
  <2>2. \A s \in S : Written(Key(s), ll) = 23 /\ Written(Short(s), ll) = 23
    BY <2>1, LiteralSize
  <2> QED BY <2>2 DEF S
<1>22. \A s \in {"app.unsupported_command", "normalized_input_sha256"} :
        Written(Key(s), ll) = 24 /\ Written(Short(s), ll) = 24
  <2> DEFINE S == {"app.unsupported_command", "normalized_input_sha256"}
  <2>1. \A s \in S : Len(s) = 23
    BY TextLengths
  <2> HIDE DEF S
  <2>2. \A s \in S : Written(Key(s), ll) = 24 /\ Written(Short(s), ll) = 24
    BY <2>1, LiteralSize
  <2> QED BY <2>2 DEF S
<1>23. Written(Key("dev_agent_public_key_cbor"), ll) = 27
  <2>1. Written(Key("dev_agent_public_key_cbor"), ll) =
          HeadWritten(Len("dev_agent_public_key_cbor")) + Len("dev_agent_public_key_cbor")
    BY DEF Written, Key
  <2>2. Len("dev_agent_public_key_cbor") = 25
    BY TextLengths
  <2>3. Written(Key("dev_agent_public_key_cbor"), ll) = HeadWritten(25) + 25
    BY <2>1, <2>2
  <2> QED BY <2>3 DEF HeadWritten
<1> QED BY <1>1, <1>2, <1>3, <1>4, <1>5, <1>6, <1>7, <1>8, <1>9, <1>10, <1>11, <1>12,
           <1>13, <1>14, <1>15, <1>16, <1>17, <1>18, <1>19, <1>20, <1>21, <1>22, <1>23

----------------------------------------------------------------------------
(* What the receivers take for the keys that they meet.                    *)

\* The client of a response reads nothing of it.
LEMMA ClientWants == ASSUME NEW s PROVE Wants("client", s) = {}
BY DEF Wants

\* The keys of an envelope.
LEMMA EnvelopeWants ==
    /\ \A s \in {"request_id", "command", "resolver_mode"} :
          Wants("parse_production_envelope", s) = {"text"}
    /\ Wants("parse_production_envelope", "attestam_url") = {"text", "empty"}
    /\ Wants("parse_production_envelope", "insecure") = {"flag"}
    /\ \A s \in {"app_input_cbor", "wasm_bytes", "catalog_cbor", "app_wasm_bytes",
                "dev_agent_public_key_cbor", "host_io_result_cbor"} :
          Wants("parse_production_envelope", s) = {"bytes"}
    /\ Wants("parse_production_envelope", "request_timeout_ms") = {"uint", "one"}
BY DEF Wants, parse_production_envelope

\* The keys of a response of the TA.
LEMMA ResponseWants ==
    /\ \A s \in {"schema_version", "status", "exit_code", "stdout", "app_output", "error", "code",
                "message", "details", "source", "teep_code", "command", "reason"} :
          Wants("twep_optee_parse_response", s) = {}
    /\ \A s \in {"request_id", "io_id", "kind", "url"} :
          Wants("twep_optee_parse_response", s) = {"text", "empty"}
    /\ \A s \in {"final_response_cbor", "body", "request_body_sha256", "normalized_input_sha256",
                "challenge", "agent_public_key_cose"} :
          Wants("twep_optee_parse_response", s) = {"bytes"}
    /\ Wants("twep_optee_parse_response", "need_host_io") = {"map"}
    /\ Wants("twep_optee_parse_response", "sequence") = {"uint", "one"}
BY DEF Wants, twep_optee_parse_response

\* The keys of the result of a host operation.
LEMMA ResultWants ==
    /\ \A s \in {"io_id", "kind"} :
          Wants("host_io_result_ok", s) = {"text"}
    /\ \A s \in {"status", "sequence"} :
          Wants("host_io_result_ok", s) = {"uint", "one"}
    /\ \A s \in {"response_body", "request_body_sha256", "normalized_input_sha256", "evidence"} :
          Wants("host_io_result_ok", s) = {"bytes"}
BY DEF Wants, host_io_result_ok

\* The keys of the Agent's input, for the TA.
LEMMA ResolveWants ==
    /\ \A s \in {"schema_version", "state_dir", "attestam_url"} :
          Wants("parse_teep_resolve_input", s) = {}
    /\ \A s \in {"command", "target_command", "resolver_mode"} :
          Wants("parse_teep_resolve_input", s) = {"text"}
BY DEF Wants, parse_teep_resolve_input

\* The keys that the Agent looks up.
LEMMA AgentWants ==
    /\ \A s \in {"schema_version", "state_dir"} : Wants("twep_app_main", s) = {}
    /\ \A s \in {"command", "target_command", "resolver_mode", "attestam_url"} :
          Wants("twep_app_main", s) = {"text", "empty"}
BY DEF Wants, twep_app_main

\* What a reader that has reached the end makes of the keys that it has seen.
LEMMA EnvelopeOutcome ==
    ASSUME NEW bld, NEW S, Reader(bld) = "parse_production_envelope", Required(bld) \subseteq S
    PROVE  Outcome(bld, S) = "accepted"
BY DEF Outcome

\* A host I/O result that has all of its keys, and one of its two bodies, is accepted.
LEMMA ResultOutcome ==
    ASSUME NEW bld, NEW S, Reader(bld) = "host_io_result_ok",
           {"io_id", "kind", "status", "sequence", "request_body_sha256",
            "normalized_input_sha256"} \subseteq S,
           S \cap {"response_body", "evidence"} # {}
    PROVE  Outcome(bld, S) = "accepted"
BY DEF Outcome

\* A resolve input with its three required keys is accepted.
LEMMA ResolveOutcome ==
    ASSUME NEW bld, NEW S, Reader(bld) = "parse_teep_resolve_input",
           {"command", "target_command", "resolver_mode"} \subseteq S
    PROVE  Outcome(bld, S) = "accepted"
BY DEF Outcome

\* The Agent accepts an input with a target command.
LEMMA AgentOutcome ==
    ASSUME NEW bld, NEW S, Reader(bld) = "twep_app_main", "target_command" \in S
    PROVE  Outcome(bld, S) = "accepted"
BY DEF Outcome

\* What the client makes of the response of the REE.
LEMMA ClientOutcome ==
    ASSUME NEW bld, NEW S, Reader(bld) = "client"
    PROVE  Outcome(bld, S) = "accepted"
BY DEF Outcome

\* What the REE makes of a response of the TA.
LEMMA ResponseOutcome ==
    ASSUME NEW bld, NEW S, Reader(bld) = "twep_optee_parse_response"
    PROVE  /\ "final_response_cbor" \in S /\ "need_host_io" \notin S => Outcome(bld, S) = "FINAL"
           /\ "final_response_cbor" \notin S /\ "need_host_io" \in S /\ NeedKeys \subseteq S =>
                 Outcome(bld, S) = "NEED_HOST_IO"
           /\ "final_response_cbor" \notin S /\ "need_host_io" \notin S => Outcome(bld, S) = "raw"
BY DEF Outcome

----------------------------------------------------------------------------
(* The tables: what they hold, what that takes up, and how it is read.     *)

\* The lengths that the computations count for literals.
LEMMA Len1Constants ==
    /\ Len1(6) = 7 /\ Len1(8) = 9 /\ Len1(9) = 10 /\ Len1(10) = 11 /\ Len1(11) = 12
    /\ Len1(12) = 13 /\ Len1(14) = 15 /\ Len1(15) = 16 /\ Len1(16) = 17 /\ Len1(18) = 19
    /\ Len1(23) = 24 /\ Len1(32) = 34 /\ TypeLenSize(1) = 1
BY DEF Len1, TypeLenSize

\* What the builders add to a length for each field they write with its key.
LEMMA FieldLens ==
    ASSUME NEW n \in Nat
    PROVE  /\ \A s \in {"kind"} : FieldLen(s, n) = 5 + Len1(n)
           /\ \A s \in {"io_id"} : FieldLen(s, n) = 6 + Len1(n)
           /\ \A s \in {"command"} : FieldLen(s, n) = 8 + Len1(n)
           /\ \A s \in {"evidence"} : FieldLen(s, n) = 9 + Len1(n)
           /\ \A s \in {"state_dir"} : FieldLen(s, n) = 10 + Len1(n)
           /\ \A s \in {"request_id", "wasm_bytes"} : FieldLen(s, n) = 11 + Len1(n)
           /\ \A s \in {"attestam_url", "catalog_cbor"} : FieldLen(s, n) = 13 + Len1(n)
           /\ \A s \in {"resolver_mode", "response_body"} : FieldLen(s, n) = 14 + Len1(n)
           /\ \A s \in {"app_input_cbor", "app_wasm_bytes", "target_command"} :
                FieldLen(s, n) = 15 + Len1(n)
           /\ \A s \in {"host_io_result_cbor", "request_body_sha256"} :
                FieldLen(s, n) = 20 + Len1(n)
           /\ \A s \in {"normalized_input_sha256"} : FieldLen(s, n) = 24 + Len1(n)
           /\ \A s \in {"dev_agent_public_key_cbor"} : FieldLen(s, n) = 27 + Len1(n)
<1>1. \A s \in {"kind"} : FieldLen(s, n) = 5 + Len1(n)
  <2> DEFINE S == {"kind"}
  <2>1. \A s \in S : Len(s) = 4
    BY TextLengths
  <2> HIDE DEF S
  <2>2. \A s \in S : FieldLen(s, n) = Len1(4) + Len1(n)
    BY <2>1, FieldLenSize
  <2>3. Len1(4) = 5
    BY DEF Len1, TypeLenSize
  <2> QED BY <2>2, <2>3 DEF S
<1>2. \A s \in {"io_id"} : FieldLen(s, n) = 6 + Len1(n)
  <2> DEFINE S == {"io_id"}
  <2>1. \A s \in S : Len(s) = 5
    BY TextLengths
  <2> HIDE DEF S
  <2>2. \A s \in S : FieldLen(s, n) = Len1(5) + Len1(n)
    BY <2>1, FieldLenSize
  <2>3. Len1(5) = 6
    BY DEF Len1, TypeLenSize
  <2> QED BY <2>2, <2>3 DEF S
<1>3. \A s \in {"command"} : FieldLen(s, n) = 8 + Len1(n)
  <2> DEFINE S == {"command"}
  <2>1. \A s \in S : Len(s) = 7
    BY TextLengths
  <2> HIDE DEF S
  <2>2. \A s \in S : FieldLen(s, n) = Len1(7) + Len1(n)
    BY <2>1, FieldLenSize
  <2>3. Len1(7) = 8
    BY DEF Len1, TypeLenSize
  <2> QED BY <2>2, <2>3 DEF S
<1>4. \A s \in {"evidence"} : FieldLen(s, n) = 9 + Len1(n)
  <2> DEFINE S == {"evidence"}
  <2>1. \A s \in S : Len(s) = 8
    BY TextLengths
  <2> HIDE DEF S
  <2>2. \A s \in S : FieldLen(s, n) = Len1(8) + Len1(n)
    BY <2>1, FieldLenSize
  <2>3. Len1(8) = 9
    BY DEF Len1, TypeLenSize
  <2> QED BY <2>2, <2>3 DEF S
<1>5. \A s \in {"state_dir"} : FieldLen(s, n) = 10 + Len1(n)
  <2> DEFINE S == {"state_dir"}
  <2>1. \A s \in S : Len(s) = 9
    BY TextLengths
  <2> HIDE DEF S
  <2>2. \A s \in S : FieldLen(s, n) = Len1(9) + Len1(n)
    BY <2>1, FieldLenSize
  <2>3. Len1(9) = 10
    BY DEF Len1, TypeLenSize
  <2> QED BY <2>2, <2>3 DEF S
<1>6. \A s \in {"request_id", "wasm_bytes"} : FieldLen(s, n) = 11 + Len1(n)
  <2> DEFINE S == {"request_id", "wasm_bytes"}
  <2>1. \A s \in S : Len(s) = 10
    BY TextLengths
  <2> HIDE DEF S
  <2>2. \A s \in S : FieldLen(s, n) = Len1(10) + Len1(n)
    BY <2>1, FieldLenSize
  <2>3. Len1(10) = 11
    BY DEF Len1, TypeLenSize
  <2> QED BY <2>2, <2>3 DEF S
<1>7. \A s \in {"attestam_url", "catalog_cbor"} : FieldLen(s, n) = 13 + Len1(n)
  <2> DEFINE S == {"attestam_url", "catalog_cbor"}
  <2>1. \A s \in S : Len(s) = 12
    BY TextLengths
  <2> HIDE DEF S
  <2>2. \A s \in S : FieldLen(s, n) = Len1(12) + Len1(n)
    BY <2>1, FieldLenSize
  <2>3. Len1(12) = 13
    BY DEF Len1, TypeLenSize
  <2> QED BY <2>2, <2>3 DEF S
<1>8. \A s \in {"resolver_mode", "response_body"} : FieldLen(s, n) = 14 + Len1(n)
  <2> DEFINE S == {"resolver_mode", "response_body"}
  <2>1. \A s \in S : Len(s) = 13
    BY TextLengths
  <2> HIDE DEF S
  <2>2. \A s \in S : FieldLen(s, n) = Len1(13) + Len1(n)
    BY <2>1, FieldLenSize
  <2>3. Len1(13) = 14
    BY DEF Len1, TypeLenSize
  <2> QED BY <2>2, <2>3 DEF S
<1>9. \A s \in {"app_input_cbor", "app_wasm_bytes", "target_command"} :
        FieldLen(s, n) = 15 + Len1(n)
  <2> DEFINE S == {"app_input_cbor", "app_wasm_bytes", "target_command"}
  <2>1. \A s \in S : Len(s) = 14
    BY TextLengths
  <2> HIDE DEF S
  <2>2. \A s \in S : FieldLen(s, n) = Len1(14) + Len1(n)
    BY <2>1, FieldLenSize
  <2>3. Len1(14) = 15
    BY DEF Len1, TypeLenSize
  <2> QED BY <2>2, <2>3 DEF S
<1>10. \A s \in {"host_io_result_cbor", "request_body_sha256"} : FieldLen(s, n) = 20 + Len1(n)
  <2> DEFINE S == {"host_io_result_cbor", "request_body_sha256"}
  <2>1. \A s \in S : Len(s) = 19
    BY TextLengths
  <2> HIDE DEF S
  <2>2. \A s \in S : FieldLen(s, n) = Len1(19) + Len1(n)
    BY <2>1, FieldLenSize
  <2>3. Len1(19) = 20
    BY DEF Len1, TypeLenSize
  <2> QED BY <2>2, <2>3 DEF S
<1>11. \A s \in {"normalized_input_sha256"} : FieldLen(s, n) = 24 + Len1(n)
  <2> DEFINE S == {"normalized_input_sha256"}
  <2>1. \A s \in S : Len(s) = 23
    BY TextLengths
  <2> HIDE DEF S
  <2>2. \A s \in S : FieldLen(s, n) = Len1(23) + Len1(n)
    BY <2>1, FieldLenSize
  <2>3. Len1(23) = 24
    BY DEF Len1, TypeLenSize
  <2> QED BY <2>2, <2>3 DEF S
<1>12. \A s \in {"dev_agent_public_key_cbor"} : FieldLen(s, n) = 27 + Len1(n)
  <2> DEFINE S == {"dev_agent_public_key_cbor"}
  <2>1. \A s \in S : Len(s) = 25
    BY TextLengths
  <2> HIDE DEF S
  <2>2. \A s \in S : FieldLen(s, n) = Len1(25) + Len1(n)
    BY <2>1, FieldLenSize
  <2>3. Len1(25) = 27
    BY DEF Len1, TypeLenSize
  <2> QED BY <2>2, <2>3 DEF S
<1> QED BY <1>1, <1>2, <1>3, <1>4, <1>5, <1>6, <1>7, <1>8, <1>9, <1>10, <1>11, <1>12

\* The texts of an application's error are short enough to be written.
LEMMA AppErrorTexts ==
    ASSUME NEW c, NEW ll
    PROVE  /\ Len(AppError(c)[1]) \in 0..23
           /\ Written(Short(AppError(c)[1]), ll) = 1 + Len(AppError(c)[1])
           /\ Len(AppError(c)[2]) \in 0..23
           /\ Written(Short(AppError(c)[2]), ll) = 1 + Len(AppError(c)[2])
<1> DEFINE Codes == {"app.input_cbor", "app.invalid_argument", "app.output_generation",
                     "app.no_memory", "app.unsupported_command", "app.unsupported_format",
                     "app.resource_limit", "app.internal", "app.runtime"}
<1> DEFINE Words == {"invalid input", "invalid argument", "output generation error", "no memory",
                     "unsupported command", "unsupported format", "resource limit exceeded",
                     "internal app error", "runtime error"}
<1>1. AppError(c)[1] \in Codes /\ AppError(c)[2] \in Words
  BY DEF AppError
<1>2. \A s \in Codes : Len(s) \in {11, 12, 13, 14, 18, 20, 21, 22, 23}
  BY TextLengths
<1>3. \A s \in Words : Len(s) \in {9, 13, 16, 18, 19, 23}
  BY WordLengths
<1> HIDE DEF Codes, Words
<1>4. PICK m \in 0..23 : Len(AppError(c)[1]) = m
  BY <1>1, <1>2
<1>5. PICK n \in 0..23 : Len(AppError(c)[2]) = n
  BY <1>1, <1>3
<1>6. Written(Short(AppError(c)[1]), ll) = m + 1 /\ Written(Short(AppError(c)[2]), ll) = n + 1
  BY <1>4, <1>5, LiteralSize
<1> QED BY <1>4, <1>5, <1>6

\* The items of the response of a command that succeeded.
ResponseTable(T) ==
    /\ Len(T) = 13 /\ T[1] = Map(6) /\ T[2] = Key("schema_version") /\ T[3] = One
    /\ T[4] = Key("request_id") /\ T[5] = Text("request_id") /\ T[6] = Key("status")
    /\ T[7] = Key("ok") /\ T[8] = Key("exit_code") /\ T[9] = One /\ T[10] = Key("stdout")
    /\ T[11] = Bytes("stdout") /\ T[12] = Key("app_output") /\ T[13] = Bytes("app_output")

\* The items that are written are those of the table.
LEMMA ResponseItems ==
    ASSUME NEW bld \in {"make_response", "build_execute_response"}, NEW ll
    PROVE  ResponseTable(Items(bld, ll))
BY DEF ResponseTable, Items, Ok

\* They take up what was computed for them.
LEMMA ResponseFitting ==
    ASSUME NEW bld \in {"make_response", "build_execute_response"}, NEW ll, Typed(bld, ll)
    PROVE  Fitting(bld, ll)
<1> DEFINE T == Items(bld, ll)
<1> DEFINE Z == Items(bld, NoFields)
<1> DEFINE W(k) == Written(T[k], ll)
<1>1. ResponseTable(T) /\ ResponseTable(Z)
  BY ResponseItems
<1> HIDE DEF T, Z
<1>2. /\ ll.request_id \in Nat /\ ll.stdout \in Nat /\ ll.app_output \in Nat
  <2>1. /\ Count(bld, NoFields) = 13 /\ Z[5] = Text("request_id") /\ Z[11] = Bytes("stdout")
        /\ Z[13] = Bytes("app_output") /\ {5, 11, 13} \subseteq 1..13
    BY <1>1 DEF ResponseTable, Count, Z
  <2> QED BY <2>1, FieldAt DEF Z
<1>3. /\ Len1(ll.request_id) \in Nat \ {0} /\ Len1(ll.stdout) \in Nat \ {0}
      /\ Len1(ll.app_output) \in Nat \ {0}
  BY <1>2, Len1Size
<1>4. /\ W(1) = 1 /\ W(2) = 15 /\ W(3) = 1 /\ W(4) = 11 /\ W(6) = 7 /\ W(7) = 3 /\ W(8) = 10
      /\ W(9) = 1 /\ W(10) = 7 /\ W(12) = 11
  BY <1>1, FixedSizes, LiteralSizes DEF ResponseTable
<1>5. /\ W(5) = Len1(ll.request_id) /\ W(11) = Len1(ll.stdout) /\ W(13) = Len1(ll.app_output)
  BY <1>1, <1>2, FieldSizes DEF ResponseTable
<1> HIDE DEF W
<1>6. ASSUME NEW k \in 1..13 PROVE W(k) \in Nat \ {0}
  <2>1. k \in {1, 2, 3, 4, 5, 6, 7, 8, 9, 10, 11, 12, 13}
    OBVIOUS
  <2> QED BY <1>3, <1>4, <1>5, <2>1
<1>7. ASSUME NEW g, IsOffsets(g, bld, ll)
      PROVE  g[13] = 67 + Len1(ll.request_id) + Len1(ll.stdout) + Len1(ll.app_output)
  <2>1. Count(bld, ll) = 13
    BY <1>1 DEF ResponseTable, Count, T
  <2>2. g[0] = 0 /\ \A k \in 1..13 : g[k] = g[k - 1] + W(k)
    BY <1>7, <2>1 DEF IsOffsets, W, T
  <2>3. /\ g[1] = g[0] + W(1) /\ g[2] = g[1] + W(2) /\ g[3] = g[2] + W(3) /\ g[4] = g[3] + W(4)
        /\ g[5] = g[4] + W(5) /\ g[6] = g[5] + W(6) /\ g[7] = g[6] + W(7) /\ g[8] = g[7] + W(8)
        /\ g[9] = g[8] + W(9) /\ g[10] = g[9] + W(10) /\ g[11] = g[10] + W(11)
        /\ g[12] = g[11] + W(12) /\ g[13] = g[12] + W(13)
    BY <2>2
  <2>4. g[6] = 35 + Len1(ll.request_id)
    BY <1>3, <1>4, <1>5, <2>2, <2>3
  <2> QED BY <1>3, <1>4, <1>5, <2>2, <2>3, <2>4
<1>8. Reserved(bld, ll) =
          67 + Len1(ll.request_id) + Len1(ll.stdout) + Len1(ll.app_output)
  <2>1. Reserved(bld, ll) = ResponseLen(ll)
    BY DEF Reserved
  <2> QED BY <1>3, <2>1, Len1Constants DEF ResponseLen, IdLen
<1>9. Reserved(bld, ll) \in Nat \ {0}
  BY <1>3, <1>8
<1>10. ASSUME NEW g, IsOffsets(g, bld, ll)
       PROVE  /\ g[13] <=
                    Reserved(bld, ll) + Excess(bld)
              /\ bld \in ReportsReserved =>
                    g[13] = Reserved(bld, ll)
  BY <1>3, <1>7, <1>8, <1>10 DEF Excess
<1>11. Count(bld, ll) = 13
  BY <1>1 DEF ResponseTable, Count, T
<1>12. \A k \in 1..13 : Written(Items(bld, ll)[k], ll) \in Nat \ {0}
  BY <1>6 DEF W, T
<1> QED BY <1>9, <1>10, <1>11, <1>12 DEF Fitting

\* The client takes it as it is.
LEMMA ReeResponseLegible ==
    ASSUME NEW ll, Typed("make_response", ll)
    PROVE  Legible("make_response", ll)
<1> DEFINE T == Items("make_response", ll)
<1> DEFINE V(k) == WantsAt("make_response", ll, k)
<1>1. ResponseTable(T)
  BY ResponseItems
<1> HIDE DEF T
<1>2. /\ Reader("make_response") = "client"
      /\ Count("make_response", ll) = 13
  BY <1>1 DEF Reader, ResponseTable, Count, T
<1>3. "make_response" \notin Needs /\ "make_response" \notin Errors
  BY DEF Needs, Errors
<1>4. /\ T[2].s = "schema_version" /\ T[4].s = "request_id" /\ T[6].s = "status"
      /\ T[8].s = "exit_code" /\ T[10].s = "stdout" /\ T[12].s = "app_output"
  BY <1>1, KeyKinds DEF ResponseTable
<1>5. ASSUME NEW k \in 2..13, k % 2 = 0
      PROVE  T[k].kind \in {"key", "short"} /\ T[k].s # NoKey
  <2>1. k \in {2, 4, 6, 8, 10, 12}
    BY <1>5
  <2>2. /\ T[2].kind = "key" /\ T[4].kind = "key" /\ T[6].kind = "key" /\ T[8].kind = "key"
        /\ T[10].kind = "key" /\ T[12].kind = "key"
    BY <1>1, KeyKinds DEF ResponseTable
  <2> QED BY <1>4, <2>1, <2>2 DEF NoKey
<1>6. /\ V(2) = {} /\ V(4) = {} /\ V(6) = {} /\ V(8) = {} /\ V(10) = {} /\ V(12) = {}
  BY <1>2, <1>4, ClientWants DEF WantsAt, T
<1>7. T[1].kind = "map" /\ Children(T[1]) = 12
  BY <1>1, FixedKinds DEF ResponseTable
<1>8. ASSUME NEW k \in 2..13 PROVE Children(T[k]) = Nested("make_response", k)
  <2>1. k \in {2, 3, 4, 5, 6, 7, 8, 9, 10, 11, 12, 13}
    OBVIOUS
  <2>2. /\ Children(T[2]) = 0 /\ Children(T[4]) = 0 /\ Children(T[6]) = 0 /\ Children(T[7]) = 0
        /\ Children(T[8]) = 0 /\ Children(T[10]) = 0 /\ Children(T[12]) = 0
    BY <1>1, KeyKinds DEF ResponseTable
  <2>3. /\ Children(T[5]) = 0 /\ Children(T[11]) = 0 /\ Children(T[13]) = 0
    BY <1>1, FieldKinds DEF ResponseTable
  <2>4. /\ Children(T[3]) = 0 /\ Children(T[9]) = 0
    BY <1>1, FixedKinds DEF ResponseTable
  <2> QED BY <1>3, <2>1, <2>2, <2>3, <2>4 DEF Nested
<1>9. ASSUME NEW k \in 3..13, k % 2 = 1
       PROVE  \/ Fits("make_response", ll, k)
  <2>1. k \in {3, 5, 7, 9, 11, 13}
    BY <1>9
  <2>2. Fits("make_response", ll, k) <=> V(k - 1) = {} \/ Wire(T[k], ll) \in V(k - 1)
    BY DEF Fits, T
  <2> HIDE DEF V
  <2>3. V(k - 1) = {}
    BY <1>6, <2>1
  <2> QED BY <2>2, <2>3
<1>10. ~Strict("make_response")
  BY <1>2 DEF Strict
<1>11. Taken("make_response", ll, 14) =
         {}
  <2>1. TakenAt("make_response", ll, 14) = {}
    <3>1. ASSUME NEW k \in 2..13, k % 2 = 0 
          PROVE  k \in {2, 4, 6, 8, 10, 12} /\ k + 1 < 14
      BY <3>1
    <3>2. TakenAt("make_response", ll, 14) = {k \in 2..13 : k % 2 = 0 /\ V(k) # {}}
      BY <1>2, <3>1 DEF TakenAt
    <3> HIDE DEF V
    <3> QED BY <1>6, <3>1, <3>2
  <2> QED BY <1>4, <2>1 DEF Taken, T
<1>12. Outcome("make_response", Taken("make_response", ll, 14)) =
         Expected("make_response")
  <2>1. Expected("make_response") = "accepted"
    BY DEF Expected
  <2>2. Outcome("make_response", Taken("make_response", ll, 14)) =
          "accepted"
    BY <1>2, <1>11, ClientOutcome
  <2> QED BY <2>1, <2>2
<1>13. Children(T[1]) = Due("make_response", 13, 2)
  BY <1>3, <1>7 DEF Due
<1>14. ASSUME NEW k \in 2..13, k % 2 = 0
       PROVE  /\ "make_response" \in Errors /\ k >= 10 => V(k) = {}
              /\ "make_response" \in Needs /\ k = 6 => V(k) # {}
  <2>1. k \in {2, 4, 6, 8, 10, 12}
    BY <1>14
  <2> HIDE DEF V
  <2> QED BY <1>3, <1>6, <2>1
<1> QED BY <1>2, <1>3, <1>5, <1>7, <1>8, <1>9, <1>10, <1>12, <1>13, <1>14
        DEF Legible, T

\* The client of the TA reads it to its end.
LEMMA TaResponseLegible ==
    ASSUME NEW ll, Typed("build_execute_response", ll)
    PROVE  Legible("build_execute_response", ll)
<1> DEFINE T == Items("build_execute_response", ll)
<1> DEFINE V(k) == WantsAt("build_execute_response", ll, k)
<1>1. ResponseTable(T)
  BY ResponseItems
<1> HIDE DEF T
<1>2. /\ Reader("build_execute_response") = "twep_optee_parse_response"
      /\ Count("build_execute_response", ll) = 13
  BY <1>1 DEF Reader, ResponseTable, Count, T
<1>3. "build_execute_response" \notin Needs /\ "build_execute_response" \notin Errors
  BY DEF Needs, Errors
<1>4. /\ T[2].s = "schema_version" /\ T[4].s = "request_id" /\ T[6].s = "status"
      /\ T[8].s = "exit_code" /\ T[10].s = "stdout" /\ T[12].s = "app_output"
  BY <1>1, KeyKinds DEF ResponseTable
<1>5. ASSUME NEW k \in 2..13, k % 2 = 0
      PROVE  T[k].kind \in {"key", "short"} /\ T[k].s # NoKey
  <2>1. k \in {2, 4, 6, 8, 10, 12}
    BY <1>5
  <2>2. /\ T[2].kind = "key" /\ T[4].kind = "key" /\ T[6].kind = "key" /\ T[8].kind = "key"
        /\ T[10].kind = "key" /\ T[12].kind = "key"
    BY <1>1, KeyKinds DEF ResponseTable
  <2> QED BY <1>4, <2>1, <2>2 DEF NoKey
<1>6. /\ V(2) = {} /\ V(4) = {"text", "empty"} /\ V(6) = {} /\ V(8) = {} /\ V(10) = {} /\ V(12) = {}
  BY <1>2, <1>4, ResponseWants DEF WantsAt, T
<1>7. T[1].kind = "map" /\ Children(T[1]) = 12
  BY <1>1, FixedKinds DEF ResponseTable
<1>8. ASSUME NEW k \in 2..13 PROVE Children(T[k]) = Nested("build_execute_response", k)
  <2>1. k \in {2, 3, 4, 5, 6, 7, 8, 9, 10, 11, 12, 13}
    OBVIOUS
  <2>2. /\ Children(T[2]) = 0 /\ Children(T[4]) = 0 /\ Children(T[6]) = 0 /\ Children(T[7]) = 0
        /\ Children(T[8]) = 0 /\ Children(T[10]) = 0 /\ Children(T[12]) = 0
    BY <1>1, KeyKinds DEF ResponseTable
  <2>3. /\ Children(T[5]) = 0 /\ Children(T[11]) = 0 /\ Children(T[13]) = 0
    BY <1>1, FieldKinds DEF ResponseTable
  <2>4. /\ Children(T[3]) = 0 /\ Children(T[9]) = 0
    BY <1>1, FixedKinds DEF ResponseTable
  <2> QED BY <1>3, <2>1, <2>2, <2>3, <2>4 DEF Nested
<1>9. /\ (ll.request_id = 0 => Wire(T[5], ll) = "empty")
      /\ (ll.request_id # 0 => Wire(T[5], ll) = "text")
  BY <1>1, FieldWires DEF ResponseTable
<1>10. ASSUME NEW k \in 3..13, k % 2 = 1
       PROVE  \/ Fits("build_execute_response", ll, k)
  <2>1. k \in {3, 5, 7, 9, 11, 13}
    BY <1>10
  <2>2. Fits("build_execute_response", ll, k) <=> V(k - 1) = {} \/ Wire(T[k], ll) \in V(k - 1)
    BY DEF Fits, T
  <2> HIDE DEF V
  <2>3. V(k - 1) = {} \/ Wire(T[k], ll) \in V(k - 1)
    BY <1>6, <1>9, <2>1
  <2> QED BY <2>2, <2>3
<1>11. ~Strict("build_execute_response")
  BY <1>2 DEF Strict
<1>12. Taken("build_execute_response", ll, 14) =
         {"request_id"}
  <2>1. TakenAt("build_execute_response", ll, 14) = {4}
    <3>1. ASSUME NEW k \in 2..13, k % 2 = 0 
          PROVE  k \in {2, 4, 6, 8, 10, 12} /\ k + 1 < 14
      BY <3>1
    <3>2. TakenAt("build_execute_response", ll, 14) = {k \in 2..13 : k % 2 = 0 /\ V(k) # {}}
      BY <1>2, <3>1 DEF TakenAt
    <3> HIDE DEF V
    <3> QED BY <1>6, <3>1, <3>2
  <2> QED BY <1>4, <2>1 DEF Taken, T
<1>13. Outcome("build_execute_response", Taken("build_execute_response", ll, 14)) =
         Expected("build_execute_response")
  <2>1. Expected("build_execute_response") = "raw"
    BY DEF Expected
  <2>2. Outcome("build_execute_response", Taken("build_execute_response", ll, 14)) =
          "raw"
    BY <1>2, <1>12, ResponseOutcome
  <2> QED BY <2>1, <2>2
<1>14. Children(T[1]) = Due("build_execute_response", 13, 2)
  BY <1>3, <1>7 DEF Due
<1>15. ASSUME NEW k \in 2..13, k % 2 = 0
       PROVE  /\ "build_execute_response" \in Errors /\ k >= 10 => V(k) = {}
              /\ "build_execute_response" \in Needs /\ k = 6 => V(k) # {}
  <2>1. k \in {2, 4, 6, 8, 10, 12}
    BY <1>15
  <2> HIDE DEF V
  <2> QED BY <1>3, <1>6, <2>1
<1> QED BY <1>2, <1>3, <1>5, <1>7, <1>8, <1>10, <1>11, <1>13, <1>14, <1>15
        DEF Legible, T

\* The items of the response with the error of an application.
AppErrorTable(T, ll) ==
    /\ Len(T) = 23 /\ T[1] = Map(5) /\ T[2] = Key("schema_version") /\ T[3] = One
    /\ T[4] = Key("request_id") /\ T[5] = Text("request_id") /\ T[6] = Key("status")
    /\ T[7] = Key("error") /\ T[8] = Key("exit_code") /\ T[9] = One /\ T[10] = Key("error")
    /\ T[11] = Map(3) /\ T[12] = Short("code") /\ T[13] = Short(AppError(ll.return_code)[1])
    /\ T[14] = Short("message") /\ T[15] = Short(AppError(ll.return_code)[2])
    /\ T[16] = Short("details") /\ T[17] = Map(3) /\ T[18] = Short("return_code")
    /\ T[19] = Uint("return_code") /\ T[20] = Short("command") /\ T[21] = Text("command")
    /\ T[22] = Short("wasm_file") /\ T[23] = Text("wasm_file")

\* The items that are written are those of the table.
LEMMA AppErrorItems ==
    ASSUME NEW ll
    PROVE  AppErrorTable(Items("make_app_error_response", ll), ll)
BY DEF AppErrorTable, Items, make_app_error_response, Error

\* They take up what was computed for them, and one byte more.
LEMMA AppErrorFitting ==
    ASSUME NEW ll, Typed("make_app_error_response", ll)
    PROVE  Fitting("make_app_error_response", ll)
<1> DEFINE T == Items("make_app_error_response", ll)
<1> DEFINE Z == Items("make_app_error_response", NoFields)
<1> DEFINE W(k) == Written(T[k], ll)
<1>1. AppErrorTable(T, ll) /\ AppErrorTable(Z, NoFields)
  BY AppErrorItems
<1> HIDE DEF T, Z
<1>2. /\ ll.request_id \in Nat /\ ll.return_code \in Int /\ ll.command \in Nat
      /\ ll.wasm_file \in Nat
  <2>1. /\ Count("make_app_error_response", NoFields) = 23 /\ Z[5] = Text("request_id")
        /\ Z[19] = Uint("return_code") /\ Z[21] = Text("command") /\ Z[23] = Text("wasm_file")
        /\ {5, 19, 21, 23} \subseteq 1..23
    BY <1>1 DEF AppErrorTable, Count, Z
  <2> QED BY <2>1, FieldAt DEF Z
<1>3. /\ Len1(ll.request_id) \in Nat \ {0} /\ TypeLenSize(Magnitude(ll.return_code)) \in Nat \ {0}
      /\ Len1(ll.command) \in Nat \ {0} /\ Len1(ll.wasm_file) \in Nat \ {0}
  BY <1>2, Len1Size, FieldSizes
<1>4. /\ W(1) = 1 /\ W(2) = 15 /\ W(3) = 1 /\ W(4) = 11 /\ W(6) = 7 /\ W(7) = 6 /\ W(8) = 10
      /\ W(9) = 1 /\ W(10) = 6 /\ W(11) = 1 /\ W(12) = 5 /\ W(14) = 8 /\ W(16) = 8 /\ W(17) = 1
      /\ W(18) = 12 /\ W(20) = 8 /\ W(22) = 10
  BY <1>1, FixedSizes, LiteralSizes DEF AppErrorTable
<1>5. /\ W(5) = Len1(ll.request_id) /\ W(19) = TypeLenSize(Magnitude(ll.return_code))
      /\ W(21) = Len1(ll.command) /\ W(23) = Len1(ll.wasm_file)
  BY <1>1, <1>2, FieldSizes DEF AppErrorTable
<1> DEFINE c == Len(AppError(ll.return_code)[1])
<1> DEFINE d == Len(AppError(ll.return_code)[2])
<1>6. W(13) = 1 + c /\ c \in 0..23 /\ W(15) = 1 + d /\ d \in 0..23
  <2>1. T[13] = Short(AppError(ll.return_code)[1]) /\ T[15] = Short(AppError(ll.return_code)[2])
    BY <1>1 DEF AppErrorTable
  <2> QED BY <2>1, AppErrorTexts
<1> HIDE DEF W
<1>7. ASSUME NEW k \in 1..23 PROVE W(k) \in Nat \ {0}
  <2>1. k \in {1, 2, 3, 4, 5, 6, 7, 8, 9, 10, 11, 12, 13, 14, 15, 16, 17, 18, 19, 20, 21, 22, 23}
    OBVIOUS
  <2> HIDE DEF c, d
  <2> QED BY <1>3, <1>4, <1>5, <1>6, <2>1
<1>8. ASSUME NEW g, IsOffsets(g, "make_app_error_response", ll)
      PROVE  g[23] = 113 + Len1(ll.request_id) + c + d + TypeLenSize(Magnitude(ll.return_code)) +
                     Len1(ll.command) + Len1(ll.wasm_file)
  <2>1. Count("make_app_error_response", ll) = 23
    BY <1>1 DEF AppErrorTable, Count, T
  <2>2. g[0] = 0 /\ \A k \in 1..23 : g[k] = g[k - 1] + W(k)
    BY <1>8, <2>1 DEF IsOffsets, W, T
  <2>3. /\ g[1] = g[0] + W(1) /\ g[2] = g[1] + W(2) /\ g[3] = g[2] + W(3) /\ g[4] = g[3] + W(4)
        /\ g[5] = g[4] + W(5) /\ g[6] = g[5] + W(6) /\ g[7] = g[6] + W(7) /\ g[8] = g[7] + W(8)
        /\ g[9] = g[8] + W(9) /\ g[10] = g[9] + W(10) /\ g[11] = g[10] + W(11)
        /\ g[12] = g[11] + W(12) /\ g[13] = g[12] + W(13) /\ g[14] = g[13] + W(14)
        /\ g[15] = g[14] + W(15) /\ g[16] = g[15] + W(16) /\ g[17] = g[16] + W(17)
        /\ g[18] = g[17] + W(18) /\ g[19] = g[18] + W(19) /\ g[20] = g[19] + W(20)
        /\ g[21] = g[20] + W(21) /\ g[22] = g[21] + W(22) /\ g[23] = g[22] + W(23)
    BY <2>2
  <2> HIDE DEF c, d
  <2>4. g[6] = 35 + Len1(ll.request_id)
    BY <1>3, <1>4, <1>5, <1>6, <2>2, <2>3
  <2>5. g[12] = 64 + Len1(ll.request_id)
    BY <1>3, <1>4, <1>5, <1>6, <2>2, <2>3, <2>4
  <2>6. g[18] = 95 + Len1(ll.request_id) + c + d
    BY <1>3, <1>4, <1>5, <1>6, <2>2, <2>3, <2>5
  <2> QED BY <1>3, <1>4, <1>5, <1>6, <2>2, <2>3, <2>6
<1>9. Reserved("make_app_error_response", ll) =
          112 + Len1(ll.request_id) + c + d + TypeLenSize(Magnitude(ll.return_code)) +
          Len1(ll.command) + Len1(ll.wasm_file)
  <2>1. Reserved("make_app_error_response", ll) = AppErrorResponseLen(ll)
    BY DEF Reserved
  <2>2. AppErrorResponseLen(ll) =
          IdLen(ll) + 1 + 6 + 1 + 5 + 1 + 9 + 1 + 1 + 5
             + 1 + 4 + 1 + c + 1 + 7 + 1 + d + 1 + 7 + 1
             + 1 + 11 + TypeLenSize(Magnitude(ll.return_code))
             + 1 + 7 + Len1(ll.command) + 1 + 9 + Len1(ll.wasm_file)
    BY DEF AppErrorResponseLen
  <2> HIDE DEF c, d
  <2>3. IdLen(ll) = 28 + Len1(ll.request_id)
    BY <1>3 DEF IdLen
  <2>4. AppErrorResponseLen(ll) =
          112 + Len1(ll.request_id) + c + d + TypeLenSize(Magnitude(ll.return_code)) +
          Len1(ll.command) + Len1(ll.wasm_file)
    BY <1>3, <1>6, <2>2, <2>3
  <2> QED BY <2>1, <2>4
<1> HIDE DEF c, d
<1>10. "make_app_error_response" \notin ReportsReserved
  BY DEF ReportsReserved, TaBuilders
<1>11. Reserved("make_app_error_response", ll) \in Nat \ {0}
  BY <1>3, <1>6, <1>9
<1>12. ASSUME NEW g, IsOffsets(g, "make_app_error_response", ll)
       PROVE  /\ g[23] <=
                    Reserved("make_app_error_response", ll) + Excess("make_app_error_response")
              /\ "make_app_error_response" \in ReportsReserved =>
                    g[23] = Reserved("make_app_error_response", ll)
  BY <1>3, <1>6, <1>8, <1>9, <1>10, <1>12 DEF Excess
<1>13. Count("make_app_error_response", ll) = 23
  BY <1>1 DEF AppErrorTable, Count, T
<1>14. \A k \in 1..23 : Written(Items("make_app_error_response", ll)[k], ll) \in Nat \ {0}
  BY <1>7 DEF W, T
<1> QED BY <1>11, <1>12, <1>13, <1>14 DEF Fitting

\* The client takes it as it is.
LEMMA AppErrorLegible ==
    ASSUME NEW ll, Typed("make_app_error_response", ll)
    PROVE  Legible("make_app_error_response", ll)
<1> DEFINE T == Items("make_app_error_response", ll)
<1> DEFINE V(k) == WantsAt("make_app_error_response", ll, k)
<1>1. AppErrorTable(T, ll)
  BY AppErrorItems
<1> HIDE DEF T
<1>2. /\ Reader("make_app_error_response") = "client"
      /\ Count("make_app_error_response", ll) = 23
  BY <1>1 DEF Reader, AppErrorTable, Count, T
<1>3. "make_app_error_response" \notin Needs /\ "make_app_error_response" \in Errors
  BY DEF Needs, Errors
<1>4. /\ T[2].s = "schema_version" /\ T[4].s = "request_id" /\ T[6].s = "status"
      /\ T[8].s = "exit_code" /\ T[10].s = "error" /\ T[12].s = "code" /\ T[14].s = "message"
      /\ T[16].s = "details" /\ T[18].s = "return_code" /\ T[20].s = "command"
      /\ T[22].s = "wasm_file"
  BY <1>1, KeyKinds DEF AppErrorTable
<1>5. ASSUME NEW k \in 2..23, k % 2 = 0
      PROVE  T[k].kind \in {"key", "short"} /\ T[k].s # NoKey
  <2>1. k \in {2, 4, 6, 8, 10, 12, 14, 16, 18, 20, 22}
    BY <1>5
  <2>2. /\ T[2].kind = "key" /\ T[4].kind = "key" /\ T[6].kind = "key" /\ T[8].kind = "key"
        /\ T[10].kind = "key" /\ T[12].kind = "short" /\ T[14].kind = "short"
        /\ T[16].kind = "short" /\ T[18].kind = "short" /\ T[20].kind = "short"
        /\ T[22].kind = "short"
    BY <1>1, KeyKinds DEF AppErrorTable
  <2> QED BY <1>4, <2>1, <2>2 DEF NoKey
<1>6. /\ V(2) = {} /\ V(4) = {} /\ V(6) = {} /\ V(8) = {} /\ V(10) = {} /\ V(12) = {} /\ V(14) = {}
      /\ V(16) = {} /\ V(18) = {} /\ V(20) = {} /\ V(22) = {}
  BY <1>2, <1>4, ClientWants DEF WantsAt, T
<1>7. T[1].kind = "map" /\ Children(T[1]) = 10
  BY <1>1, FixedKinds DEF AppErrorTable
<1>8. ASSUME NEW k \in 2..23 PROVE Children(T[k]) = Nested("make_app_error_response", k)
  <2>1. k \in {2, 3, 4, 5, 6, 7, 8, 9, 10, 11, 12, 13, 14, 15, 16, 17, 18, 19, 20, 21, 22, 23}
    OBVIOUS
  <2>2. /\ Children(T[2]) = 0 /\ Children(T[4]) = 0 /\ Children(T[6]) = 0 /\ Children(T[7]) = 0
        /\ Children(T[8]) = 0 /\ Children(T[10]) = 0 /\ Children(T[12]) = 0 /\ Children(T[13]) = 0
        /\ Children(T[14]) = 0 /\ Children(T[15]) = 0 /\ Children(T[16]) = 0 /\ Children(T[18]) = 0
        /\ Children(T[20]) = 0 /\ Children(T[22]) = 0
    BY <1>1, KeyKinds DEF AppErrorTable
  <2>3. /\ Children(T[5]) = 0 /\ Children(T[19]) = 0 /\ Children(T[21]) = 0 /\ Children(T[23]) = 0
    BY <1>1, FieldKinds DEF AppErrorTable
  <2>4. /\ Children(T[3]) = 0 /\ Children(T[9]) = 0 /\ Children(T[11]) = 6 /\ Children(T[17]) = 6
    BY <1>1, FixedKinds DEF AppErrorTable
  <2> QED BY <1>3, <2>1, <2>2, <2>3, <2>4 DEF Nested
<1>9. ASSUME NEW k \in 3..23, k % 2 = 1
       PROVE  \/ Fits("make_app_error_response", ll, k)
  <2>1. k \in {3, 5, 7, 9, 11, 13, 15, 17, 19, 21, 23}
    BY <1>9
  <2>2. Fits("make_app_error_response", ll, k) <=> V(k - 1) = {} \/ Wire(T[k], ll) \in V(k - 1)
    BY DEF Fits, T
  <2> HIDE DEF V
  <2>3. V(k - 1) = {}
    BY <1>6, <2>1
  <2> QED BY <2>2, <2>3
<1>10. ~Strict("make_app_error_response")
  BY <1>2 DEF Strict
<1>11. Taken("make_app_error_response", ll, 24) =
         {}
  <2>1. TakenAt("make_app_error_response", ll, 24) = {}
    <3>1. ASSUME NEW k \in 2..23, k % 2 = 0 
          PROVE  k \in {2, 4, 6, 8, 10, 12, 14, 16, 18, 20, 22} /\ k + 1 < 24
      BY <3>1
    <3>2. TakenAt("make_app_error_response", ll, 24) = {k \in 2..23 : k % 2 = 0 /\ V(k) # {}}
      BY <1>2, <3>1 DEF TakenAt
    <3> HIDE DEF V
    <3> QED BY <1>6, <3>1, <3>2
  <2> QED BY <1>4, <2>1 DEF Taken, T
<1>12. Outcome("make_app_error_response", Taken("make_app_error_response", ll, 24)) =
         Expected("make_app_error_response")
  <2>1. Expected("make_app_error_response") = "accepted"
    BY DEF Expected
  <2>2. Outcome("make_app_error_response", Taken("make_app_error_response", ll, 24)) =
          "accepted"
    BY <1>2, <1>11, ClientOutcome
  <2> QED BY <2>1, <2>2
<1>13. Children(T[1]) = Due("make_app_error_response", 23, 2)
  BY <1>3, <1>7 DEF Due
<1>14. ASSUME NEW k \in 2..23, k % 2 = 0
       PROVE  /\ "make_app_error_response" \in Errors /\ k >= 10 => V(k) = {}
              /\ "make_app_error_response" \in Needs /\ k = 6 => V(k) # {}
  <2>1. k \in {2, 4, 6, 8, 10, 12, 14, 16, 18, 20, 22}
    BY <1>14
  <2> HIDE DEF V
  <2> QED BY <1>3, <1>6, <2>1
<1> QED BY <1>2, <1>3, <1>5, <1>7, <1>8, <1>9, <1>10, <1>12, <1>13, <1>14
        DEF Legible, T

\* The items of the response with the error of the Agent.
TeepErrorTable(T) ==
    /\ Len(T) = 23 /\ T[1] = Map(5) /\ T[2] = Key("schema_version") /\ T[3] = One
    /\ T[4] = Key("request_id") /\ T[5] = Text("request_id") /\ T[6] = Key("status")
    /\ T[7] = Key("error") /\ T[8] = Key("exit_code") /\ T[9] = One /\ T[10] = Key("error")
    /\ T[11] = Map(3) /\ T[12] = Key("code") /\ T[13] = Text("code") /\ T[14] = Key("message")
    /\ T[15] = Text("message") /\ T[16] = Key("details") /\ T[17] = Map(3) /\ T[18] = Key("source")
    /\ T[19] = Key("teep-agent") /\ T[20] = Key("teep_code") /\ T[21] = Text("code")
    /\ T[22] = Key("command") /\ T[23] = Text("command")

\* The items that are written are those of the table.
LEMMA TeepErrorItems ==
    ASSUME NEW ll
    PROVE  TeepErrorTable(Items("build_teep_error_execute_response", ll))
BY DEF TeepErrorTable, Items, build_teep_error_execute_response, Error

\* They take up what was computed for them.
LEMMA TeepErrorFitting ==
    ASSUME NEW ll, Typed("build_teep_error_execute_response", ll)
    PROVE  Fitting("build_teep_error_execute_response", ll)
<1> DEFINE T == Items("build_teep_error_execute_response", ll)
<1> DEFINE Z == Items("build_teep_error_execute_response", NoFields)
<1> DEFINE W(k) == Written(T[k], ll)
<1>1. TeepErrorTable(T) /\ TeepErrorTable(Z)
  BY TeepErrorItems
<1> HIDE DEF T, Z
<1>2. /\ ll.request_id \in Nat /\ ll.code \in Nat /\ ll.message \in Nat /\ ll.command \in Nat
  <2>1. /\ Count("build_teep_error_execute_response", NoFields) = 23 /\ Z[5] = Text("request_id")
        /\ Z[13] = Text("code") /\ Z[15] = Text("message") /\ Z[23] = Text("command")
        /\ {5, 13, 15, 23} \subseteq 1..23
    BY <1>1 DEF TeepErrorTable, Count, Z
  <2> QED BY <2>1, FieldAt DEF Z
<1>3. /\ Len1(ll.request_id) \in Nat \ {0} /\ Len1(ll.code) \in Nat \ {0}
      /\ Len1(ll.message) \in Nat \ {0} /\ Len1(ll.command) \in Nat \ {0}
  BY <1>2, Len1Size
<1>4. /\ W(1) = 1 /\ W(2) = 15 /\ W(3) = 1 /\ W(4) = 11 /\ W(6) = 7 /\ W(7) = 6 /\ W(8) = 10
      /\ W(9) = 1 /\ W(10) = 6 /\ W(11) = 1 /\ W(12) = 5 /\ W(14) = 8 /\ W(16) = 8 /\ W(17) = 1
      /\ W(18) = 7 /\ W(19) = 11 /\ W(20) = 10 /\ W(22) = 8
  BY <1>1, FixedSizes, LiteralSizes DEF TeepErrorTable
<1>5. /\ W(5) = Len1(ll.request_id) /\ W(13) = Len1(ll.code) /\ W(15) = Len1(ll.message)
      /\ W(21) = Len1(ll.code) /\ W(23) = Len1(ll.command)
  BY <1>1, <1>2, FieldSizes DEF TeepErrorTable
<1> HIDE DEF W
<1>6. ASSUME NEW k \in 1..23 PROVE W(k) \in Nat \ {0}
  <2>1. k \in {1, 2, 3, 4, 5, 6, 7, 8, 9, 10, 11, 12, 13, 14, 15, 16, 17, 18, 19, 20, 21, 22, 23}
    OBVIOUS
  <2> QED BY <1>3, <1>4, <1>5, <2>1
<1>7. ASSUME NEW g, IsOffsets(g, "build_teep_error_execute_response", ll)
      PROVE  g[23] = 117 + Len1(ll.request_id) + Len1(ll.code) + Len1(ll.message) +
                     Len1(ll.code) + Len1(ll.command)
  <2>1. Count("build_teep_error_execute_response", ll) = 23
    BY <1>1 DEF TeepErrorTable, Count, T
  <2>2. g[0] = 0 /\ \A k \in 1..23 : g[k] = g[k - 1] + W(k)
    BY <1>7, <2>1 DEF IsOffsets, W, T
  <2>3. /\ g[1] = g[0] + W(1) /\ g[2] = g[1] + W(2) /\ g[3] = g[2] + W(3) /\ g[4] = g[3] + W(4)
        /\ g[5] = g[4] + W(5) /\ g[6] = g[5] + W(6) /\ g[7] = g[6] + W(7) /\ g[8] = g[7] + W(8)
        /\ g[9] = g[8] + W(9) /\ g[10] = g[9] + W(10) /\ g[11] = g[10] + W(11)
        /\ g[12] = g[11] + W(12) /\ g[13] = g[12] + W(13) /\ g[14] = g[13] + W(14)
        /\ g[15] = g[14] + W(15) /\ g[16] = g[15] + W(16) /\ g[17] = g[16] + W(17)
        /\ g[18] = g[17] + W(18) /\ g[19] = g[18] + W(19) /\ g[20] = g[19] + W(20)
        /\ g[21] = g[20] + W(21) /\ g[22] = g[21] + W(22) /\ g[23] = g[22] + W(23)
    BY <2>2
  <2>4. g[6] = 35 + Len1(ll.request_id)
    BY <1>3, <1>4, <1>5, <2>2, <2>3
  <2>5. g[12] = 64 + Len1(ll.request_id)
    BY <1>3, <1>4, <1>5, <2>2, <2>3, <2>4
  <2>6. g[18] = 88 + Len1(ll.request_id) + Len1(ll.code) + Len1(ll.message)
    BY <1>3, <1>4, <1>5, <2>2, <2>3, <2>5
  <2> QED BY <1>3, <1>4, <1>5, <2>2, <2>3, <2>6
<1>8. Reserved("build_teep_error_execute_response", ll) =
          117 + Len1(ll.request_id) + Len1(ll.code) + Len1(ll.message) + Len1(ll.code) +
          Len1(ll.command)
  <2>1. Reserved("build_teep_error_execute_response", ll) = TeepErrorResponseLen(ll)
    BY DEF Reserved
  <2> QED BY <1>3, <2>1, Len1Constants DEF TeepErrorResponseLen, IdLen
<1>9. Reserved("build_teep_error_execute_response", ll) \in Nat \ {0}
  BY <1>3, <1>8
<1>10. ASSUME NEW g, IsOffsets(g, "build_teep_error_execute_response", ll)
       PROVE  /\ g[23] <=
                    Reserved("build_teep_error_execute_response", ll)
                      + Excess("build_teep_error_execute_response")
              /\ "build_teep_error_execute_response" \in ReportsReserved =>
                    g[23] = Reserved("build_teep_error_execute_response", ll)
  BY <1>3, <1>7, <1>8, <1>10 DEF Excess
<1>11. Count("build_teep_error_execute_response", ll) = 23
  BY <1>1 DEF TeepErrorTable, Count, T
<1>12. \A k \in 1..23 : Written(Items("build_teep_error_execute_response", ll)[k], ll) \in Nat \ {0}
  BY <1>6 DEF W, T
<1> QED BY <1>9, <1>10, <1>11, <1>12 DEF Fitting

\* The client of the TA reads it to its end.
LEMMA TeepErrorLegible ==
    ASSUME NEW ll, Typed("build_teep_error_execute_response", ll)
    PROVE  Legible("build_teep_error_execute_response", ll)
<1> DEFINE T == Items("build_teep_error_execute_response", ll)
<1> DEFINE V(k) == WantsAt("build_teep_error_execute_response", ll, k)
<1>1. TeepErrorTable(T)
  BY TeepErrorItems
<1> HIDE DEF T
<1>2. /\ Reader("build_teep_error_execute_response") = "twep_optee_parse_response"
      /\ Count("build_teep_error_execute_response", ll) = 23
  BY <1>1 DEF Reader, TeepErrorTable, Count, T
<1>3. "build_teep_error_execute_response" \notin Needs
      /\ "build_teep_error_execute_response" \in Errors
  BY DEF Needs, Errors
<1>4. /\ T[2].s = "schema_version" /\ T[4].s = "request_id" /\ T[6].s = "status"
      /\ T[8].s = "exit_code" /\ T[10].s = "error" /\ T[12].s = "code" /\ T[14].s = "message"
      /\ T[16].s = "details" /\ T[18].s = "source" /\ T[20].s = "teep_code" /\ T[22].s = "command"
  BY <1>1, KeyKinds DEF TeepErrorTable
<1>5. ASSUME NEW k \in 2..23, k % 2 = 0
      PROVE  T[k].kind \in {"key", "short"} /\ T[k].s # NoKey
  <2>1. k \in {2, 4, 6, 8, 10, 12, 14, 16, 18, 20, 22}
    BY <1>5
  <2>2. /\ T[2].kind = "key" /\ T[4].kind = "key" /\ T[6].kind = "key" /\ T[8].kind = "key"
        /\ T[10].kind = "key" /\ T[12].kind = "key" /\ T[14].kind = "key" /\ T[16].kind = "key"
        /\ T[18].kind = "key" /\ T[20].kind = "key" /\ T[22].kind = "key"
    BY <1>1, KeyKinds DEF TeepErrorTable
  <2> QED BY <1>4, <2>1, <2>2 DEF NoKey
<1>6. /\ V(2) = {} /\ V(4) = {"text", "empty"} /\ V(6) = {} /\ V(8) = {} /\ V(10) = {} /\ V(12) = {}
      /\ V(14) = {} /\ V(16) = {} /\ V(18) = {} /\ V(20) = {} /\ V(22) = {}
  BY <1>2, <1>4, ResponseWants DEF WantsAt, T
<1>7. T[1].kind = "map" /\ Children(T[1]) = 10
  BY <1>1, FixedKinds DEF TeepErrorTable
<1>8. ASSUME NEW k \in 2..23 PROVE Children(T[k]) = Nested("build_teep_error_execute_response", k)
  <2>1. k \in {2, 3, 4, 5, 6, 7, 8, 9, 10, 11, 12, 13, 14, 15, 16, 17, 18, 19, 20, 21, 22, 23}
    OBVIOUS
  <2>2. /\ Children(T[2]) = 0 /\ Children(T[4]) = 0 /\ Children(T[6]) = 0 /\ Children(T[7]) = 0
        /\ Children(T[8]) = 0 /\ Children(T[10]) = 0 /\ Children(T[12]) = 0 /\ Children(T[14]) = 0
        /\ Children(T[16]) = 0 /\ Children(T[18]) = 0 /\ Children(T[19]) = 0 /\ Children(T[20]) = 0
        /\ Children(T[22]) = 0
    BY <1>1, KeyKinds DEF TeepErrorTable
  <2>3. /\ Children(T[5]) = 0 /\ Children(T[13]) = 0 /\ Children(T[15]) = 0 /\ Children(T[21]) = 0
        /\ Children(T[23]) = 0
    BY <1>1, FieldKinds DEF TeepErrorTable
  <2>4. /\ Children(T[3]) = 0 /\ Children(T[9]) = 0 /\ Children(T[11]) = 6 /\ Children(T[17]) = 6
    BY <1>1, FixedKinds DEF TeepErrorTable
  <2> QED BY <1>3, <2>1, <2>2, <2>3, <2>4 DEF Nested
<1>9. /\ (ll.request_id = 0 => Wire(T[5], ll) = "empty")
      /\ (ll.request_id # 0 => Wire(T[5], ll) = "text")
  BY <1>1, FieldWires DEF TeepErrorTable
<1>10. ASSUME NEW k \in 3..23, k % 2 = 1
       PROVE  \/ Fits("build_teep_error_execute_response", ll, k)
  <2>1. k \in {3, 5, 7, 9, 11, 13, 15, 17, 19, 21, 23}
    BY <1>10
  <2>2. Fits("build_teep_error_execute_response", ll, k) <=>
          V(k - 1) = {} \/ Wire(T[k], ll) \in V(k - 1)
    BY DEF Fits, T
  <2> HIDE DEF V
  <2>3. V(k - 1) = {} \/ Wire(T[k], ll) \in V(k - 1)
    BY <1>6, <1>9, <2>1
  <2> QED BY <2>2, <2>3
<1>11. ~Strict("build_teep_error_execute_response")
  BY <1>2 DEF Strict
<1>12. Taken("build_teep_error_execute_response", ll, 24) =
         {"request_id"}
  <2>1. TakenAt("build_teep_error_execute_response", ll, 24) = {4}
    <3>1. ASSUME NEW k \in 2..23, k % 2 = 0 
          PROVE  k \in {2, 4, 6, 8, 10, 12, 14, 16, 18, 20, 22} /\ k + 1 < 24
      BY <3>1
    <3>2. TakenAt("build_teep_error_execute_response", ll, 24) =
            {k \in 2..23 : k % 2 = 0 /\ V(k) # {}}
      BY <1>2, <3>1 DEF TakenAt
    <3> HIDE DEF V
    <3> QED BY <1>6, <3>1, <3>2
  <2> QED BY <1>4, <2>1 DEF Taken, T
<1>13. Outcome("build_teep_error_execute_response",
               Taken("build_teep_error_execute_response", ll, 24)) =
         Expected("build_teep_error_execute_response")
  <2>1. Expected("build_teep_error_execute_response") = "raw"
    BY DEF Expected
  <2>2. Outcome("build_teep_error_execute_response",
                Taken("build_teep_error_execute_response", ll, 24)) =
          "raw"
    BY <1>2, <1>12, ResponseOutcome
  <2> QED BY <2>1, <2>2
<1>14. Children(T[1]) = Due("build_teep_error_execute_response", 23, 2)
  BY <1>3, <1>7 DEF Due
<1>15. ASSUME NEW k \in 2..23, k % 2 = 0
       PROVE  /\ "build_teep_error_execute_response" \in Errors /\ k >= 10 => V(k) = {}
              /\ "build_teep_error_execute_response" \in Needs /\ k = 6 => V(k) # {}
  <2>1. k \in {2, 4, 6, 8, 10, 12, 14, 16, 18, 20, 22}
    BY <1>15
  <2> HIDE DEF V
  <2> QED BY <1>3, <1>6, <2>1
<1> QED BY <1>2, <1>3, <1>5, <1>7, <1>8, <1>10, <1>11, <1>13, <1>14, <1>15
        DEF Legible, T

\* The items of the response with the error of the application runtime.
RuntimeErrorTable(T) ==
    /\ Len(T) = 23 /\ T[1] = Map(5) /\ T[2] = Key("schema_version") /\ T[3] = One
    /\ T[4] = Key("request_id") /\ T[5] = Text("request_id") /\ T[6] = Key("status")
    /\ T[7] = Key("error") /\ T[8] = Key("exit_code") /\ T[9] = One /\ T[10] = Key("error")
    /\ T[11] = Map(3) /\ T[12] = Key("code") /\ T[13] = Key("app.resource_limit")
    /\ T[14] = Key("message") /\ T[15] = Key(LimitText) /\ T[16] = Key("details") /\ T[17] = Map(3)
    /\ T[18] = Key("source") /\ T[19] = Key("app-runtime") /\ T[20] = Key("command")
    /\ T[21] = Text("command") /\ T[22] = Key("reason") /\ T[23] = Key("max_output_bytes")

\* The items that are written are those of the table.
LEMMA RuntimeErrorItems ==
    ASSUME NEW ll
    PROVE  RuntimeErrorTable(Items("build_app_runtime_error_execute_response", ll))
BY DEF RuntimeErrorTable, Items, build_app_runtime_error_execute_response, Error

\* They take up what was computed for them.
LEMMA RuntimeErrorFitting ==
    ASSUME NEW ll, Typed("build_app_runtime_error_execute_response", ll)
    PROVE  Fitting("build_app_runtime_error_execute_response", ll)
<1> DEFINE T == Items("build_app_runtime_error_execute_response", ll)
<1> DEFINE Z == Items("build_app_runtime_error_execute_response", NoFields)
<1> DEFINE W(k) == Written(T[k], ll)
<1>1. RuntimeErrorTable(T) /\ RuntimeErrorTable(Z)
  BY RuntimeErrorItems
<1> HIDE DEF T, Z
<1>2. /\ ll.request_id \in Nat /\ ll.command \in Nat
  <2>1. /\ Count("build_app_runtime_error_execute_response", NoFields) = 23
        /\ Z[5] = Text("request_id") /\ Z[21] = Text("command") /\ {5, 21} \subseteq 1..23
    BY <1>1 DEF RuntimeErrorTable, Count, Z
  <2> QED BY <2>1, FieldAt DEF Z
<1>3. /\ Len1(ll.request_id) \in Nat \ {0} /\ Len1(ll.command) \in Nat \ {0}
  BY <1>2, Len1Size
<1>4. /\ W(1) = 1 /\ W(2) = 15 /\ W(3) = 1 /\ W(4) = 11 /\ W(6) = 7 /\ W(7) = 6 /\ W(8) = 10
      /\ W(9) = 1 /\ W(10) = 6 /\ W(11) = 1 /\ W(12) = 5 /\ W(13) = 19 /\ W(14) = 8 /\ W(15) = 24
      /\ W(16) = 8 /\ W(17) = 1 /\ W(18) = 7 /\ W(19) = 12 /\ W(20) = 8 /\ W(22) = 7 /\ W(23) = 17
  BY <1>1, FixedSizes, LiteralSizes DEF RuntimeErrorTable
<1>5. /\ W(5) = Len1(ll.request_id) /\ W(21) = Len1(ll.command)
  BY <1>1, <1>2, FieldSizes DEF RuntimeErrorTable
<1> HIDE DEF W
<1>6. ASSUME NEW k \in 1..23 PROVE W(k) \in Nat \ {0}
  <2>1. k \in {1, 2, 3, 4, 5, 6, 7, 8, 9, 10, 11, 12, 13, 14, 15, 16, 17, 18, 19, 20, 21, 22, 23}
    OBVIOUS
  <2> QED BY <1>3, <1>4, <1>5, <2>1
<1>7. ASSUME NEW g, IsOffsets(g, "build_app_runtime_error_execute_response", ll)
      PROVE  g[23] = 175 + Len1(ll.request_id) + Len1(ll.command)
  <2>1. Count("build_app_runtime_error_execute_response", ll) = 23
    BY <1>1 DEF RuntimeErrorTable, Count, T
  <2>2. g[0] = 0 /\ \A k \in 1..23 : g[k] = g[k - 1] + W(k)
    BY <1>7, <2>1 DEF IsOffsets, W, T
  <2>3. /\ g[1] = g[0] + W(1) /\ g[2] = g[1] + W(2) /\ g[3] = g[2] + W(3) /\ g[4] = g[3] + W(4)
        /\ g[5] = g[4] + W(5) /\ g[6] = g[5] + W(6) /\ g[7] = g[6] + W(7) /\ g[8] = g[7] + W(8)
        /\ g[9] = g[8] + W(9) /\ g[10] = g[9] + W(10) /\ g[11] = g[10] + W(11)
        /\ g[12] = g[11] + W(12) /\ g[13] = g[12] + W(13) /\ g[14] = g[13] + W(14)
        /\ g[15] = g[14] + W(15) /\ g[16] = g[15] + W(16) /\ g[17] = g[16] + W(17)
        /\ g[18] = g[17] + W(18) /\ g[19] = g[18] + W(19) /\ g[20] = g[19] + W(20)
        /\ g[21] = g[20] + W(21) /\ g[22] = g[21] + W(22) /\ g[23] = g[22] + W(23)
    BY <2>2
  <2>4. g[6] = 35 + Len1(ll.request_id)
    BY <1>3, <1>4, <1>5, <2>2, <2>3
  <2>5. g[12] = 64 + Len1(ll.request_id)
    BY <1>3, <1>4, <1>5, <2>2, <2>3, <2>4
  <2>6. g[18] = 131 + Len1(ll.request_id)
    BY <1>3, <1>4, <1>5, <2>2, <2>3, <2>5
  <2> QED BY <1>3, <1>4, <1>5, <2>2, <2>3, <2>6
<1>8. Reserved("build_app_runtime_error_execute_response", ll) =
          175 + Len1(ll.request_id) + Len1(ll.command)
  <2>1. Reserved("build_app_runtime_error_execute_response", ll) = AppRuntimeErrorResponseLen(ll)
    BY DEF Reserved
  <2> QED BY <1>3, <2>1, Len1Constants DEF AppRuntimeErrorResponseLen, IdLen
<1>9. Reserved("build_app_runtime_error_execute_response", ll) \in Nat \ {0}
  BY <1>3, <1>8
<1>10. ASSUME NEW g, IsOffsets(g, "build_app_runtime_error_execute_response", ll)
       PROVE  /\ g[23] <=
                    Reserved("build_app_runtime_error_execute_response", ll)
                      + Excess("build_app_runtime_error_execute_response")
              /\ "build_app_runtime_error_execute_response" \in ReportsReserved =>
                    g[23] = Reserved("build_app_runtime_error_execute_response", ll)
  BY <1>3, <1>7, <1>8, <1>10 DEF Excess
<1>11. Count("build_app_runtime_error_execute_response", ll) = 23
  BY <1>1 DEF RuntimeErrorTable, Count, T
<1>12. \A k \in 1..23 :
         Written(Items("build_app_runtime_error_execute_response", ll)[k], ll) \in Nat \ {0}
  BY <1>6 DEF W, T
<1> QED BY <1>9, <1>10, <1>11, <1>12 DEF Fitting

\* The client of the TA reads it to its end.
LEMMA RuntimeErrorLegible ==
    ASSUME NEW ll, Typed("build_app_runtime_error_execute_response", ll)
    PROVE  Legible("build_app_runtime_error_execute_response", ll)
<1> DEFINE T == Items("build_app_runtime_error_execute_response", ll)
<1> DEFINE V(k) == WantsAt("build_app_runtime_error_execute_response", ll, k)
<1>1. RuntimeErrorTable(T)
  BY RuntimeErrorItems
<1> HIDE DEF T
<1>2. /\ Reader("build_app_runtime_error_execute_response") = "twep_optee_parse_response"
      /\ Count("build_app_runtime_error_execute_response", ll) = 23
  BY <1>1 DEF Reader, RuntimeErrorTable, Count, T
<1>3. "build_app_runtime_error_execute_response" \notin Needs
      /\ "build_app_runtime_error_execute_response" \in Errors
  BY DEF Needs, Errors
<1>4. /\ T[2].s = "schema_version" /\ T[4].s = "request_id" /\ T[6].s = "status"
      /\ T[8].s = "exit_code" /\ T[10].s = "error" /\ T[12].s = "code" /\ T[14].s = "message"
      /\ T[16].s = "details" /\ T[18].s = "source" /\ T[20].s = "command" /\ T[22].s = "reason"
  BY <1>1, KeyKinds DEF RuntimeErrorTable
<1>5. ASSUME NEW k \in 2..23, k % 2 = 0
      PROVE  T[k].kind \in {"key", "short"} /\ T[k].s # NoKey
  <2>1. k \in {2, 4, 6, 8, 10, 12, 14, 16, 18, 20, 22}
    BY <1>5
  <2>2. /\ T[2].kind = "key" /\ T[4].kind = "key" /\ T[6].kind = "key" /\ T[8].kind = "key"
        /\ T[10].kind = "key" /\ T[12].kind = "key" /\ T[14].kind = "key" /\ T[16].kind = "key"
        /\ T[18].kind = "key" /\ T[20].kind = "key" /\ T[22].kind = "key"
    BY <1>1, KeyKinds DEF RuntimeErrorTable
  <2> QED BY <1>4, <2>1, <2>2 DEF NoKey
<1>6. /\ V(2) = {} /\ V(4) = {"text", "empty"} /\ V(6) = {} /\ V(8) = {} /\ V(10) = {} /\ V(12) = {}
      /\ V(14) = {} /\ V(16) = {} /\ V(18) = {} /\ V(20) = {} /\ V(22) = {}
  BY <1>2, <1>4, ResponseWants DEF WantsAt, T
<1>7. T[1].kind = "map" /\ Children(T[1]) = 10
  BY <1>1, FixedKinds DEF RuntimeErrorTable
<1>8. ASSUME NEW k \in 2..23
      PROVE Children(T[k]) = Nested("build_app_runtime_error_execute_response", k)
  <2>1. k \in {2, 3, 4, 5, 6, 7, 8, 9, 10, 11, 12, 13, 14, 15, 16, 17, 18, 19, 20, 21, 22, 23}
    OBVIOUS
  <2>2. /\ Children(T[2]) = 0 /\ Children(T[4]) = 0 /\ Children(T[6]) = 0 /\ Children(T[7]) = 0
        /\ Children(T[8]) = 0 /\ Children(T[10]) = 0 /\ Children(T[12]) = 0 /\ Children(T[13]) = 0
        /\ Children(T[14]) = 0 /\ Children(T[15]) = 0 /\ Children(T[16]) = 0 /\ Children(T[18]) = 0
        /\ Children(T[19]) = 0 /\ Children(T[20]) = 0 /\ Children(T[22]) = 0 /\ Children(T[23]) = 0
    BY <1>1, KeyKinds DEF RuntimeErrorTable
  <2>3. /\ Children(T[5]) = 0 /\ Children(T[21]) = 0
    BY <1>1, FieldKinds DEF RuntimeErrorTable
  <2>4. /\ Children(T[3]) = 0 /\ Children(T[9]) = 0 /\ Children(T[11]) = 6 /\ Children(T[17]) = 6
    BY <1>1, FixedKinds DEF RuntimeErrorTable
  <2> QED BY <1>3, <2>1, <2>2, <2>3, <2>4 DEF Nested
<1>9. /\ (ll.request_id = 0 => Wire(T[5], ll) = "empty")
      /\ (ll.request_id # 0 => Wire(T[5], ll) = "text")
  BY <1>1, FieldWires DEF RuntimeErrorTable
<1>10. ASSUME NEW k \in 3..23, k % 2 = 1
       PROVE  \/ Fits("build_app_runtime_error_execute_response", ll, k)
  <2>1. k \in {3, 5, 7, 9, 11, 13, 15, 17, 19, 21, 23}
    BY <1>10
  <2>2. Fits("build_app_runtime_error_execute_response", ll, k) <=>
          V(k - 1) = {} \/ Wire(T[k], ll) \in V(k - 1)
    BY DEF Fits, T
  <2> HIDE DEF V
  <2>3. V(k - 1) = {} \/ Wire(T[k], ll) \in V(k - 1)
    BY <1>6, <1>9, <2>1
  <2> QED BY <2>2, <2>3
<1>11. ~Strict("build_app_runtime_error_execute_response")
  BY <1>2 DEF Strict
<1>12. Taken("build_app_runtime_error_execute_response", ll, 24) =
         {"request_id"}
  <2>1. TakenAt("build_app_runtime_error_execute_response", ll, 24) = {4}
    <3>1. ASSUME NEW k \in 2..23, k % 2 = 0 
          PROVE  k \in {2, 4, 6, 8, 10, 12, 14, 16, 18, 20, 22} /\ k + 1 < 24
      BY <3>1
    <3>2. TakenAt("build_app_runtime_error_execute_response", ll, 24) =
            {k \in 2..23 : k % 2 = 0 /\ V(k) # {}}
      BY <1>2, <3>1 DEF TakenAt
    <3> HIDE DEF V
    <3> QED BY <1>6, <3>1, <3>2
  <2> QED BY <1>4, <2>1 DEF Taken, T
<1>13. Outcome("build_app_runtime_error_execute_response",
               Taken("build_app_runtime_error_execute_response", ll, 24)) =
         Expected("build_app_runtime_error_execute_response")
  <2>1. Expected("build_app_runtime_error_execute_response") = "raw"
    BY DEF Expected
  <2>2. Outcome("build_app_runtime_error_execute_response",
                Taken("build_app_runtime_error_execute_response", ll, 24)) =
          "raw"
    BY <1>2, <1>12, ResponseOutcome
  <2> QED BY <2>1, <2>2
<1>14. Children(T[1]) = Due("build_app_runtime_error_execute_response", 23, 2)
  BY <1>3, <1>7 DEF Due
<1>15. ASSUME NEW k \in 2..23, k % 2 = 0
       PROVE  /\ "build_app_runtime_error_execute_response" \in Errors /\ k >= 10 => V(k) = {}
              /\ "build_app_runtime_error_execute_response" \in Needs /\ k = 6 => V(k) # {}
  <2>1. k \in {2, 4, 6, 8, 10, 12, 14, 16, 18, 20, 22}
    BY <1>15
  <2> HIDE DEF V
  <2> QED BY <1>3, <1>6, <2>1
<1> QED BY <1>2, <1>3, <1>5, <1>7, <1>8, <1>10, <1>11, <1>13, <1>14, <1>15
        DEF Legible, T

\* The items of the wrapper of a final response.
FinalTable(T) ==
    /\ Len(T) = 7 /\ T[1] = Map(3) /\ T[2] = Key("schema_version") /\ T[3] = One
    /\ T[4] = Key("request_id") /\ T[5] = Text("request_id") /\ T[6] = Key("final_response_cbor")
    /\ T[7] = Bytes("final_response_cbor")

\* The items that are written are those of the table.
LEMMA FinalItems ==
    ASSUME NEW ll
    PROVE  FinalTable(Items("build_final_response_wrapper", ll))
BY DEF FinalTable, Items, build_final_response_wrapper

\* They take up what was computed for them.
LEMMA FinalFitting ==
    ASSUME NEW ll, Typed("build_final_response_wrapper", ll)
    PROVE  Fitting("build_final_response_wrapper", ll)
<1> DEFINE T == Items("build_final_response_wrapper", ll)
<1> DEFINE Z == Items("build_final_response_wrapper", NoFields)
<1> DEFINE W(k) == Written(T[k], ll)
<1>1. FinalTable(T) /\ FinalTable(Z)
  BY FinalItems
<1> HIDE DEF T, Z
<1>2. /\ ll.request_id \in Nat /\ ll.final_response_cbor \in Nat
  <2>1. /\ Count("build_final_response_wrapper", NoFields) = 7 /\ Z[5] = Text("request_id")
        /\ Z[7] = Bytes("final_response_cbor") /\ {5, 7} \subseteq 1..7
    BY <1>1 DEF FinalTable, Count, Z
  <2> QED BY <2>1, FieldAt DEF Z
<1>3. /\ Len1(ll.request_id) \in Nat \ {0} /\ Len1(ll.final_response_cbor) \in Nat \ {0}
  BY <1>2, Len1Size
<1>4. /\ W(1) = 1 /\ W(2) = 15 /\ W(3) = 1 /\ W(4) = 11 /\ W(6) = 20
  BY <1>1, FixedSizes, LiteralSizes DEF FinalTable
<1>5. /\ W(5) = Len1(ll.request_id) /\ W(7) = Len1(ll.final_response_cbor)
  BY <1>1, <1>2, FieldSizes DEF FinalTable
<1> HIDE DEF W
<1>6. ASSUME NEW k \in 1..7 PROVE W(k) \in Nat \ {0}
  <2>1. k \in {1, 2, 3, 4, 5, 6, 7}
    OBVIOUS
  <2> QED BY <1>3, <1>4, <1>5, <2>1
<1>7. ASSUME NEW g, IsOffsets(g, "build_final_response_wrapper", ll)
      PROVE  g[7] = 48 + Len1(ll.request_id) + Len1(ll.final_response_cbor)
  <2>1. Count("build_final_response_wrapper", ll) = 7
    BY <1>1 DEF FinalTable, Count, T
  <2>2. g[0] = 0 /\ \A k \in 1..7 : g[k] = g[k - 1] + W(k)
    BY <1>7, <2>1 DEF IsOffsets, W, T
  <2>3. /\ g[1] = g[0] + W(1) /\ g[2] = g[1] + W(2) /\ g[3] = g[2] + W(3) /\ g[4] = g[3] + W(4)
        /\ g[5] = g[4] + W(5) /\ g[6] = g[5] + W(6) /\ g[7] = g[6] + W(7)
    BY <2>2
  <2> QED BY <1>3, <1>4, <1>5, <2>2, <2>3
<1>8. Reserved("build_final_response_wrapper", ll) =
          48 + Len1(ll.request_id) + Len1(ll.final_response_cbor)
  <2>1. Reserved("build_final_response_wrapper", ll) = FinalResponseWrapperLen(ll)
    BY DEF Reserved
  <2> QED BY <1>3, <2>1, Len1Constants DEF FinalResponseWrapperLen, IdLen
<1>9. Reserved("build_final_response_wrapper", ll) \in Nat \ {0}
  BY <1>3, <1>8
<1>10. ASSUME NEW g, IsOffsets(g, "build_final_response_wrapper", ll)
       PROVE  /\ g[7] <=
                    Reserved("build_final_response_wrapper", ll)
                      + Excess("build_final_response_wrapper")
              /\ "build_final_response_wrapper" \in ReportsReserved =>
                    g[7] = Reserved("build_final_response_wrapper", ll)
  BY <1>3, <1>7, <1>8, <1>10 DEF Excess
<1>11. Count("build_final_response_wrapper", ll) = 7
  BY <1>1 DEF FinalTable, Count, T
<1>12. \A k \in 1..7 : Written(Items("build_final_response_wrapper", ll)[k], ll) \in Nat \ {0}
  BY <1>6 DEF W, T
<1> QED BY <1>9, <1>10, <1>11, <1>12 DEF Fitting

\* The client of the TA reads it to its end.
LEMMA FinalLegible ==
    ASSUME NEW ll, Typed("build_final_response_wrapper", ll)
    PROVE  Legible("build_final_response_wrapper", ll)
<1> DEFINE T == Items("build_final_response_wrapper", ll)
<1> DEFINE V(k) == WantsAt("build_final_response_wrapper", ll, k)
<1>1. FinalTable(T)
  BY FinalItems
<1> HIDE DEF T
<1>2. /\ Reader("build_final_response_wrapper") = "twep_optee_parse_response"
      /\ Count("build_final_response_wrapper", ll) = 7
  BY <1>1 DEF Reader, FinalTable, Count, T
<1>3. "build_final_response_wrapper" \notin Needs /\ "build_final_response_wrapper" \notin Errors
  BY DEF Needs, Errors
<1>4. /\ T[2].s = "schema_version" /\ T[4].s = "request_id" /\ T[6].s = "final_response_cbor"
  BY <1>1, KeyKinds DEF FinalTable
<1>5. ASSUME NEW k \in 2..7, k % 2 = 0
      PROVE  T[k].kind \in {"key", "short"} /\ T[k].s # NoKey
  <2>1. k \in {2, 4, 6}
    BY <1>5
  <2>2. /\ T[2].kind = "key" /\ T[4].kind = "key" /\ T[6].kind = "key"
    BY <1>1, KeyKinds DEF FinalTable
  <2> QED BY <1>4, <2>1, <2>2 DEF NoKey
<1>6. /\ V(2) = {} /\ V(4) = {"text", "empty"} /\ V(6) = {"bytes"}
  BY <1>2, <1>4, ResponseWants DEF WantsAt, T
<1>7. T[1].kind = "map" /\ Children(T[1]) = 6
  BY <1>1, FixedKinds DEF FinalTable
<1>8. ASSUME NEW k \in 2..7 PROVE Children(T[k]) = Nested("build_final_response_wrapper", k)
  <2>1. k \in {2, 3, 4, 5, 6, 7}
    OBVIOUS
  <2>2. /\ Children(T[2]) = 0 /\ Children(T[4]) = 0 /\ Children(T[6]) = 0
    BY <1>1, KeyKinds DEF FinalTable
  <2>3. /\ Children(T[5]) = 0 /\ Children(T[7]) = 0
    BY <1>1, FieldKinds DEF FinalTable
  <2>4. /\ Children(T[3]) = 0
    BY <1>1, FixedKinds DEF FinalTable
  <2> QED BY <1>3, <2>1, <2>2, <2>3, <2>4 DEF Nested
<1>9. /\ (ll.request_id = 0 => Wire(T[5], ll) = "empty")
      /\ (ll.request_id # 0 => Wire(T[5], ll) = "text") /\ Wire(T[7], ll) = "bytes"
  BY <1>1, FieldWires DEF FinalTable
<1>10. ASSUME NEW k \in 3..7, k % 2 = 1
       PROVE  \/ Fits("build_final_response_wrapper", ll, k)
  <2>1. k \in {3, 5, 7}
    BY <1>10
  <2>2. Fits("build_final_response_wrapper", ll, k) <=> V(k - 1) = {} \/ Wire(T[k], ll) \in V(k - 1)
    BY DEF Fits, T
  <2> HIDE DEF V
  <2>3. V(k - 1) = {} \/ Wire(T[k], ll) \in V(k - 1)
    BY <1>6, <1>9, <2>1
  <2> QED BY <2>2, <2>3
<1>11. ~Strict("build_final_response_wrapper")
  BY <1>2 DEF Strict
<1>12. Taken("build_final_response_wrapper", ll, 8) =
         {"request_id", "final_response_cbor"}
  <2>1. TakenAt("build_final_response_wrapper", ll, 8) = {4, 6}
    <3>1. ASSUME NEW k \in 2..7, k % 2 = 0 
          PROVE  k \in {2, 4, 6} /\ k + 1 < 8
      BY <3>1
    <3>2. TakenAt("build_final_response_wrapper", ll, 8) = {k \in 2..7 : k % 2 = 0 /\ V(k) # {}}
      BY <1>2, <3>1 DEF TakenAt
    <3> HIDE DEF V
    <3> QED BY <1>6, <3>1, <3>2
  <2> QED BY <1>4, <2>1 DEF Taken, T
<1>13. Outcome("build_final_response_wrapper", Taken("build_final_response_wrapper", ll, 8)) =
         Expected("build_final_response_wrapper")
  <2>1. Expected("build_final_response_wrapper") = "FINAL"
    BY DEF Expected
  <2>2. Outcome("build_final_response_wrapper", Taken("build_final_response_wrapper", ll, 8)) =
          "FINAL"
    BY <1>2, <1>12, ResponseOutcome
  <2> QED BY <2>1, <2>2
<1>14. Children(T[1]) = Due("build_final_response_wrapper", 7, 2)
  BY <1>3, <1>7 DEF Due
<1>15. ASSUME NEW k \in 2..7, k % 2 = 0
       PROVE  /\ "build_final_response_wrapper" \in Errors /\ k >= 10 => V(k) = {}
              /\ "build_final_response_wrapper" \in Needs /\ k = 6 => V(k) # {}
  <2>1. k \in {2, 4, 6}
    BY <1>15
  <2> HIDE DEF V
  <2> QED BY <1>3, <1>6, <2>1
<1> QED BY <1>2, <1>3, <1>5, <1>7, <1>8, <1>10, <1>11, <1>13, <1>14, <1>15
        DEF Legible, T

\* The items of the request for an HTTP exchange.
NeedHttpTable(T) ==
    /\ Len(T) = 21 /\ T[1] = Map(3) /\ T[2] = Key("schema_version") /\ T[3] = One
    /\ T[4] = Key("request_id") /\ T[5] = Text("request_id") /\ T[6] = Key("need_host_io")
    /\ T[7] = Map(7) /\ T[8] = Key("io_id") /\ T[9] = Text("io_id") /\ T[10] = Key("kind")
    /\ T[11] = Key("http_post") /\ T[12] = Key("url") /\ T[13] = Text("url") /\ T[14] = Key("body")
    /\ T[15] = Bytes("body") /\ T[16] = Key("sequence") /\ T[17] = One
    /\ T[18] = Key("request_body_sha256") /\ T[19] = Digest
    /\ T[20] = Key("normalized_input_sha256") /\ T[21] = Digest

\* The items that are written are those of the table.
LEMMA NeedHttpItems ==
    ASSUME NEW ll
    PROVE  NeedHttpTable(Items("build_need_host_io_response", ll))
BY DEF NeedHttpTable, Items, build_need_host_io_response, NeedHostIo, NeedDigests

\* They take up what was computed for them.
LEMMA NeedHttpFitting ==
    ASSUME NEW ll, Typed("build_need_host_io_response", ll)
    PROVE  Fitting("build_need_host_io_response", ll)
<1> DEFINE T == Items("build_need_host_io_response", ll)
<1> DEFINE Z == Items("build_need_host_io_response", NoFields)
<1> DEFINE W(k) == Written(T[k], ll)
<1>1. NeedHttpTable(T) /\ NeedHttpTable(Z)
  BY NeedHttpItems
<1> HIDE DEF T, Z
<1>2. /\ ll.request_id \in Nat /\ ll.io_id \in Nat /\ ll.url \in Nat /\ ll.body \in Nat
  <2>1. /\ Count("build_need_host_io_response", NoFields) = 21 /\ Z[5] = Text("request_id")
        /\ Z[9] = Text("io_id") /\ Z[13] = Text("url") /\ Z[15] = Bytes("body")
        /\ {5, 9, 13, 15} \subseteq 1..21
    BY <1>1 DEF NeedHttpTable, Count, Z
  <2> QED BY <2>1, FieldAt DEF Z
<1>3. /\ Len1(ll.request_id) \in Nat \ {0} /\ Len1(ll.io_id) \in Nat \ {0}
      /\ Len1(ll.url) \in Nat \ {0} /\ Len1(ll.body) \in Nat \ {0}
  BY <1>2, Len1Size
<1>4. /\ W(1) = 1 /\ W(2) = 15 /\ W(3) = 1 /\ W(4) = 11 /\ W(6) = 13 /\ W(7) = 1 /\ W(8) = 6
      /\ W(10) = 5 /\ W(11) = 10 /\ W(12) = 4 /\ W(14) = 5 /\ W(16) = 9 /\ W(17) = 1 /\ W(18) = 20
      /\ W(19) = 34 /\ W(20) = 24 /\ W(21) = 34
  BY <1>1, FixedSizes, LiteralSizes DEF NeedHttpTable
<1>5. /\ W(5) = Len1(ll.request_id) /\ W(9) = Len1(ll.io_id) /\ W(13) = Len1(ll.url)
      /\ W(15) = Len1(ll.body)
  BY <1>1, <1>2, FieldSizes DEF NeedHttpTable
<1> HIDE DEF W
<1>6. ASSUME NEW k \in 1..21 PROVE W(k) \in Nat \ {0}
  <2>1. k \in {1, 2, 3, 4, 5, 6, 7, 8, 9, 10, 11, 12, 13, 14, 15, 16, 17, 18, 19, 20, 21}
    OBVIOUS
  <2> QED BY <1>3, <1>4, <1>5, <2>1
<1>7. ASSUME NEW g, IsOffsets(g, "build_need_host_io_response", ll)
      PROVE  g[21] = 194 + Len1(ll.request_id) + Len1(ll.io_id) + Len1(ll.url) + Len1(ll.body)
  <2>1. Count("build_need_host_io_response", ll) = 21
    BY <1>1 DEF NeedHttpTable, Count, T
  <2>2. g[0] = 0 /\ \A k \in 1..21 : g[k] = g[k - 1] + W(k)
    BY <1>7, <2>1 DEF IsOffsets, W, T
  <2>3. /\ g[1] = g[0] + W(1) /\ g[2] = g[1] + W(2) /\ g[3] = g[2] + W(3) /\ g[4] = g[3] + W(4)
        /\ g[5] = g[4] + W(5) /\ g[6] = g[5] + W(6) /\ g[7] = g[6] + W(7) /\ g[8] = g[7] + W(8)
        /\ g[9] = g[8] + W(9) /\ g[10] = g[9] + W(10) /\ g[11] = g[10] + W(11)
        /\ g[12] = g[11] + W(12) /\ g[13] = g[12] + W(13) /\ g[14] = g[13] + W(14)
        /\ g[15] = g[14] + W(15) /\ g[16] = g[15] + W(16) /\ g[17] = g[16] + W(17)
        /\ g[18] = g[17] + W(18) /\ g[19] = g[18] + W(19) /\ g[20] = g[19] + W(20)
        /\ g[21] = g[20] + W(21)
    BY <2>2
  <2>4. g[6] = 41 + Len1(ll.request_id)
    BY <1>3, <1>4, <1>5, <2>2, <2>3
  <2>5. g[12] = 67 + Len1(ll.request_id) + Len1(ll.io_id)
    BY <1>3, <1>4, <1>5, <2>2, <2>3, <2>4
  <2>6. g[18] = 102 + Len1(ll.request_id) + Len1(ll.io_id) + Len1(ll.url) + Len1(ll.body)
    BY <1>3, <1>4, <1>5, <2>2, <2>3, <2>5
  <2> QED BY <1>3, <1>4, <1>5, <2>2, <2>3, <2>6
<1>8. Reserved("build_need_host_io_response", ll) =
          194 + Len1(ll.request_id) + Len1(ll.io_id) + Len1(ll.url) + Len1(ll.body)
  <2>1. Reserved("build_need_host_io_response", ll) = NeedHostIoResponseLen(ll)
    BY DEF Reserved
  <2> QED BY <1>3, <2>1, Len1Constants DEF NeedHostIoResponseLen, IdLen, DigestsLen
<1>9. Reserved("build_need_host_io_response", ll) \in Nat \ {0}
  BY <1>3, <1>8
<1>10. ASSUME NEW g, IsOffsets(g, "build_need_host_io_response", ll)
       PROVE  /\ g[21] <=
                    Reserved("build_need_host_io_response", ll)
                      + Excess("build_need_host_io_response")
              /\ "build_need_host_io_response" \in ReportsReserved =>
                    g[21] = Reserved("build_need_host_io_response", ll)
  BY <1>3, <1>7, <1>8, <1>10 DEF Excess
<1>11. Count("build_need_host_io_response", ll) = 21
  BY <1>1 DEF NeedHttpTable, Count, T
<1>12. \A k \in 1..21 : Written(Items("build_need_host_io_response", ll)[k], ll) \in Nat \ {0}
  BY <1>6 DEF W, T
<1> QED BY <1>9, <1>10, <1>11, <1>12 DEF Fitting

\* The client of the TA reads it to its end.
LEMMA NeedHttpLegible ==
    ASSUME NEW ll, Typed("build_need_host_io_response", ll)
    PROVE  Legible("build_need_host_io_response", ll)
<1> DEFINE T == Items("build_need_host_io_response", ll)
<1> DEFINE V(k) == WantsAt("build_need_host_io_response", ll, k)
<1>1. NeedHttpTable(T)
  BY NeedHttpItems
<1> HIDE DEF T
<1>2. /\ Reader("build_need_host_io_response") = "twep_optee_parse_response"
      /\ Count("build_need_host_io_response", ll) = 21
  BY <1>1 DEF Reader, NeedHttpTable, Count, T
<1>3. "build_need_host_io_response" \in Needs /\ "build_need_host_io_response" \notin Errors
  BY DEF Needs, Errors
<1>4. /\ T[2].s = "schema_version" /\ T[4].s = "request_id" /\ T[6].s = "need_host_io"
      /\ T[8].s = "io_id" /\ T[10].s = "kind" /\ T[12].s = "url" /\ T[14].s = "body"
      /\ T[16].s = "sequence" /\ T[18].s = "request_body_sha256"
      /\ T[20].s = "normalized_input_sha256"
  BY <1>1, KeyKinds DEF NeedHttpTable
<1>5. ASSUME NEW k \in 2..21, k % 2 = 0
      PROVE  T[k].kind \in {"key", "short"} /\ T[k].s # NoKey
  <2>1. k \in {2, 4, 6, 8, 10, 12, 14, 16, 18, 20}
    BY <1>5
  <2>2. /\ T[2].kind = "key" /\ T[4].kind = "key" /\ T[6].kind = "key" /\ T[8].kind = "key"
        /\ T[10].kind = "key" /\ T[12].kind = "key" /\ T[14].kind = "key" /\ T[16].kind = "key"
        /\ T[18].kind = "key" /\ T[20].kind = "key"
    BY <1>1, KeyKinds DEF NeedHttpTable
  <2> QED BY <1>4, <2>1, <2>2 DEF NoKey
<1>6. /\ V(2) = {} /\ V(4) = {"text", "empty"} /\ V(6) = {"map"} /\ V(8) = {"text", "empty"}
      /\ V(10) = {"text", "empty"} /\ V(12) = {"text", "empty"} /\ V(14) = {"bytes"}
      /\ V(16) = {"uint", "one"} /\ V(18) = {"bytes"} /\ V(20) = {"bytes"}
  BY <1>2, <1>4, ResponseWants DEF WantsAt, T
<1>7. T[1].kind = "map" /\ Children(T[1]) = 6
  BY <1>1, FixedKinds DEF NeedHttpTable
<1>8. ASSUME NEW k \in 2..21 PROVE Children(T[k]) = Nested("build_need_host_io_response", k)
  <2>1. k \in {2, 3, 4, 5, 6, 7, 8, 9, 10, 11, 12, 13, 14, 15, 16, 17, 18, 19, 20, 21}
    OBVIOUS
  <2>2. /\ Children(T[2]) = 0 /\ Children(T[4]) = 0 /\ Children(T[6]) = 0 /\ Children(T[8]) = 0
        /\ Children(T[10]) = 0 /\ Children(T[11]) = 0 /\ Children(T[12]) = 0 /\ Children(T[14]) = 0
        /\ Children(T[16]) = 0 /\ Children(T[18]) = 0 /\ Children(T[20]) = 0
    BY <1>1, KeyKinds DEF NeedHttpTable
  <2>3. /\ Children(T[5]) = 0 /\ Children(T[9]) = 0 /\ Children(T[13]) = 0 /\ Children(T[15]) = 0
    BY <1>1, FieldKinds DEF NeedHttpTable
  <2>4. /\ Children(T[3]) = 0 /\ Children(T[7]) = 14 /\ Children(T[17]) = 0 /\ Children(T[19]) = 0
        /\ Children(T[21]) = 0
    BY <1>1, FixedKinds DEF NeedHttpTable
  <2> QED BY <1>3, <2>1, <2>2, <2>3, <2>4 DEF Nested
<1>9. /\ Wire(T[11], ll) = "text"
  <2>1. /\ Len("http_post") # 0
    BY TextLengths
  <2> QED BY <1>1, <2>1, KeyWires DEF NeedHttpTable
<1>10. /\ (ll.request_id = 0 => Wire(T[5], ll) = "empty")
      /\ (ll.request_id # 0 => Wire(T[5], ll) = "text")
      /\ (ll.io_id = 0 => Wire(T[9], ll) = "empty") /\ (ll.io_id # 0 => Wire(T[9], ll) = "text")
      /\ (ll.url = 0 => Wire(T[13], ll) = "empty") /\ (ll.url # 0 => Wire(T[13], ll) = "text")
      /\ Wire(T[15], ll) = "bytes"
  BY <1>1, FieldWires DEF NeedHttpTable
<1>11. /\ Wire(T[7], ll) = "map" /\ Wire(T[17], ll) = "one" /\ Wire(T[19], ll) = "bytes"
      /\ Wire(T[21], ll) = "bytes"
  BY <1>1, FixedWires DEF NeedHttpTable
<1>12. ASSUME NEW k \in 3..21, k % 2 = 1
       PROVE  \/ Fits("build_need_host_io_response", ll, k)
  <2>1. k \in {3, 5, 7, 9, 11, 13, 15, 17, 19, 21}
    BY <1>12
  <2>2. Fits("build_need_host_io_response", ll, k) <=> V(k - 1) = {} \/ Wire(T[k], ll) \in V(k - 1)
    BY DEF Fits, T
  <2> HIDE DEF V
  <2>3. V(k - 1) = {} \/ Wire(T[k], ll) \in V(k - 1)
    BY <1>6, <1>9, <1>10, <1>11, <2>1
  <2> QED BY <2>2, <2>3
<1>13. ~Strict("build_need_host_io_response")
  BY <1>2 DEF Strict
<1>14. Taken("build_need_host_io_response", ll, 22) =
         {"request_id", "need_host_io", "io_id", "kind", "url", "body", "sequence",
          "request_body_sha256", "normalized_input_sha256"}
  <2>1. TakenAt("build_need_host_io_response", ll, 22) = {4, 6, 8, 10, 12, 14, 16, 18, 20}
    <3>1. ASSUME NEW k \in 2..21, k % 2 = 0 
          PROVE  k \in {2, 4, 6, 8, 10, 12, 14, 16, 18, 20} /\ k + 1 < 22
      BY <3>1
    <3>2. TakenAt("build_need_host_io_response", ll, 22) = {k \in 2..21 : k % 2 = 0 /\ V(k) # {}}
      BY <1>2, <3>1 DEF TakenAt
    <3> HIDE DEF V
    <3> QED BY <1>6, <3>1, <3>2
  <2> QED BY <1>4, <2>1 DEF Taken, T
<1>15. Outcome("build_need_host_io_response", Taken("build_need_host_io_response", ll, 22)) =
         Expected("build_need_host_io_response")
  <2>1. Expected("build_need_host_io_response") = "NEED_HOST_IO"
    BY DEF Expected
  <2>2. Outcome("build_need_host_io_response", Taken("build_need_host_io_response", ll, 22)) =
          "NEED_HOST_IO"
    BY <1>2, <1>14, ResponseOutcome DEF NeedKeys
  <2> QED BY <2>1, <2>2
<1>16. Children(T[1]) = Due("build_need_host_io_response", 21, 2)
  BY <1>3, <1>7 DEF Due
<1>17. ASSUME NEW k \in 2..21, k % 2 = 0
       PROVE  /\ "build_need_host_io_response" \in Errors /\ k >= 10 => V(k) = {}
              /\ "build_need_host_io_response" \in Needs /\ k = 6 => V(k) # {}
  <2>1. k \in {2, 4, 6, 8, 10, 12, 14, 16, 18, 20}
    BY <1>17
  <2> HIDE DEF V
  <2> QED BY <1>3, <1>6, <2>1
<1> QED BY <1>2, <1>3, <1>5, <1>7, <1>8, <1>12, <1>13, <1>15, <1>16, <1>17
        DEF Legible, T

\* The items of the request for Evidence.
NeedEvidenceTable(T) ==
    /\ Len(T) = 21 /\ T[1] = Map(3) /\ T[2] = Key("schema_version") /\ T[3] = One
    /\ T[4] = Key("request_id") /\ T[5] = Text("request_id") /\ T[6] = Key("need_host_io")
    /\ T[7] = Map(7) /\ T[8] = Key("io_id") /\ T[9] = Key("teep-evidence-1") /\ T[10] = Key("kind")
    /\ T[11] = Key("create_evidence") /\ T[12] = Key("challenge") /\ T[13] = Bytes("challenge")
    /\ T[14] = Key("agent_public_key_cose") /\ T[15] = Bytes("agent_public_key_cose")
    /\ T[16] = Key("sequence") /\ T[17] = One /\ T[18] = Key("request_body_sha256")
    /\ T[19] = Digest /\ T[20] = Key("normalized_input_sha256") /\ T[21] = Digest

\* The items that are written are those of the table.
LEMMA NeedEvidenceItems ==
    ASSUME NEW ll
    PROVE  NeedEvidenceTable(Items("build_need_evidence_response_with_payload", ll))
BY DEF NeedEvidenceTable, Items, build_need_evidence_response_with_payload, NeedHostIo, NeedDigests

\* They take up what was computed for them.
LEMMA NeedEvidenceFitting ==
    ASSUME NEW ll, Typed("build_need_evidence_response_with_payload", ll)
    PROVE  Fitting("build_need_evidence_response_with_payload", ll)
<1> DEFINE T == Items("build_need_evidence_response_with_payload", ll)
<1> DEFINE Z == Items("build_need_evidence_response_with_payload", NoFields)
<1> DEFINE W(k) == Written(T[k], ll)
<1>1. NeedEvidenceTable(T) /\ NeedEvidenceTable(Z)
  BY NeedEvidenceItems
<1> HIDE DEF T, Z
<1>2. /\ ll.request_id \in Nat /\ ll.challenge \in Nat /\ ll.agent_public_key_cose \in Nat
  <2>1. /\ Count("build_need_evidence_response_with_payload", NoFields) = 21
        /\ Z[5] = Text("request_id") /\ Z[13] = Bytes("challenge")
        /\ Z[15] = Bytes("agent_public_key_cose") /\ {5, 13, 15} \subseteq 1..21
    BY <1>1 DEF NeedEvidenceTable, Count, Z
  <2> QED BY <2>1, FieldAt DEF Z
<1>3. /\ Len1(ll.request_id) \in Nat \ {0} /\ Len1(ll.challenge) \in Nat \ {0}
      /\ Len1(ll.agent_public_key_cose) \in Nat \ {0}
  BY <1>2, Len1Size
<1>4. /\ W(1) = 1 /\ W(2) = 15 /\ W(3) = 1 /\ W(4) = 11 /\ W(6) = 13 /\ W(7) = 1 /\ W(8) = 6
      /\ W(9) = 16 /\ W(10) = 5 /\ W(11) = 16 /\ W(12) = 10 /\ W(14) = 22 /\ W(16) = 9 /\ W(17) = 1
      /\ W(18) = 20 /\ W(19) = 34 /\ W(20) = 24 /\ W(21) = 34
  BY <1>1, FixedSizes, LiteralSizes DEF NeedEvidenceTable
<1>5. /\ W(5) = Len1(ll.request_id) /\ W(13) = Len1(ll.challenge)
      /\ W(15) = Len1(ll.agent_public_key_cose)
  BY <1>1, <1>2, FieldSizes DEF NeedEvidenceTable
<1> HIDE DEF W
<1>6. ASSUME NEW k \in 1..21 PROVE W(k) \in Nat \ {0}
  <2>1. k \in {1, 2, 3, 4, 5, 6, 7, 8, 9, 10, 11, 12, 13, 14, 15, 16, 17, 18, 19, 20, 21}
    OBVIOUS
  <2> QED BY <1>3, <1>4, <1>5, <2>1
<1>7. ASSUME NEW g, IsOffsets(g, "build_need_evidence_response_with_payload", ll)
      PROVE  g[21] = 239 + Len1(ll.request_id) + Len1(ll.challenge) +
                     Len1(ll.agent_public_key_cose)
  <2>1. Count("build_need_evidence_response_with_payload", ll) = 21
    BY <1>1 DEF NeedEvidenceTable, Count, T
  <2>2. g[0] = 0 /\ \A k \in 1..21 : g[k] = g[k - 1] + W(k)
    BY <1>7, <2>1 DEF IsOffsets, W, T
  <2>3. /\ g[1] = g[0] + W(1) /\ g[2] = g[1] + W(2) /\ g[3] = g[2] + W(3) /\ g[4] = g[3] + W(4)
        /\ g[5] = g[4] + W(5) /\ g[6] = g[5] + W(6) /\ g[7] = g[6] + W(7) /\ g[8] = g[7] + W(8)
        /\ g[9] = g[8] + W(9) /\ g[10] = g[9] + W(10) /\ g[11] = g[10] + W(11)
        /\ g[12] = g[11] + W(12) /\ g[13] = g[12] + W(13) /\ g[14] = g[13] + W(14)
        /\ g[15] = g[14] + W(15) /\ g[16] = g[15] + W(16) /\ g[17] = g[16] + W(17)
        /\ g[18] = g[17] + W(18) /\ g[19] = g[18] + W(19) /\ g[20] = g[19] + W(20)
        /\ g[21] = g[20] + W(21)
    BY <2>2
  <2>4. g[6] = 41 + Len1(ll.request_id)
    BY <1>3, <1>4, <1>5, <2>2, <2>3
  <2>5. g[12] = 95 + Len1(ll.request_id)
    BY <1>3, <1>4, <1>5, <2>2, <2>3, <2>4
  <2>6. g[18] = 147 + Len1(ll.request_id) + Len1(ll.challenge) + Len1(ll.agent_public_key_cose)
    BY <1>3, <1>4, <1>5, <2>2, <2>3, <2>5
  <2> QED BY <1>3, <1>4, <1>5, <2>2, <2>3, <2>6
<1>8. Reserved("build_need_evidence_response_with_payload", ll) =
          239 + Len1(ll.request_id) + Len1(ll.challenge) + Len1(ll.agent_public_key_cose)
  <2>1. Reserved("build_need_evidence_response_with_payload", ll) = NeedEvidenceResponseLen(ll)
    BY DEF Reserved
  <2> QED BY <1>3, <2>1, Len1Constants DEF NeedEvidenceResponseLen, IdLen, DigestsLen
<1>9. Reserved("build_need_evidence_response_with_payload", ll) \in Nat \ {0}
  BY <1>3, <1>8
<1>10. ASSUME NEW g, IsOffsets(g, "build_need_evidence_response_with_payload", ll)
       PROVE  /\ g[21] <=
                    Reserved("build_need_evidence_response_with_payload", ll)
                      + Excess("build_need_evidence_response_with_payload")
              /\ "build_need_evidence_response_with_payload" \in ReportsReserved =>
                    g[21] = Reserved("build_need_evidence_response_with_payload", ll)
  BY <1>3, <1>7, <1>8, <1>10 DEF Excess
<1>11. Count("build_need_evidence_response_with_payload", ll) = 21
  BY <1>1 DEF NeedEvidenceTable, Count, T
<1>12. \A k \in 1..21 :
         Written(Items("build_need_evidence_response_with_payload", ll)[k], ll) \in Nat \ {0}
  BY <1>6 DEF W, T
<1> QED BY <1>9, <1>10, <1>11, <1>12 DEF Fitting

\* The client of the TA reads it to its end.
LEMMA NeedEvidenceLegible ==
    ASSUME NEW ll, Typed("build_need_evidence_response_with_payload", ll)
    PROVE  Legible("build_need_evidence_response_with_payload", ll)
<1> DEFINE T == Items("build_need_evidence_response_with_payload", ll)
<1> DEFINE V(k) == WantsAt("build_need_evidence_response_with_payload", ll, k)
<1>1. NeedEvidenceTable(T)
  BY NeedEvidenceItems
<1> HIDE DEF T
<1>2. /\ Reader("build_need_evidence_response_with_payload") = "twep_optee_parse_response"
      /\ Count("build_need_evidence_response_with_payload", ll) = 21
  BY <1>1 DEF Reader, NeedEvidenceTable, Count, T
<1>3. "build_need_evidence_response_with_payload" \in Needs
      /\ "build_need_evidence_response_with_payload" \notin Errors
  BY DEF Needs, Errors
<1>4. /\ T[2].s = "schema_version" /\ T[4].s = "request_id" /\ T[6].s = "need_host_io"
      /\ T[8].s = "io_id" /\ T[10].s = "kind" /\ T[12].s = "challenge"
      /\ T[14].s = "agent_public_key_cose" /\ T[16].s = "sequence"
      /\ T[18].s = "request_body_sha256" /\ T[20].s = "normalized_input_sha256"
  BY <1>1, KeyKinds DEF NeedEvidenceTable
<1>5. ASSUME NEW k \in 2..21, k % 2 = 0
      PROVE  T[k].kind \in {"key", "short"} /\ T[k].s # NoKey
  <2>1. k \in {2, 4, 6, 8, 10, 12, 14, 16, 18, 20}
    BY <1>5
  <2>2. /\ T[2].kind = "key" /\ T[4].kind = "key" /\ T[6].kind = "key" /\ T[8].kind = "key"
        /\ T[10].kind = "key" /\ T[12].kind = "key" /\ T[14].kind = "key" /\ T[16].kind = "key"
        /\ T[18].kind = "key" /\ T[20].kind = "key"
    BY <1>1, KeyKinds DEF NeedEvidenceTable
  <2> QED BY <1>4, <2>1, <2>2 DEF NoKey
<1>6. /\ V(2) = {} /\ V(4) = {"text", "empty"} /\ V(6) = {"map"} /\ V(8) = {"text", "empty"}
      /\ V(10) = {"text", "empty"} /\ V(12) = {"bytes"} /\ V(14) = {"bytes"}
      /\ V(16) = {"uint", "one"} /\ V(18) = {"bytes"} /\ V(20) = {"bytes"}
  BY <1>2, <1>4, ResponseWants DEF WantsAt, T
<1>7. T[1].kind = "map" /\ Children(T[1]) = 6
  BY <1>1, FixedKinds DEF NeedEvidenceTable
<1>8. ASSUME NEW k \in 2..21
      PROVE Children(T[k]) = Nested("build_need_evidence_response_with_payload", k)
  <2>1. k \in {2, 3, 4, 5, 6, 7, 8, 9, 10, 11, 12, 13, 14, 15, 16, 17, 18, 19, 20, 21}
    OBVIOUS
  <2>2. /\ Children(T[2]) = 0 /\ Children(T[4]) = 0 /\ Children(T[6]) = 0 /\ Children(T[8]) = 0
        /\ Children(T[9]) = 0 /\ Children(T[10]) = 0 /\ Children(T[11]) = 0 /\ Children(T[12]) = 0
        /\ Children(T[14]) = 0 /\ Children(T[16]) = 0 /\ Children(T[18]) = 0 /\ Children(T[20]) = 0
    BY <1>1, KeyKinds DEF NeedEvidenceTable
  <2>3. /\ Children(T[5]) = 0 /\ Children(T[13]) = 0 /\ Children(T[15]) = 0
    BY <1>1, FieldKinds DEF NeedEvidenceTable
  <2>4. /\ Children(T[3]) = 0 /\ Children(T[7]) = 14 /\ Children(T[17]) = 0 /\ Children(T[19]) = 0
        /\ Children(T[21]) = 0
    BY <1>1, FixedKinds DEF NeedEvidenceTable
  <2> QED BY <1>3, <2>1, <2>2, <2>3, <2>4 DEF Nested
<1>9. /\ Wire(T[9], ll) = "text" /\ Wire(T[11], ll) = "text"
  <2>1. /\ Len("teep-evidence-1") # 0 /\ Len("create_evidence") # 0
    BY TextLengths
  <2> QED BY <1>1, <2>1, KeyWires DEF NeedEvidenceTable
<1>10. /\ (ll.request_id = 0 => Wire(T[5], ll) = "empty")
      /\ (ll.request_id # 0 => Wire(T[5], ll) = "text") /\ Wire(T[13], ll) = "bytes"
      /\ Wire(T[15], ll) = "bytes"
  BY <1>1, FieldWires DEF NeedEvidenceTable
<1>11. /\ Wire(T[7], ll) = "map" /\ Wire(T[17], ll) = "one" /\ Wire(T[19], ll) = "bytes"
      /\ Wire(T[21], ll) = "bytes"
  BY <1>1, FixedWires DEF NeedEvidenceTable
<1>12. ASSUME NEW k \in 3..21, k % 2 = 1
       PROVE  \/ Fits("build_need_evidence_response_with_payload", ll, k)
  <2>1. k \in {3, 5, 7, 9, 11, 13, 15, 17, 19, 21}
    BY <1>12
  <2>2. Fits("build_need_evidence_response_with_payload", ll, k) <=>
          V(k - 1) = {} \/ Wire(T[k], ll) \in V(k - 1)
    BY DEF Fits, T
  <2> HIDE DEF V
  <2>3. V(k - 1) = {} \/ Wire(T[k], ll) \in V(k - 1)
    BY <1>6, <1>9, <1>10, <1>11, <2>1
  <2> QED BY <2>2, <2>3
<1>13. ~Strict("build_need_evidence_response_with_payload")
  BY <1>2 DEF Strict
<1>14. Taken("build_need_evidence_response_with_payload", ll, 22) =
         {"request_id", "need_host_io", "io_id", "kind", "challenge", "agent_public_key_cose",
          "sequence", "request_body_sha256", "normalized_input_sha256"}
  <2>1. TakenAt("build_need_evidence_response_with_payload", ll, 22) =
          {4, 6, 8, 10, 12, 14, 16, 18, 20}
    <3>1. ASSUME NEW k \in 2..21, k % 2 = 0 
          PROVE  k \in {2, 4, 6, 8, 10, 12, 14, 16, 18, 20} /\ k + 1 < 22
      BY <3>1
    <3>2. TakenAt("build_need_evidence_response_with_payload", ll, 22) =
            {k \in 2..21 : k % 2 = 0 /\ V(k) # {}}
      BY <1>2, <3>1 DEF TakenAt
    <3> HIDE DEF V
    <3> QED BY <1>6, <3>1, <3>2
  <2> QED BY <1>4, <2>1 DEF Taken, T
<1>15. Outcome("build_need_evidence_response_with_payload",
               Taken("build_need_evidence_response_with_payload", ll, 22)) =
         Expected("build_need_evidence_response_with_payload")
  <2>1. Expected("build_need_evidence_response_with_payload") = "NEED_HOST_IO"
    BY DEF Expected
  <2>2. Outcome("build_need_evidence_response_with_payload",
                Taken("build_need_evidence_response_with_payload", ll, 22)) =
          "NEED_HOST_IO"
    BY <1>2, <1>14, ResponseOutcome DEF NeedKeys
  <2> QED BY <2>1, <2>2
<1>16. Children(T[1]) = Due("build_need_evidence_response_with_payload", 21, 2)
  BY <1>3, <1>7 DEF Due
<1>17. ASSUME NEW k \in 2..21, k % 2 = 0
       PROVE  /\ "build_need_evidence_response_with_payload" \in Errors /\ k >= 10 => V(k) = {}
              /\ "build_need_evidence_response_with_payload" \in Needs /\ k = 6 => V(k) # {}
  <2>1. k \in {2, 4, 6, 8, 10, 12, 14, 16, 18, 20}
    BY <1>17
  <2> HIDE DEF V
  <2> QED BY <1>3, <1>6, <2>1
<1> QED BY <1>2, <1>3, <1>5, <1>7, <1>8, <1>12, <1>13, <1>15, <1>16, <1>17
        DEF Legible, T

\* The items of the Agent's input, as the REE writes it.
ResolveReeTable(T) ==
    /\ Len(T) = 13 /\ T[1] = Map(6) /\ T[2] = Short("schema_version") /\ T[3] = One
    /\ T[4] = Short("command") /\ T[5] = Short("resolve_app") /\ T[6] = Short("target_command")
    /\ T[7] = Text("target_command") /\ T[8] = Short("resolver_mode")
    /\ T[9] = Text("resolver_mode") /\ T[10] = Short("state_dir") /\ T[11] = Text("state_dir")
    /\ T[12] = Short("attestam_url") /\ T[13] = Text("attestam_url")

\* The items that are written are those of the table.
LEMMA ResolveReeItems ==
    ASSUME NEW ll
    PROVE  ResolveReeTable(Items("make_teep_resolve_input", ll))
BY DEF ResolveReeTable, Items, make_teep_resolve_input

\* They take up what was computed for them.
LEMMA ResolveReeFitting ==
    ASSUME NEW ll, Typed("make_teep_resolve_input", ll)
    PROVE  Fitting("make_teep_resolve_input", ll)
<1> DEFINE T == Items("make_teep_resolve_input", ll)
<1> DEFINE Z == Items("make_teep_resolve_input", NoFields)
<1> DEFINE W(k) == Written(T[k], ll)
<1>1. ResolveReeTable(T) /\ ResolveReeTable(Z)
  BY ResolveReeItems
<1> HIDE DEF T, Z
<1>2. /\ ll.target_command \in Nat /\ ll.resolver_mode \in Nat /\ ll.state_dir \in Nat
      /\ ll.attestam_url \in Nat
  <2>1. /\ Count("make_teep_resolve_input", NoFields) = 13 /\ Z[7] = Text("target_command")
        /\ Z[9] = Text("resolver_mode") /\ Z[11] = Text("state_dir") /\ Z[13] = Text("attestam_url")
        /\ {7, 9, 11, 13} \subseteq 1..13
    BY <1>1 DEF ResolveReeTable, Count, Z
  <2> QED BY <2>1, FieldAt DEF Z
<1>3. /\ Len1(ll.target_command) \in Nat \ {0} /\ Len1(ll.resolver_mode) \in Nat \ {0}
      /\ Len1(ll.state_dir) \in Nat \ {0} /\ Len1(ll.attestam_url) \in Nat \ {0}
  BY <1>2, Len1Size
<1>4. /\ W(1) = 1 /\ W(2) = 15 /\ W(3) = 1 /\ W(4) = 8 /\ W(5) = 12 /\ W(6) = 15 /\ W(8) = 14
      /\ W(10) = 10 /\ W(12) = 13
  BY <1>1, FixedSizes, LiteralSizes DEF ResolveReeTable
<1>5. /\ W(7) = Len1(ll.target_command) /\ W(9) = Len1(ll.resolver_mode)
      /\ W(11) = Len1(ll.state_dir) /\ W(13) = Len1(ll.attestam_url)
  BY <1>1, <1>2, FieldSizes DEF ResolveReeTable
<1> HIDE DEF W
<1>6. ASSUME NEW k \in 1..13 PROVE W(k) \in Nat \ {0}
  <2>1. k \in {1, 2, 3, 4, 5, 6, 7, 8, 9, 10, 11, 12, 13}
    OBVIOUS
  <2> QED BY <1>3, <1>4, <1>5, <2>1
<1>7. ASSUME NEW g, IsOffsets(g, "make_teep_resolve_input", ll)
      PROVE  g[13] = 89 + Len1(ll.target_command) + Len1(ll.resolver_mode) + Len1(ll.state_dir) +
                     Len1(ll.attestam_url)
  <2>1. Count("make_teep_resolve_input", ll) = 13
    BY <1>1 DEF ResolveReeTable, Count, T
  <2>2. g[0] = 0 /\ \A k \in 1..13 : g[k] = g[k - 1] + W(k)
    BY <1>7, <2>1 DEF IsOffsets, W, T
  <2>3. /\ g[1] = g[0] + W(1) /\ g[2] = g[1] + W(2) /\ g[3] = g[2] + W(3) /\ g[4] = g[3] + W(4)
        /\ g[5] = g[4] + W(5) /\ g[6] = g[5] + W(6) /\ g[7] = g[6] + W(7) /\ g[8] = g[7] + W(8)
        /\ g[9] = g[8] + W(9) /\ g[10] = g[9] + W(10) /\ g[11] = g[10] + W(11)
        /\ g[12] = g[11] + W(12) /\ g[13] = g[12] + W(13)
    BY <2>2
  <2>4. g[6] = 52
    BY <1>3, <1>4, <1>5, <2>2, <2>3
  <2> QED BY <1>3, <1>4, <1>5, <2>2, <2>3, <2>4
<1>8. Reserved("make_teep_resolve_input", ll) =
          89 + Len1(ll.target_command) + Len1(ll.resolver_mode) + Len1(ll.state_dir) +
          Len1(ll.attestam_url)
  <2>1. Reserved("make_teep_resolve_input", ll) = TeepResolveInputLen(ll)
    BY DEF Reserved
  <2>2. /\ FieldLen("command", 11) = 8 + Len1(11)
        /\ FieldLen("target_command", ll.target_command) = 15 + Len1(ll.target_command)
        /\ FieldLen("resolver_mode", ll.resolver_mode) = 14 + Len1(ll.resolver_mode)
        /\ FieldLen("state_dir", ll.state_dir) = 10 + Len1(ll.state_dir)
        /\ FieldLen("attestam_url", ll.attestam_url) = 13 + Len1(ll.attestam_url)
    BY <1>2, FieldLens
  <2> QED BY <1>3, <2>1, <2>2, Len1Constants DEF TeepResolveInputLen
<1>9. Reserved("make_teep_resolve_input", ll) \in Nat \ {0}
  BY <1>3, <1>8
<1>10. ASSUME NEW g, IsOffsets(g, "make_teep_resolve_input", ll)
       PROVE  /\ g[13] <=
                    Reserved("make_teep_resolve_input", ll) + Excess("make_teep_resolve_input")
              /\ "make_teep_resolve_input" \in ReportsReserved =>
                    g[13] = Reserved("make_teep_resolve_input", ll)
  BY <1>3, <1>7, <1>8, <1>10 DEF Excess
<1>11. Count("make_teep_resolve_input", ll) = 13
  BY <1>1 DEF ResolveReeTable, Count, T
<1>12. \A k \in 1..13 : Written(Items("make_teep_resolve_input", ll)[k], ll) \in Nat \ {0}
  BY <1>6 DEF W, T
<1> QED BY <1>9, <1>10, <1>11, <1>12 DEF Fitting

\* The Agent takes every text of it.
LEMMA ResolveReeLegible ==
    ASSUME NEW ll, Typed("make_teep_resolve_input", ll)
    PROVE  Legible("make_teep_resolve_input", ll)
<1> DEFINE T == Items("make_teep_resolve_input", ll)
<1> DEFINE V(k) == WantsAt("make_teep_resolve_input", ll, k)
<1>1. ResolveReeTable(T)
  BY ResolveReeItems
<1> HIDE DEF T
<1>2. /\ Reader("make_teep_resolve_input") = "twep_app_main"
      /\ Count("make_teep_resolve_input", ll) = 13
  BY <1>1 DEF Reader, ResolveReeTable, Count, T
<1>3. "make_teep_resolve_input" \notin Needs /\ "make_teep_resolve_input" \notin Errors
  BY DEF Needs, Errors
<1>4. /\ T[2].s = "schema_version" /\ T[4].s = "command" /\ T[6].s = "target_command"
      /\ T[8].s = "resolver_mode" /\ T[10].s = "state_dir" /\ T[12].s = "attestam_url"
  BY <1>1, KeyKinds DEF ResolveReeTable
<1>5. ASSUME NEW k \in 2..13, k % 2 = 0
      PROVE  T[k].kind \in {"key", "short"} /\ T[k].s # NoKey
  <2>1. k \in {2, 4, 6, 8, 10, 12}
    BY <1>5
  <2>2. /\ T[2].kind = "short" /\ T[4].kind = "short" /\ T[6].kind = "short" /\ T[8].kind = "short"
        /\ T[10].kind = "short" /\ T[12].kind = "short"
    BY <1>1, KeyKinds DEF ResolveReeTable
  <2> QED BY <1>4, <2>1, <2>2 DEF NoKey
<1>6. /\ V(2) = {} /\ V(4) = {"text", "empty"} /\ V(6) = {"text", "empty"}
      /\ V(8) = {"text", "empty"} /\ V(10) = {} /\ V(12) = {"text", "empty"}
  BY <1>2, <1>4, AgentWants DEF WantsAt, T
<1>7. T[1].kind = "map" /\ Children(T[1]) = 12
  BY <1>1, FixedKinds DEF ResolveReeTable
<1>8. ASSUME NEW k \in 2..13 PROVE Children(T[k]) = Nested("make_teep_resolve_input", k)
  <2>1. k \in {2, 3, 4, 5, 6, 7, 8, 9, 10, 11, 12, 13}
    OBVIOUS
  <2>2. /\ Children(T[2]) = 0 /\ Children(T[4]) = 0 /\ Children(T[5]) = 0 /\ Children(T[6]) = 0
        /\ Children(T[8]) = 0 /\ Children(T[10]) = 0 /\ Children(T[12]) = 0
    BY <1>1, KeyKinds DEF ResolveReeTable
  <2>3. /\ Children(T[7]) = 0 /\ Children(T[9]) = 0 /\ Children(T[11]) = 0 /\ Children(T[13]) = 0
    BY <1>1, FieldKinds DEF ResolveReeTable
  <2>4. /\ Children(T[3]) = 0
    BY <1>1, FixedKinds DEF ResolveReeTable
  <2> QED BY <1>3, <2>1, <2>2, <2>3, <2>4 DEF Nested
<1>9. /\ Wire(T[5], ll) = "text"
  <2>1. /\ Len("resolve_app") # 0
    BY TextLengths
  <2> QED BY <1>1, <2>1, KeyWires DEF ResolveReeTable
<1>10. Wire(T[7], ll) \in {"text", "empty"} /\ Wire(T[9], ll) \in {"text", "empty"}
       /\ Wire(T[13], ll) \in {"text", "empty"}
  BY <1>1, FieldWires DEF ResolveReeTable
<1>11. ASSUME NEW k \in 3..13, k % 2 = 1
       PROVE  Fits("make_teep_resolve_input", ll, k)
  <2>1. k \in {3, 5, 7, 9, 11, 13}
    BY <1>11
  <2>2. Fits("make_teep_resolve_input", ll, k) <=> V(k - 1) = {} \/ Wire(T[k], ll) \in V(k - 1)
    BY DEF Fits, T
  <2> HIDE DEF V
  <2>3. V(k - 1) = {} \/ Wire(T[k], ll) \in V(k - 1)
    BY <1>6, <1>9, <1>10, <2>1
  <2> QED BY <2>2, <2>3
<1>12. ~Strict("make_teep_resolve_input")
  BY <1>2 DEF Strict
<1>13. Taken("make_teep_resolve_input", ll, 14) =
         {"command", "target_command", "resolver_mode", "attestam_url"}
  <2>1. TakenAt("make_teep_resolve_input", ll, 14) = {4, 6, 8, 12}
    <3>1. ASSUME NEW k \in 2..13, k % 2 = 0 
          PROVE  k \in {2, 4, 6, 8, 10, 12} /\ k + 1 < 14
      BY <3>1
    <3>2. TakenAt("make_teep_resolve_input", ll, 14) = {k \in 2..13 : k % 2 = 0 /\ V(k) # {}}
      BY <1>2, <3>1 DEF TakenAt
    <3> HIDE DEF V
    <3> QED BY <1>6, <3>1, <3>2
  <2> QED BY <1>4, <2>1 DEF Taken, T
<1>14. Outcome("make_teep_resolve_input", Taken("make_teep_resolve_input", ll, 14)) =
         Expected("make_teep_resolve_input")
  <2>1. Expected("make_teep_resolve_input") = "accepted"
    BY DEF Expected
  <2>2. Outcome("make_teep_resolve_input", Taken("make_teep_resolve_input", ll, 14)) =
          "accepted"
    BY <1>2, <1>13, AgentOutcome
  <2> QED BY <2>1, <2>2
<1>15. Children(T[1]) = Due("make_teep_resolve_input", 13, 2)
  BY <1>3, <1>7 DEF Due
<1>16. ASSUME NEW k \in 2..13, k % 2 = 0
       PROVE  /\ "make_teep_resolve_input" \in Errors /\ k >= 10 => V(k) = {}
              /\ "make_teep_resolve_input" \in Needs /\ k = 6 => V(k) # {}
  <2>1. k \in {2, 4, 6, 8, 10, 12}
    BY <1>16
  <2> HIDE DEF V
  <2> QED BY <1>3, <1>6, <2>1
<1> QED BY <1>2, <1>3, <1>5, <1>7, <1>8, <1>11, <1>12, <1>14, <1>15, <1>16
        DEF Legible, T

\* The items of the Agent's input, as the TA writes it.
ResolveTaTable(T) ==
    /\ Len(T) = 13 /\ T[1] = Map(6) /\ T[2] = Key("schema_version") /\ T[3] = One
    /\ T[4] = Key("command") /\ T[5] = Key("resolve_app") /\ T[6] = Key("target_command")
    /\ T[7] = Text("target_command") /\ T[8] = Key("resolver_mode") /\ T[9] = Text("resolver_mode")
    /\ T[10] = Key("state_dir") /\ T[11] = Key(NoText) /\ T[12] = Key("attestam_url")
    /\ T[13] = Text("attestam_url")

\* The items that are written are those of the table.
LEMMA ResolveTaItems ==
    ASSUME NEW ll
    PROVE  ResolveTaTable(Items("build_teep_resolve_input_for_command", ll))
BY DEF ResolveTaTable, Items, build_teep_resolve_input_for_command

\* They take up what was computed for them, or less.
LEMMA ResolveTaFitting ==
    ASSUME NEW ll, Typed("build_teep_resolve_input_for_command", ll)
    PROVE  Fitting("build_teep_resolve_input_for_command", ll)
<1> DEFINE T == Items("build_teep_resolve_input_for_command", ll)
<1> DEFINE Z == Items("build_teep_resolve_input_for_command", NoFields)
<1> DEFINE W(k) == Written(T[k], ll)
<1>1. ResolveTaTable(T) /\ ResolveTaTable(Z)
  BY ResolveTaItems
<1> HIDE DEF T, Z
<1>2. /\ ll.target_command \in Nat /\ ll.resolver_mode \in Nat /\ ll.attestam_url \in Nat
  <2>1. /\ Count("build_teep_resolve_input_for_command", NoFields) = 13
        /\ Z[7] = Text("target_command") /\ Z[9] = Text("resolver_mode")
        /\ Z[13] = Text("attestam_url") /\ {7, 9, 13} \subseteq 1..13
    BY <1>1 DEF ResolveTaTable, Count, Z
  <2> QED BY <2>1, FieldAt DEF Z
<1>3. /\ Len1(ll.target_command) \in Nat \ {0} /\ Len1(ll.resolver_mode) \in Nat \ {0}
      /\ Len1(ll.attestam_url) \in Nat \ {0}
  BY <1>2, Len1Size
<1>4. /\ W(1) = 1 /\ W(2) = 15 /\ W(3) = 1 /\ W(4) = 8 /\ W(5) = 12 /\ W(6) = 15 /\ W(8) = 14
      /\ W(10) = 10 /\ W(11) = 1 /\ W(12) = 13
  BY <1>1, FixedSizes, LiteralSizes DEF ResolveTaTable
<1>5. /\ W(7) = Len1(ll.target_command) /\ W(9) = Len1(ll.resolver_mode)
      /\ W(13) = Len1(ll.attestam_url)
  BY <1>1, <1>2, FieldSizes DEF ResolveTaTable
<1> HIDE DEF W
<1>6. ASSUME NEW k \in 1..13 PROVE W(k) \in Nat \ {0}
  <2>1. k \in {1, 2, 3, 4, 5, 6, 7, 8, 9, 10, 11, 12, 13}
    OBVIOUS
  <2> QED BY <1>3, <1>4, <1>5, <2>1
<1>7. ASSUME NEW g, IsOffsets(g, "build_teep_resolve_input_for_command", ll)
      PROVE  g[13] = 90 + Len1(ll.target_command) + Len1(ll.resolver_mode) +
                     Len1(ll.attestam_url)
  <2>1. Count("build_teep_resolve_input_for_command", ll) = 13
    BY <1>1 DEF ResolveTaTable, Count, T
  <2>2. g[0] = 0 /\ \A k \in 1..13 : g[k] = g[k - 1] + W(k)
    BY <1>7, <2>1 DEF IsOffsets, W, T
  <2>3. /\ g[1] = g[0] + W(1) /\ g[2] = g[1] + W(2) /\ g[3] = g[2] + W(3) /\ g[4] = g[3] + W(4)
        /\ g[5] = g[4] + W(5) /\ g[6] = g[5] + W(6) /\ g[7] = g[6] + W(7) /\ g[8] = g[7] + W(8)
        /\ g[9] = g[8] + W(9) /\ g[10] = g[9] + W(10) /\ g[11] = g[10] + W(11)
        /\ g[12] = g[11] + W(12) /\ g[13] = g[12] + W(13)
    BY <2>2
  <2>4. g[6] = 52
    BY <1>3, <1>4, <1>5, <2>2, <2>3
  <2> QED BY <1>3, <1>4, <1>5, <2>2, <2>3, <2>4
<1>8. Reserved("build_teep_resolve_input_for_command", ll) =
          104 + Len1(ll.target_command) + Len1(ll.resolver_mode) + Len1(ll.attestam_url)
  <2>1. Reserved("build_teep_resolve_input_for_command", ll) = TeepResolveInputForCommandLen(ll)
    BY DEF Reserved
  <2>2. /\ FieldLen("command", 11) = 8 + Len1(11)
        /\ FieldLen("target_command", ll.target_command) = 15 + Len1(ll.target_command)
        /\ FieldLen("resolver_mode", ll.resolver_mode) = 14 + Len1(ll.resolver_mode)
        /\ FieldLen("attestam_url", ll.attestam_url) = 13 + Len1(ll.attestam_url)
    BY <1>2, FieldLens
  <2> QED BY <1>3, <2>1, <2>2, Len1Constants DEF TeepResolveInputForCommandLen
<1>9. "build_teep_resolve_input_for_command" \notin ReportsReserved
  BY DEF ReportsReserved, TaBuilders
<1>10. Reserved("build_teep_resolve_input_for_command", ll) \in Nat \ {0}
  BY <1>3, <1>8
<1>11. ASSUME NEW g, IsOffsets(g, "build_teep_resolve_input_for_command", ll)
       PROVE  /\ g[13] <=
                    Reserved("build_teep_resolve_input_for_command", ll)
                      + Excess("build_teep_resolve_input_for_command")
              /\ "build_teep_resolve_input_for_command" \in ReportsReserved =>
                    g[13] = Reserved("build_teep_resolve_input_for_command", ll)
  BY <1>3, <1>7, <1>8, <1>9, <1>11 DEF Excess
<1>12. Count("build_teep_resolve_input_for_command", ll) = 13
  BY <1>1 DEF ResolveTaTable, Count, T
<1>13. \A k \in 1..13 :
         Written(Items("build_teep_resolve_input_for_command", ll)[k], ll) \in Nat \ {0}
  BY <1>6 DEF W, T
<1> QED BY <1>10, <1>11, <1>12, <1>13 DEF Fitting

\* Its reader takes every value unless a text is empty.
LEMMA ResolveTaLegible ==
    ASSUME NEW ll, Typed("build_teep_resolve_input_for_command", ll)
    PROVE  Legible("build_teep_resolve_input_for_command", ll)
<1> DEFINE T == Items("build_teep_resolve_input_for_command", ll)
<1> DEFINE V(k) == WantsAt("build_teep_resolve_input_for_command", ll, k)
<1>1. ResolveTaTable(T)
  BY ResolveTaItems
<1> HIDE DEF T
<1>2. /\ Reader("build_teep_resolve_input_for_command") = "parse_teep_resolve_input"
      /\ Count("build_teep_resolve_input_for_command", ll) = 13
  BY <1>1 DEF Reader, ResolveTaTable, Count, T
<1>3. "build_teep_resolve_input_for_command" \notin Needs
      /\ "build_teep_resolve_input_for_command" \notin Errors
  BY DEF Needs, Errors
<1>4. /\ T[2].s = "schema_version" /\ T[4].s = "command" /\ T[6].s = "target_command"
      /\ T[8].s = "resolver_mode" /\ T[10].s = "state_dir" /\ T[12].s = "attestam_url"
  BY <1>1, KeyKinds DEF ResolveTaTable
<1>5. ASSUME NEW k \in 2..13, k % 2 = 0
      PROVE  T[k].kind \in {"key", "short"} /\ T[k].s # NoKey
  <2>1. k \in {2, 4, 6, 8, 10, 12}
    BY <1>5
  <2>2. /\ T[2].kind = "key" /\ T[4].kind = "key" /\ T[6].kind = "key" /\ T[8].kind = "key"
        /\ T[10].kind = "key" /\ T[12].kind = "key"
    BY <1>1, KeyKinds DEF ResolveTaTable
  <2> QED BY <1>4, <2>1, <2>2 DEF NoKey
<1>6. /\ V(2) = {} /\ V(4) = {"text"} /\ V(6) = {"text"} /\ V(8) = {"text"} /\ V(10) = {}
      /\ V(12) = {}
  BY <1>2, <1>4, ResolveWants DEF WantsAt, T
<1>7. T[1].kind = "map" /\ Children(T[1]) = 12
  BY <1>1, FixedKinds DEF ResolveTaTable
<1>8. ASSUME NEW k \in 2..13
      PROVE Children(T[k]) = Nested("build_teep_resolve_input_for_command", k)
  <2>1. k \in {2, 3, 4, 5, 6, 7, 8, 9, 10, 11, 12, 13}
    OBVIOUS
  <2>2. /\ Children(T[2]) = 0 /\ Children(T[4]) = 0 /\ Children(T[5]) = 0 /\ Children(T[6]) = 0
        /\ Children(T[8]) = 0 /\ Children(T[10]) = 0 /\ Children(T[11]) = 0 /\ Children(T[12]) = 0
    BY <1>1, KeyKinds DEF ResolveTaTable
  <2>3. /\ Children(T[7]) = 0 /\ Children(T[9]) = 0 /\ Children(T[13]) = 0
    BY <1>1, FieldKinds DEF ResolveTaTable
  <2>4. /\ Children(T[3]) = 0
    BY <1>1, FixedKinds DEF ResolveTaTable
  <2> QED BY <1>3, <2>1, <2>2, <2>3, <2>4 DEF Nested
<1>9. /\ Wire(T[5], ll) = "text"
  <2>1. /\ Len("resolve_app") # 0
    BY TextLengths
  <2> QED BY <1>1, <2>1, KeyWires DEF ResolveTaTable
<1>10. /\ (ll.target_command = 0 => Wire(T[7], ll) = "empty")
      /\ (ll.target_command # 0 => Wire(T[7], ll) = "text")
      /\ (ll.resolver_mode = 0 => Wire(T[9], ll) = "empty")
      /\ (ll.resolver_mode # 0 => Wire(T[9], ll) = "text")
  BY <1>1, FieldWires DEF ResolveTaTable
<1>11. ASSUME NEW k \in 3..13, k % 2 = 1
       PROVE  \/ Fits("build_teep_resolve_input_for_command", ll, k)
              \/ \E f \in {"target_command", "resolver_mode"} : ll[f] = 0
  <2>1. k \in {3, 5, 7, 9, 11, 13}
    BY <1>11
  <2>2. Fits("build_teep_resolve_input_for_command", ll, k) <=>
          V(k - 1) = {} \/ Wire(T[k], ll) \in V(k - 1)
    BY DEF Fits, T
  <2> HIDE DEF V
  <2>3. V(k - 1) = {} \/ Wire(T[k], ll) \in V(k - 1)
        \/ ll.target_command = 0 \/ ll.resolver_mode = 0
    BY <1>6, <1>9, <1>10, <2>1
  <2> QED BY <2>2, <2>3
<1>12. /\ Strict("build_teep_resolve_input_for_command")
       /\ Fields("build_teep_resolve_input_for_command") \cap Insisted =
         {"target_command", "resolver_mode"}
  <2> DEFINE Z == Items("build_teep_resolve_input_for_command", NoFields)
  <2>1. ResolveTaTable(Z)
    BY ResolveTaItems
  <2> HIDE DEF Z
  <2>2. /\ Z[1].kind = "map" /\ Z[2].kind = "key" /\ Z[3].kind = "one" /\ Z[4].kind = "key"
        /\ Z[5].kind = "key" /\ Z[6].kind = "key" /\ Z[8].kind = "key" /\ Z[10].kind = "key"
        /\ Z[11].kind = "key" /\ Z[12].kind = "key"
    BY <2>1, KeyKinds, FixedKinds DEF ResolveTaTable, One, Flag, Digest
  <2>3. /\ Z[7] = Text("target_command") /\ Z[9] = Text("resolver_mode")
        /\ Z[13] = Text("attestam_url")
    BY <2>1 DEF ResolveTaTable
  <2>4. /\ Z[7].f = "target_command" /\ Z[9].f = "resolver_mode" /\ Z[13].f = "attestam_url"
    BY <2>3, FieldKinds
  <2>5. Len(Z) = 13
    BY <2>1 DEF ResolveTaTable
  <2>6. ASSUME NEW n \in 1..13, Z[n].kind \in {"text", "bytes", "uint"}
        PROVE  Z[n].f \in {"target_command", "resolver_mode", "attestam_url"}
    <3>1. n \in {1, 2, 3, 4, 5, 6, 7, 8, 9, 10, 11, 12, 13}
      OBVIOUS
    <3> QED BY <2>2, <2>4, <2>6, <3>1
  <2>7. Fields("build_teep_resolve_input_for_command") \subseteq
          {"target_command", "resolver_mode", "attestam_url"}
    <3>1. ASSUME NEW f \in Fields("build_teep_resolve_input_for_command")
          PROVE  \E n \in 1..Len(Z) : Z[n].kind \in {"text", "bytes", "uint"} /\ f = Z[n].f
      BY DEF Fields, NoFields, Z
    <3> QED BY <2>5, <2>6, <3>1
  <2>8. Count("build_teep_resolve_input_for_command", NoFields) = 13
    BY <2>5 DEF Count, Z
  <2>9. "target_command" \in Fields("build_teep_resolve_input_for_command")
    <3>1. 7 \in 1..Count("build_teep_resolve_input_for_command", NoFields)
      BY <2>8
    <3> QED BY <2>3, <3>1, FieldAt DEF Z
  <2>10. "resolver_mode" \in Fields("build_teep_resolve_input_for_command")
    <3>1. 9 \in 1..Count("build_teep_resolve_input_for_command", NoFields)
      BY <2>8
    <3> QED BY <2>3, <3>1, FieldAt DEF Z
  <2> QED BY <1>2, <2>7, <2>9, <2>10 DEF Strict, Insisted
<1>13. ASSUME NEW f \in {"target_command", "resolver_mode"}, ll[f] = 0
       PROVE  \E k \in 3..13 : k % 2 = 1 /\ ~Fits("build_teep_resolve_input_for_command", ll, k)
  <2>1. ASSUME NEW k \in 3..13, V(k - 1) # {}, Wire(T[k], ll) \notin V(k - 1)
        PROVE  ~Fits("build_teep_resolve_input_for_command", ll, k)
    BY <2>1 DEF Fits, T
  <2> HIDE DEF V
  <2>2. CASE f = "target_command"
    <3>1. V(6) # {} /\ Wire(T[7], ll) \notin V(6) /\ 7 \in 3..13 /\ 7 % 2 = 1 /\ 7 - 1 = 6
      BY <1>6, <1>9, <1>10, <1>13, <2>2
    <3> QED BY <2>1, <3>1
  <2>3. CASE f = "resolver_mode"
    <3>1. V(8) # {} /\ Wire(T[9], ll) \notin V(8) /\ 9 \in 3..13 /\ 9 % 2 = 1 /\ 9 - 1 = 8
      BY <1>6, <1>9, <1>10, <1>13, <2>3
    <3> QED BY <2>1, <3>1
  <2> QED BY <2>2, <2>3
<1>14. Taken("build_teep_resolve_input_for_command", ll, 14) =
         {"command", "target_command", "resolver_mode"}
  <2>1. TakenAt("build_teep_resolve_input_for_command", ll, 14) = {4, 6, 8}
    <3>1. ASSUME NEW k \in 2..13, k % 2 = 0 
          PROVE  k \in {2, 4, 6, 8, 10, 12} /\ k + 1 < 14
      BY <3>1
    <3>2. TakenAt("build_teep_resolve_input_for_command", ll, 14) =
            {k \in 2..13 : k % 2 = 0 /\ V(k) # {}}
      BY <1>2, <3>1 DEF TakenAt
    <3> HIDE DEF V
    <3> QED BY <1>6, <3>1, <3>2
  <2> QED BY <1>4, <2>1 DEF Taken, T
<1>15. Outcome("build_teep_resolve_input_for_command",
               Taken("build_teep_resolve_input_for_command", ll, 14)) =
         Expected("build_teep_resolve_input_for_command")
  <2>1. Expected("build_teep_resolve_input_for_command") = "accepted"
    BY DEF Expected
  <2>2. Outcome("build_teep_resolve_input_for_command",
                Taken("build_teep_resolve_input_for_command", ll, 14)) =
          "accepted"
    BY <1>2, <1>14, ResolveOutcome
  <2> QED BY <2>1, <2>2
<1>16. Children(T[1]) = Due("build_teep_resolve_input_for_command", 13, 2)
  BY <1>3, <1>7 DEF Due
<1>17. ASSUME NEW k \in 2..13, k % 2 = 0
       PROVE  /\ "build_teep_resolve_input_for_command" \in Errors /\ k >= 10 => V(k) = {}
              /\ "build_teep_resolve_input_for_command" \in Needs /\ k = 6 => V(k) # {}
  <2>1. k \in {2, 4, 6, 8, 10, 12}
    BY <1>17
  <2> HIDE DEF V
  <2> QED BY <1>3, <1>6, <2>1
<1>18. ASSUME NEW k \in 3..13, k % 2 = 1
       PROVE  \/ Fits("build_teep_resolve_input_for_command", ll, k)
              \/ /\ Strict("build_teep_resolve_input_for_command")
                 /\ \E f \in Fields("build_teep_resolve_input_for_command") \cap Insisted :
                     ll[f] = 0
  BY <1>11, <1>12, <1>18
<1> QED BY <1>2, <1>3, <1>5, <1>7, <1>8, <1>12, <1>13, <1>15, <1>16, <1>17, <1>18
        DEF Legible, T

\* The items of the EXECUTE envelope.
ExecuteTable(T) ==
    /\ Len(T) = 23 /\ T[1] = Map(11) /\ T[2] = Key("request_id") /\ T[3] = Text("request_id")
    /\ T[4] = Key("command") /\ T[5] = Text("command") /\ T[6] = Key("resolver_mode")
    /\ T[7] = Text("resolver_mode") /\ T[8] = Key("attestam_url") /\ T[9] = Text("attestam_url")
    /\ T[10] = Key("insecure") /\ T[11] = Flag /\ T[12] = Key("app_input_cbor")
    /\ T[13] = Bytes("app_input_cbor") /\ T[14] = Key("request_timeout_ms")
    /\ T[15] = Uint("request_timeout_ms") /\ T[16] = Key("wasm_bytes")
    /\ T[17] = Bytes("wasm_bytes") /\ T[18] = Key("catalog_cbor") /\ T[19] = Bytes("catalog_cbor")
    /\ T[20] = Key("app_wasm_bytes") /\ T[21] = Bytes("app_wasm_bytes")
    /\ T[22] = Key("dev_agent_public_key_cbor") /\ T[23] = Bytes("dev_agent_public_key_cbor")

\* The items that are written are those of the table.
LEMMA ExecuteItems ==
    ASSUME NEW ll
    PROVE  ExecuteTable(Items("make_execute_envelope", ll))
BY DEF ExecuteTable, Items, make_execute_envelope

\* They take up what was computed for them.
LEMMA ExecuteFitting ==
    ASSUME NEW ll, Typed("make_execute_envelope", ll)
    PROVE  Fitting("make_execute_envelope", ll)
<1> DEFINE T == Items("make_execute_envelope", ll)
<1> DEFINE Z == Items("make_execute_envelope", NoFields)
<1> DEFINE W(k) == Written(T[k], ll)
<1>1. ExecuteTable(T) /\ ExecuteTable(Z)
  BY ExecuteItems
<1> HIDE DEF T, Z
<1>2. /\ ll.request_id \in Nat /\ ll.command \in Nat /\ ll.resolver_mode \in Nat
      /\ ll.attestam_url \in Nat /\ ll.app_input_cbor \in Nat /\ ll.request_timeout_ms \in Nat
      /\ ll.wasm_bytes \in Nat /\ ll.catalog_cbor \in Nat /\ ll.app_wasm_bytes \in Nat
      /\ ll.dev_agent_public_key_cbor \in Nat
  <2>1. /\ Count("make_execute_envelope", NoFields) = 23 /\ Z[3] = Text("request_id")
        /\ Z[5] = Text("command") /\ Z[7] = Text("resolver_mode") /\ Z[9] = Text("attestam_url")
        /\ Z[13] = Bytes("app_input_cbor") /\ Z[15] = Uint("request_timeout_ms")
        /\ Z[17] = Bytes("wasm_bytes") /\ Z[19] = Bytes("catalog_cbor")
        /\ Z[21] = Bytes("app_wasm_bytes") /\ Z[23] = Bytes("dev_agent_public_key_cbor")
        /\ {3, 5, 7, 9, 13, 15, 17, 19, 21, 23} \subseteq 1..23
    BY <1>1 DEF ExecuteTable, Count, Z
  <2> QED BY <2>1, FieldAt DEF Z
<1>3. /\ Len1(ll.request_id) \in Nat \ {0} /\ Len1(ll.command) \in Nat \ {0}
      /\ Len1(ll.resolver_mode) \in Nat \ {0} /\ Len1(ll.attestam_url) \in Nat \ {0}
      /\ Len1(ll.app_input_cbor) \in Nat \ {0} /\ TypeLenSize(ll.request_timeout_ms) \in Nat \ {0}
      /\ Len1(ll.wasm_bytes) \in Nat \ {0} /\ Len1(ll.catalog_cbor) \in Nat \ {0}
      /\ Len1(ll.app_wasm_bytes) \in Nat \ {0} /\ Len1(ll.dev_agent_public_key_cbor) \in Nat \ {0}
  BY <1>2, Len1Size
<1>4. /\ W(1) = 1 /\ W(2) = 11 /\ W(4) = 8 /\ W(6) = 14 /\ W(8) = 13 /\ W(10) = 9 /\ W(11) = 1
      /\ W(12) = 15 /\ W(14) = 19 /\ W(16) = 11 /\ W(18) = 13 /\ W(20) = 15 /\ W(22) = 27
  BY <1>1, FixedSizes, LiteralSizes DEF ExecuteTable
<1>5. /\ W(3) = Len1(ll.request_id) /\ W(5) = Len1(ll.command) /\ W(7) = Len1(ll.resolver_mode)
      /\ W(9) = Len1(ll.attestam_url) /\ W(13) = Len1(ll.app_input_cbor)
      /\ W(15) = TypeLenSize(ll.request_timeout_ms) /\ W(17) = Len1(ll.wasm_bytes)
      /\ W(19) = Len1(ll.catalog_cbor) /\ W(21) = Len1(ll.app_wasm_bytes)
      /\ W(23) = Len1(ll.dev_agent_public_key_cbor)
  BY <1>1, <1>2, FieldSizes DEF ExecuteTable
<1> HIDE DEF W
<1>6. ASSUME NEW k \in 1..23 PROVE W(k) \in Nat \ {0}
  <2>1. k \in {1, 2, 3, 4, 5, 6, 7, 8, 9, 10, 11, 12, 13, 14, 15, 16, 17, 18, 19, 20, 21, 22, 23}
    OBVIOUS
  <2> QED BY <1>3, <1>4, <1>5, <2>1
<1>7. ASSUME NEW g, IsOffsets(g, "make_execute_envelope", ll)
      PROVE  g[23] = 157 + Len1(ll.request_id) + Len1(ll.command) + Len1(ll.resolver_mode) +
                     Len1(ll.attestam_url) + Len1(ll.app_input_cbor) +
                     TypeLenSize(ll.request_timeout_ms) + Len1(ll.wasm_bytes) +
                     Len1(ll.catalog_cbor) + Len1(ll.app_wasm_bytes) +
                     Len1(ll.dev_agent_public_key_cbor)
  <2>1. Count("make_execute_envelope", ll) = 23
    BY <1>1 DEF ExecuteTable, Count, T
  <2>2. g[0] = 0 /\ \A k \in 1..23 : g[k] = g[k - 1] + W(k)
    BY <1>7, <2>1 DEF IsOffsets, W, T
  <2>3. /\ g[1] = g[0] + W(1) /\ g[2] = g[1] + W(2) /\ g[3] = g[2] + W(3) /\ g[4] = g[3] + W(4)
        /\ g[5] = g[4] + W(5) /\ g[6] = g[5] + W(6) /\ g[7] = g[6] + W(7) /\ g[8] = g[7] + W(8)
        /\ g[9] = g[8] + W(9) /\ g[10] = g[9] + W(10) /\ g[11] = g[10] + W(11)
        /\ g[12] = g[11] + W(12) /\ g[13] = g[12] + W(13) /\ g[14] = g[13] + W(14)
        /\ g[15] = g[14] + W(15) /\ g[16] = g[15] + W(16) /\ g[17] = g[16] + W(17)
        /\ g[18] = g[17] + W(18) /\ g[19] = g[18] + W(19) /\ g[20] = g[19] + W(20)
        /\ g[21] = g[20] + W(21) /\ g[22] = g[21] + W(22) /\ g[23] = g[22] + W(23)
    BY <2>2
  <2>4. g[6] = 34 + Len1(ll.request_id) + Len1(ll.command)
    BY <1>3, <1>4, <1>5, <2>2, <2>3
  <2>5. g[12] = 72 + Len1(ll.request_id) + Len1(ll.command) + Len1(ll.resolver_mode) +
                Len1(ll.attestam_url)
    BY <1>3, <1>4, <1>5, <2>2, <2>3, <2>4
  <2>6. g[18] = 115 + Len1(ll.request_id) + Len1(ll.command) + Len1(ll.resolver_mode) +
                Len1(ll.attestam_url) + Len1(ll.app_input_cbor) +
                TypeLenSize(ll.request_timeout_ms) + Len1(ll.wasm_bytes)
    BY <1>3, <1>4, <1>5, <2>2, <2>3, <2>5
  <2> QED BY <1>3, <1>4, <1>5, <2>2, <2>3, <2>6
<1>8. Reserved("make_execute_envelope", ll) =
          157 + Len1(ll.request_id) + Len1(ll.command) + Len1(ll.resolver_mode) +
          Len1(ll.attestam_url) + Len1(ll.app_input_cbor) + TypeLenSize(ll.request_timeout_ms) +
          Len1(ll.wasm_bytes) + Len1(ll.catalog_cbor) + Len1(ll.app_wasm_bytes) +
          Len1(ll.dev_agent_public_key_cbor)
  <2>1. Reserved("make_execute_envelope", ll) = ExecuteEnvelopeLen(ll)
    BY DEF Reserved
  <2>2. /\ FieldLen("request_id", ll.request_id) = 11 + Len1(ll.request_id)
        /\ FieldLen("command", ll.command) = 8 + Len1(ll.command)
        /\ FieldLen("resolver_mode", ll.resolver_mode) = 14 + Len1(ll.resolver_mode)
        /\ FieldLen("attestam_url", ll.attestam_url) = 13 + Len1(ll.attestam_url)
        /\ FieldLen("app_input_cbor", ll.app_input_cbor) = 15 + Len1(ll.app_input_cbor)
        /\ FieldLen("wasm_bytes", ll.wasm_bytes) = 11 + Len1(ll.wasm_bytes)
        /\ FieldLen("catalog_cbor", ll.catalog_cbor) = 13 + Len1(ll.catalog_cbor)
        /\ FieldLen("app_wasm_bytes", ll.app_wasm_bytes) = 15 + Len1(ll.app_wasm_bytes)
        /\ FieldLen("dev_agent_public_key_cbor", ll.dev_agent_public_key_cbor) =
          27 + Len1(ll.dev_agent_public_key_cbor)
    BY <1>2, FieldLens
  <2> QED BY <1>3, <2>1, <2>2, Len1Constants DEF ExecuteEnvelopeLen
<1>9. Reserved("make_execute_envelope", ll) \in Nat \ {0}
  BY <1>3, <1>8
<1>10. ASSUME NEW g, IsOffsets(g, "make_execute_envelope", ll)
       PROVE  /\ g[23] <=
                    Reserved("make_execute_envelope", ll) + Excess("make_execute_envelope")
              /\ "make_execute_envelope" \in ReportsReserved =>
                    g[23] = Reserved("make_execute_envelope", ll)
  BY <1>3, <1>7, <1>8, <1>10 DEF Excess
<1>11. Count("make_execute_envelope", ll) = 23
  BY <1>1 DEF ExecuteTable, Count, T
<1>12. \A k \in 1..23 : Written(Items("make_execute_envelope", ll)[k], ll) \in Nat \ {0}
  BY <1>6 DEF W, T
<1> QED BY <1>9, <1>10, <1>11, <1>12 DEF Fitting

\* Its reader takes every value unless a text is empty.
LEMMA ExecuteLegible ==
    ASSUME NEW ll, Typed("make_execute_envelope", ll)
    PROVE  Legible("make_execute_envelope", ll)
<1> DEFINE T == Items("make_execute_envelope", ll)
<1> DEFINE V(k) == WantsAt("make_execute_envelope", ll, k)
<1>1. ExecuteTable(T)
  BY ExecuteItems
<1> HIDE DEF T
<1>2. /\ Reader("make_execute_envelope") = "parse_production_envelope"
      /\ Count("make_execute_envelope", ll) = 23
  BY <1>1 DEF Reader, ExecuteTable, Count, T
<1>3. "make_execute_envelope" \notin Needs /\ "make_execute_envelope" \notin Errors
  BY DEF Needs, Errors
<1>4. /\ T[2].s = "request_id" /\ T[4].s = "command" /\ T[6].s = "resolver_mode"
      /\ T[8].s = "attestam_url" /\ T[10].s = "insecure" /\ T[12].s = "app_input_cbor"
      /\ T[14].s = "request_timeout_ms" /\ T[16].s = "wasm_bytes" /\ T[18].s = "catalog_cbor"
      /\ T[20].s = "app_wasm_bytes" /\ T[22].s = "dev_agent_public_key_cbor"
  BY <1>1, KeyKinds DEF ExecuteTable
<1>5. ASSUME NEW k \in 2..23, k % 2 = 0
      PROVE  T[k].kind \in {"key", "short"} /\ T[k].s # NoKey
  <2>1. k \in {2, 4, 6, 8, 10, 12, 14, 16, 18, 20, 22}
    BY <1>5
  <2>2. /\ T[2].kind = "key" /\ T[4].kind = "key" /\ T[6].kind = "key" /\ T[8].kind = "key"
        /\ T[10].kind = "key" /\ T[12].kind = "key" /\ T[14].kind = "key" /\ T[16].kind = "key"
        /\ T[18].kind = "key" /\ T[20].kind = "key" /\ T[22].kind = "key"
    BY <1>1, KeyKinds DEF ExecuteTable
  <2> QED BY <1>4, <2>1, <2>2 DEF NoKey
<1>6. /\ V(2) = {"text"} /\ V(4) = {"text"} /\ V(6) = {"text"} /\ V(8) = {"text", "empty"}
      /\ V(10) = {"flag"} /\ V(12) = {"bytes"} /\ V(14) = {"uint", "one"} /\ V(16) = {"bytes"}
      /\ V(18) = {"bytes"} /\ V(20) = {"bytes"} /\ V(22) = {"bytes"}
  BY <1>2, <1>4, EnvelopeWants DEF WantsAt, T
<1>7. T[1].kind = "map" /\ Children(T[1]) = 22
  BY <1>1, FixedKinds DEF ExecuteTable
<1>8. ASSUME NEW k \in 2..23 PROVE Children(T[k]) = Nested("make_execute_envelope", k)
  <2>1. k \in {2, 3, 4, 5, 6, 7, 8, 9, 10, 11, 12, 13, 14, 15, 16, 17, 18, 19, 20, 21, 22, 23}
    OBVIOUS
  <2>2. /\ Children(T[2]) = 0 /\ Children(T[4]) = 0 /\ Children(T[6]) = 0 /\ Children(T[8]) = 0
        /\ Children(T[10]) = 0 /\ Children(T[12]) = 0 /\ Children(T[14]) = 0 /\ Children(T[16]) = 0
        /\ Children(T[18]) = 0 /\ Children(T[20]) = 0 /\ Children(T[22]) = 0
    BY <1>1, KeyKinds DEF ExecuteTable
  <2>3. /\ Children(T[3]) = 0 /\ Children(T[5]) = 0 /\ Children(T[7]) = 0 /\ Children(T[9]) = 0
        /\ Children(T[13]) = 0 /\ Children(T[15]) = 0 /\ Children(T[17]) = 0 /\ Children(T[19]) = 0
        /\ Children(T[21]) = 0 /\ Children(T[23]) = 0
    BY <1>1, FieldKinds DEF ExecuteTable
  <2>4. /\ Children(T[11]) = 0
    BY <1>1, FixedKinds DEF ExecuteTable
  <2> QED BY <1>3, <2>1, <2>2, <2>3, <2>4 DEF Nested
<1>9. /\ (ll.request_id = 0 => Wire(T[3], ll) = "empty")
      /\ (ll.request_id # 0 => Wire(T[3], ll) = "text")
      /\ (ll.command = 0 => Wire(T[5], ll) = "empty") /\ (ll.command # 0 => Wire(T[5], ll) = "text")
      /\ (ll.resolver_mode = 0 => Wire(T[7], ll) = "empty")
      /\ (ll.resolver_mode # 0 => Wire(T[7], ll) = "text")
      /\ (ll.attestam_url = 0 => Wire(T[9], ll) = "empty")
      /\ (ll.attestam_url # 0 => Wire(T[9], ll) = "text") /\ Wire(T[13], ll) = "bytes"
      /\ Wire(T[15], ll) = "uint" /\ Wire(T[17], ll) = "bytes" /\ Wire(T[19], ll) = "bytes"
      /\ Wire(T[21], ll) = "bytes" /\ Wire(T[23], ll) = "bytes"
  BY <1>1, FieldWires DEF ExecuteTable
<1>10. /\ Wire(T[11], ll) = "flag"
  BY <1>1, FixedWires DEF ExecuteTable
<1>11. ASSUME NEW k \in 3..23, k % 2 = 1
       PROVE  \/ Fits("make_execute_envelope", ll, k)
              \/ \E f \in {"request_id", "command", "resolver_mode"} : ll[f] = 0
  <2>1. k \in {3, 5, 7, 9, 11, 13, 15, 17, 19, 21, 23}
    BY <1>11
  <2>2. Fits("make_execute_envelope", ll, k) <=> V(k - 1) = {} \/ Wire(T[k], ll) \in V(k - 1)
    BY DEF Fits, T
  <2> HIDE DEF V
  <2>3. V(k - 1) = {} \/ Wire(T[k], ll) \in V(k - 1)
        \/ ll.request_id = 0 \/ ll.command = 0 \/ ll.resolver_mode = 0
    BY <1>6, <1>9, <1>10, <2>1
  <2> QED BY <2>2, <2>3
<1>12. /\ Strict("make_execute_envelope")
       /\ Fields("make_execute_envelope") \cap Insisted = {"request_id", "command", "resolver_mode"}
  <2> DEFINE Z == Items("make_execute_envelope", NoFields)
  <2>1. ExecuteTable(Z)
    BY ExecuteItems
  <2> HIDE DEF Z
  <2>2. /\ Z[1].kind = "map" /\ Z[2].kind = "key" /\ Z[4].kind = "key" /\ Z[6].kind = "key"
        /\ Z[8].kind = "key" /\ Z[10].kind = "key" /\ Z[11].kind = "flag" /\ Z[12].kind = "key"
        /\ Z[14].kind = "key" /\ Z[16].kind = "key" /\ Z[18].kind = "key" /\ Z[20].kind = "key"
        /\ Z[22].kind = "key"
    BY <2>1, KeyKinds, FixedKinds DEF ExecuteTable, One, Flag, Digest
  <2>3. /\ Z[3] = Text("request_id") /\ Z[5] = Text("command") /\ Z[7] = Text("resolver_mode")
        /\ Z[9] = Text("attestam_url") /\ Z[13] = Bytes("app_input_cbor")
        /\ Z[15] = Uint("request_timeout_ms") /\ Z[17] = Bytes("wasm_bytes")
        /\ Z[19] = Bytes("catalog_cbor") /\ Z[21] = Bytes("app_wasm_bytes")
        /\ Z[23] = Bytes("dev_agent_public_key_cbor")
    BY <2>1 DEF ExecuteTable
  <2>4. /\ Z[3].f = "request_id" /\ Z[5].f = "command" /\ Z[7].f = "resolver_mode"
        /\ Z[9].f = "attestam_url" /\ Z[13].f = "app_input_cbor" /\ Z[15].f = "request_timeout_ms"
        /\ Z[17].f = "wasm_bytes" /\ Z[19].f = "catalog_cbor" /\ Z[21].f = "app_wasm_bytes"
        /\ Z[23].f = "dev_agent_public_key_cbor"
    BY <2>3, FieldKinds
  <2>5. Len(Z) = 23
    BY <2>1 DEF ExecuteTable
  <2>6. ASSUME NEW n \in 1..23, Z[n].kind \in {"text", "bytes", "uint"}
        PROVE  Z[n].f \in {"request_id", "command", "resolver_mode", "attestam_url",
                          "app_input_cbor", "request_timeout_ms", "wasm_bytes", "catalog_cbor",
                          "app_wasm_bytes", "dev_agent_public_key_cbor"}
    <3>1. n \in {1, 2, 3, 4, 5, 6, 7, 8, 9, 10, 11, 12, 13, 14, 15, 16, 17, 18, 19, 20, 21, 22,
                23}
      OBVIOUS
    <3> QED BY <2>2, <2>4, <2>6, <3>1
  <2>7. Fields("make_execute_envelope") \subseteq
          {"request_id", "command", "resolver_mode", "attestam_url",
                          "app_input_cbor", "request_timeout_ms", "wasm_bytes", "catalog_cbor",
                          "app_wasm_bytes", "dev_agent_public_key_cbor"}
    <3>1. ASSUME NEW f \in Fields("make_execute_envelope")
          PROVE  \E n \in 1..Len(Z) : Z[n].kind \in {"text", "bytes", "uint"} /\ f = Z[n].f
      BY DEF Fields, NoFields, Z
    <3> QED BY <2>5, <2>6, <3>1
  <2>8. Count("make_execute_envelope", NoFields) = 23
    BY <2>5 DEF Count, Z
  <2>9. "request_id" \in Fields("make_execute_envelope")
    <3>1. 3 \in 1..Count("make_execute_envelope", NoFields)
      BY <2>8
    <3> QED BY <2>3, <3>1, FieldAt DEF Z
  <2>10. "command" \in Fields("make_execute_envelope")
    <3>1. 5 \in 1..Count("make_execute_envelope", NoFields)
      BY <2>8
    <3> QED BY <2>3, <3>1, FieldAt DEF Z
  <2>11. "resolver_mode" \in Fields("make_execute_envelope")
    <3>1. 7 \in 1..Count("make_execute_envelope", NoFields)
      BY <2>8
    <3> QED BY <2>3, <3>1, FieldAt DEF Z
  <2> QED BY <1>2, <2>7, <2>9, <2>10, <2>11 DEF Strict, Insisted
<1>13. ASSUME NEW f \in {"request_id", "command", "resolver_mode"}, ll[f] = 0
       PROVE  \E k \in 3..23 : k % 2 = 1 /\ ~Fits("make_execute_envelope", ll, k)
  <2>1. ASSUME NEW k \in 3..23, V(k - 1) # {}, Wire(T[k], ll) \notin V(k - 1)
        PROVE  ~Fits("make_execute_envelope", ll, k)
    BY <2>1 DEF Fits, T
  <2> HIDE DEF V
  <2>2. CASE f = "request_id"
    <3>1. V(2) # {} /\ Wire(T[3], ll) \notin V(2) /\ 3 \in 3..23 /\ 3 % 2 = 1 /\ 3 - 1 = 2
      BY <1>6, <1>9, <1>10, <1>13, <2>2
    <3> QED BY <2>1, <3>1
  <2>3. CASE f = "command"
    <3>1. V(4) # {} /\ Wire(T[5], ll) \notin V(4) /\ 5 \in 3..23 /\ 5 % 2 = 1 /\ 5 - 1 = 4
      BY <1>6, <1>9, <1>10, <1>13, <2>3
    <3> QED BY <2>1, <3>1
  <2>4. CASE f = "resolver_mode"
    <3>1. V(6) # {} /\ Wire(T[7], ll) \notin V(6) /\ 7 \in 3..23 /\ 7 % 2 = 1 /\ 7 - 1 = 6
      BY <1>6, <1>9, <1>10, <1>13, <2>4
    <3> QED BY <2>1, <3>1
  <2> QED BY <2>2, <2>3, <2>4
<1>14. Taken("make_execute_envelope", ll, 24) =
         {"request_id", "command", "resolver_mode", "attestam_url", "insecure", "app_input_cbor",
          "request_timeout_ms", "wasm_bytes", "catalog_cbor", "app_wasm_bytes",
          "dev_agent_public_key_cbor"}
  <2>1. TakenAt("make_execute_envelope", ll, 24) = {2, 4, 6, 8, 10, 12, 14, 16, 18, 20, 22}
    <3>1. ASSUME NEW k \in 2..23, k % 2 = 0 
          PROVE  k \in {2, 4, 6, 8, 10, 12, 14, 16, 18, 20, 22} /\ k + 1 < 24
      BY <3>1
    <3>2. TakenAt("make_execute_envelope", ll, 24) = {k \in 2..23 : k % 2 = 0 /\ V(k) # {}}
      BY <1>2, <3>1 DEF TakenAt
    <3> HIDE DEF V
    <3> QED BY <1>6, <3>1, <3>2
  <2> QED BY <1>4, <2>1 DEF Taken, T
<1>15. Outcome("make_execute_envelope", Taken("make_execute_envelope", ll, 24)) =
         Expected("make_execute_envelope")
  <2>1. Expected("make_execute_envelope") = "accepted"
    BY DEF Expected
  <2>2. Outcome("make_execute_envelope", Taken("make_execute_envelope", ll, 24)) =
          "accepted"
    BY <1>2, <1>14, EnvelopeOutcome DEF Required
  <2> QED BY <2>1, <2>2
<1>16. Children(T[1]) = Due("make_execute_envelope", 23, 2)
  BY <1>3, <1>7 DEF Due
<1>17. ASSUME NEW k \in 2..23, k % 2 = 0
       PROVE  /\ "make_execute_envelope" \in Errors /\ k >= 10 => V(k) = {}
              /\ "make_execute_envelope" \in Needs /\ k = 6 => V(k) # {}
  <2>1. k \in {2, 4, 6, 8, 10, 12, 14, 16, 18, 20, 22}
    BY <1>17
  <2> HIDE DEF V
  <2> QED BY <1>3, <1>6, <2>1
<1>18. ASSUME NEW k \in 3..23, k % 2 = 1
       PROVE  \/ Fits("make_execute_envelope", ll, k)
              \/ /\ Strict("make_execute_envelope")
                 /\ \E f \in Fields("make_execute_envelope") \cap Insisted : ll[f] = 0
  BY <1>11, <1>12, <1>18
<1> QED BY <1>2, <1>3, <1>5, <1>7, <1>8, <1>12, <1>13, <1>15, <1>16, <1>17, <1>18
        DEF Legible, T

\* The items of the RESUME_HOST_IO envelope.
ResumeTable(T) ==
    /\ Len(T) = 5 /\ T[1] = Map(2) /\ T[2] = Key("request_id") /\ T[3] = Text("request_id")
    /\ T[4] = Key("host_io_result_cbor") /\ T[5] = Bytes("host_io_result_cbor")

\* The items that are written are those of the table.
LEMMA ResumeItems ==
    ASSUME NEW ll
    PROVE  ResumeTable(Items("make_resume_envelope", ll))
BY DEF ResumeTable, Items, make_resume_envelope

\* They take up what was computed for them.
LEMMA ResumeFitting ==
    ASSUME NEW ll, Typed("make_resume_envelope", ll)
    PROVE  Fitting("make_resume_envelope", ll)
<1> DEFINE T == Items("make_resume_envelope", ll)
<1> DEFINE Z == Items("make_resume_envelope", NoFields)
<1> DEFINE W(k) == Written(T[k], ll)
<1>1. ResumeTable(T) /\ ResumeTable(Z)
  BY ResumeItems
<1> HIDE DEF T, Z
<1>2. /\ ll.request_id \in Nat /\ ll.host_io_result_cbor \in Nat
  <2>1. /\ Count("make_resume_envelope", NoFields) = 5 /\ Z[3] = Text("request_id")
        /\ Z[5] = Bytes("host_io_result_cbor") /\ {3, 5} \subseteq 1..5
    BY <1>1 DEF ResumeTable, Count, Z
  <2> QED BY <2>1, FieldAt DEF Z
<1>3. /\ Len1(ll.request_id) \in Nat \ {0} /\ Len1(ll.host_io_result_cbor) \in Nat \ {0}
  BY <1>2, Len1Size
<1>4. /\ W(1) = 1 /\ W(2) = 11 /\ W(4) = 20
  BY <1>1, FixedSizes, LiteralSizes DEF ResumeTable
<1>5. /\ W(3) = Len1(ll.request_id) /\ W(5) = Len1(ll.host_io_result_cbor)
  BY <1>1, <1>2, FieldSizes DEF ResumeTable
<1> HIDE DEF W
<1>6. ASSUME NEW k \in 1..5 PROVE W(k) \in Nat \ {0}
  <2>1. k \in {1, 2, 3, 4, 5}
    OBVIOUS
  <2> QED BY <1>3, <1>4, <1>5, <2>1
<1>7. ASSUME NEW g, IsOffsets(g, "make_resume_envelope", ll)
      PROVE  g[5] = 32 + Len1(ll.request_id) + Len1(ll.host_io_result_cbor)
  <2>1. Count("make_resume_envelope", ll) = 5
    BY <1>1 DEF ResumeTable, Count, T
  <2>2. g[0] = 0 /\ \A k \in 1..5 : g[k] = g[k - 1] + W(k)
    BY <1>7, <2>1 DEF IsOffsets, W, T
  <2>3. /\ g[1] = g[0] + W(1) /\ g[2] = g[1] + W(2) /\ g[3] = g[2] + W(3) /\ g[4] = g[3] + W(4)
        /\ g[5] = g[4] + W(5)
    BY <2>2
  <2> QED BY <1>3, <1>4, <1>5, <2>2, <2>3
<1>8. Reserved("make_resume_envelope", ll) =
          32 + Len1(ll.request_id) + Len1(ll.host_io_result_cbor)
  <2>1. Reserved("make_resume_envelope", ll) = ResumeEnvelopeLen(ll)
    BY DEF Reserved
  <2>2. /\ FieldLen("request_id", ll.request_id) = 11 + Len1(ll.request_id)
        /\ FieldLen("host_io_result_cbor", ll.host_io_result_cbor) =
          20 + Len1(ll.host_io_result_cbor)
    BY <1>2, FieldLens
  <2> QED BY <1>3, <2>1, <2>2, Len1Constants DEF ResumeEnvelopeLen
<1>9. Reserved("make_resume_envelope", ll) \in Nat \ {0}
  BY <1>3, <1>8
<1>10. ASSUME NEW g, IsOffsets(g, "make_resume_envelope", ll)
       PROVE  /\ g[5] <=
                    Reserved("make_resume_envelope", ll) + Excess("make_resume_envelope")
              /\ "make_resume_envelope" \in ReportsReserved =>
                    g[5] = Reserved("make_resume_envelope", ll)
  BY <1>3, <1>7, <1>8, <1>10 DEF Excess
<1>11. Count("make_resume_envelope", ll) = 5
  BY <1>1 DEF ResumeTable, Count, T
<1>12. \A k \in 1..5 : Written(Items("make_resume_envelope", ll)[k], ll) \in Nat \ {0}
  BY <1>6 DEF W, T
<1> QED BY <1>9, <1>10, <1>11, <1>12 DEF Fitting

\* Its reader takes every value unless a text is empty.
LEMMA ResumeLegible ==
    ASSUME NEW ll, Typed("make_resume_envelope", ll)
    PROVE  Legible("make_resume_envelope", ll)
<1> DEFINE T == Items("make_resume_envelope", ll)
<1> DEFINE V(k) == WantsAt("make_resume_envelope", ll, k)
<1>1. ResumeTable(T)
  BY ResumeItems
<1> HIDE DEF T
<1>2. /\ Reader("make_resume_envelope") = "parse_production_envelope"
      /\ Count("make_resume_envelope", ll) = 5
  BY <1>1 DEF Reader, ResumeTable, Count, T
<1>3. "make_resume_envelope" \notin Needs /\ "make_resume_envelope" \notin Errors
  BY DEF Needs, Errors
<1>4. /\ T[2].s = "request_id" /\ T[4].s = "host_io_result_cbor"
  BY <1>1, KeyKinds DEF ResumeTable
<1>5. ASSUME NEW k \in 2..5, k % 2 = 0
      PROVE  T[k].kind \in {"key", "short"} /\ T[k].s # NoKey
  <2>1. k \in {2, 4}
    BY <1>5
  <2>2. /\ T[2].kind = "key" /\ T[4].kind = "key"
    BY <1>1, KeyKinds DEF ResumeTable
  <2> QED BY <1>4, <2>1, <2>2 DEF NoKey
<1>6. /\ V(2) = {"text"} /\ V(4) = {"bytes"}
  BY <1>2, <1>4, EnvelopeWants DEF WantsAt, T
<1>7. T[1].kind = "map" /\ Children(T[1]) = 4
  BY <1>1, FixedKinds DEF ResumeTable
<1>8. ASSUME NEW k \in 2..5 PROVE Children(T[k]) = Nested("make_resume_envelope", k)
  <2>1. k \in {2, 3, 4, 5}
    OBVIOUS
  <2>2. /\ Children(T[2]) = 0 /\ Children(T[4]) = 0
    BY <1>1, KeyKinds DEF ResumeTable
  <2>3. /\ Children(T[3]) = 0 /\ Children(T[5]) = 0
    BY <1>1, FieldKinds DEF ResumeTable
  <2> QED BY <1>3, <2>1, <2>2, <2>3 DEF Nested
<1>9. /\ (ll.request_id = 0 => Wire(T[3], ll) = "empty")
      /\ (ll.request_id # 0 => Wire(T[3], ll) = "text") /\ Wire(T[5], ll) = "bytes"
  BY <1>1, FieldWires DEF ResumeTable
<1>10. ASSUME NEW k \in 3..5, k % 2 = 1
       PROVE  \/ Fits("make_resume_envelope", ll, k)
              \/ \E f \in {"request_id"} : ll[f] = 0
  <2>1. k \in {3, 5}
    BY <1>10
  <2>2. Fits("make_resume_envelope", ll, k) <=> V(k - 1) = {} \/ Wire(T[k], ll) \in V(k - 1)
    BY DEF Fits, T
  <2> HIDE DEF V
  <2>3. V(k - 1) = {} \/ Wire(T[k], ll) \in V(k - 1)
        \/ ll.request_id = 0
    BY <1>6, <1>9, <2>1
  <2> QED BY <2>2, <2>3
<1>11. /\ Strict("make_resume_envelope")
       /\ Fields("make_resume_envelope") \cap Insisted = {"request_id"}
  <2> DEFINE Z == Items("make_resume_envelope", NoFields)
  <2>1. ResumeTable(Z)
    BY ResumeItems
  <2> HIDE DEF Z
  <2>2. /\ Z[1].kind = "map" /\ Z[2].kind = "key" /\ Z[4].kind = "key"
    BY <2>1, KeyKinds, FixedKinds DEF ResumeTable, One, Flag, Digest
  <2>3. /\ Z[3] = Text("request_id") /\ Z[5] = Bytes("host_io_result_cbor")
    BY <2>1 DEF ResumeTable
  <2>4. /\ Z[3].f = "request_id" /\ Z[5].f = "host_io_result_cbor"
    BY <2>3, FieldKinds
  <2>5. Len(Z) = 5
    BY <2>1 DEF ResumeTable
  <2>6. ASSUME NEW n \in 1..5, Z[n].kind \in {"text", "bytes", "uint"}
        PROVE  Z[n].f \in {"request_id", "host_io_result_cbor"}
    <3>1. n \in {1, 2, 3, 4, 5}
      OBVIOUS
    <3> QED BY <2>2, <2>4, <2>6, <3>1
  <2>7. Fields("make_resume_envelope") \subseteq
          {"request_id", "host_io_result_cbor"}
    <3>1. ASSUME NEW f \in Fields("make_resume_envelope")
          PROVE  \E n \in 1..Len(Z) : Z[n].kind \in {"text", "bytes", "uint"} /\ f = Z[n].f
      BY DEF Fields, NoFields, Z
    <3> QED BY <2>5, <2>6, <3>1
  <2>8. Count("make_resume_envelope", NoFields) = 5
    BY <2>5 DEF Count, Z
  <2>9. "request_id" \in Fields("make_resume_envelope")
    <3>1. 3 \in 1..Count("make_resume_envelope", NoFields)
      BY <2>8
    <3> QED BY <2>3, <3>1, FieldAt DEF Z
  <2> QED BY <1>2, <2>7, <2>9 DEF Strict, Insisted
<1>12. ASSUME NEW f \in {"request_id"}, ll[f] = 0
       PROVE  \E k \in 3..5 : k % 2 = 1 /\ ~Fits("make_resume_envelope", ll, k)
  <2>1. ASSUME NEW k \in 3..5, V(k - 1) # {}, Wire(T[k], ll) \notin V(k - 1)
        PROVE  ~Fits("make_resume_envelope", ll, k)
    BY <2>1 DEF Fits, T
  <2> HIDE DEF V
  <2>2. CASE f = "request_id"
    <3>1. V(2) # {} /\ Wire(T[3], ll) \notin V(2) /\ 3 \in 3..5 /\ 3 % 2 = 1 /\ 3 - 1 = 2
      BY <1>6, <1>9, <1>12, <2>2
    <3> QED BY <2>1, <3>1
  <2> QED BY <2>2
<1>13. Taken("make_resume_envelope", ll, 6) =
         {"request_id", "host_io_result_cbor"}
  <2>1. TakenAt("make_resume_envelope", ll, 6) = {2, 4}
    <3>1. ASSUME NEW k \in 2..5, k % 2 = 0 
          PROVE  k \in {2, 4} /\ k + 1 < 6
      BY <3>1
    <3>2. TakenAt("make_resume_envelope", ll, 6) = {k \in 2..5 : k % 2 = 0 /\ V(k) # {}}
      BY <1>2, <3>1 DEF TakenAt
    <3> HIDE DEF V
    <3> QED BY <1>6, <3>1, <3>2
  <2> QED BY <1>4, <2>1 DEF Taken, T
<1>14. Outcome("make_resume_envelope", Taken("make_resume_envelope", ll, 6)) =
         Expected("make_resume_envelope")
  <2>1. Expected("make_resume_envelope") = "accepted"
    BY DEF Expected
  <2>2. Outcome("make_resume_envelope", Taken("make_resume_envelope", ll, 6)) =
          "accepted"
    BY <1>2, <1>13, EnvelopeOutcome DEF Required
  <2> QED BY <2>1, <2>2
<1>15. Children(T[1]) = Due("make_resume_envelope", 5, 2)
  BY <1>3, <1>7 DEF Due
<1>16. ASSUME NEW k \in 2..5, k % 2 = 0
       PROVE  /\ "make_resume_envelope" \in Errors /\ k >= 10 => V(k) = {}
              /\ "make_resume_envelope" \in Needs /\ k = 6 => V(k) # {}
  <2>1. k \in {2, 4}
    BY <1>16
  <2> HIDE DEF V
  <2> QED BY <1>3, <1>6, <2>1
<1>17. ASSUME NEW k \in 3..5, k % 2 = 1
       PROVE  \/ Fits("make_resume_envelope", ll, k)
              \/ /\ Strict("make_resume_envelope")
                 /\ \E f \in Fields("make_resume_envelope") \cap Insisted : ll[f] = 0
  BY <1>10, <1>11, <1>17
<1> QED BY <1>2, <1>3, <1>5, <1>7, <1>8, <1>11, <1>12, <1>14, <1>15, <1>16, <1>17
        DEF Legible, T

\* The items of the result of an HTTP exchange.
HttpResultTable(T) ==
    /\ Len(T) = 15 /\ T[1] = Map(7) /\ T[2] = Key("io_id") /\ T[3] = Text("io_id")
    /\ T[4] = Key("kind") /\ T[5] = Key("http_post") /\ T[6] = Key("status")
    /\ T[7] = Uint("status") /\ T[8] = Key("response_body") /\ T[9] = Bytes("result")
    /\ T[10] = Key("sequence") /\ T[11] = One /\ T[12] = Key("request_body_sha256")
    /\ T[13] = Digest /\ T[14] = Key("normalized_input_sha256") /\ T[15] = Digest

\* The items that are written are those of the table.
LEMMA HttpResultItems ==
    ASSUME NEW ll
    PROVE  HttpResultTable(Items("make_http_post_result", ll))
BY DEF HttpResultTable, Items, make_host_io_result_cbor

\* They take up what was computed for them.
LEMMA HttpResultFitting ==
    ASSUME NEW ll, Typed("make_http_post_result", ll)
    PROVE  Fitting("make_http_post_result", ll)
<1> DEFINE T == Items("make_http_post_result", ll)
<1> DEFINE Z == Items("make_http_post_result", NoFields)
<1> DEFINE W(k) == Written(T[k], ll)
<1>1. HttpResultTable(T) /\ HttpResultTable(Z)
  BY HttpResultItems
<1> HIDE DEF T, Z
<1>2. /\ ll.io_id \in Nat /\ ll.status \in Nat /\ ll.result \in Nat
  <2>1. /\ Count("make_http_post_result", NoFields) = 15 /\ Z[3] = Text("io_id")
        /\ Z[7] = Uint("status") /\ Z[9] = Bytes("result") /\ {3, 7, 9} \subseteq 1..15
    BY <1>1 DEF HttpResultTable, Count, Z
  <2> QED BY <2>1, FieldAt DEF Z
<1>3. /\ Len1(ll.io_id) \in Nat \ {0} /\ TypeLenSize(ll.status) \in Nat \ {0}
      /\ Len1(ll.result) \in Nat \ {0}
  BY <1>2, Len1Size
<1>4. /\ W(1) = 1 /\ W(2) = 6 /\ W(4) = 5 /\ W(5) = 10 /\ W(6) = 7 /\ W(8) = 14 /\ W(10) = 9
      /\ W(11) = 1 /\ W(12) = 20 /\ W(13) = 34 /\ W(14) = 24 /\ W(15) = 34
  BY <1>1, FixedSizes, LiteralSizes DEF HttpResultTable
<1>5. /\ W(3) = Len1(ll.io_id) /\ W(7) = TypeLenSize(ll.status) /\ W(9) = Len1(ll.result)
  BY <1>1, <1>2, FieldSizes DEF HttpResultTable
<1> HIDE DEF W
<1>6. ASSUME NEW k \in 1..15 PROVE W(k) \in Nat \ {0}
  <2>1. k \in {1, 2, 3, 4, 5, 6, 7, 8, 9, 10, 11, 12, 13, 14, 15}
    OBVIOUS
  <2> QED BY <1>3, <1>4, <1>5, <2>1
<1>7. ASSUME NEW g, IsOffsets(g, "make_http_post_result", ll)
      PROVE  g[15] = 165 + Len1(ll.io_id) + TypeLenSize(ll.status) + Len1(ll.result)
  <2>1. Count("make_http_post_result", ll) = 15
    BY <1>1 DEF HttpResultTable, Count, T
  <2>2. g[0] = 0 /\ \A k \in 1..15 : g[k] = g[k - 1] + W(k)
    BY <1>7, <2>1 DEF IsOffsets, W, T
  <2>3. /\ g[1] = g[0] + W(1) /\ g[2] = g[1] + W(2) /\ g[3] = g[2] + W(3) /\ g[4] = g[3] + W(4)
        /\ g[5] = g[4] + W(5) /\ g[6] = g[5] + W(6) /\ g[7] = g[6] + W(7) /\ g[8] = g[7] + W(8)
        /\ g[9] = g[8] + W(9) /\ g[10] = g[9] + W(10) /\ g[11] = g[10] + W(11)
        /\ g[12] = g[11] + W(12) /\ g[13] = g[12] + W(13) /\ g[14] = g[13] + W(14)
        /\ g[15] = g[14] + W(15)
    BY <2>2
  <2>4. g[6] = 29 + Len1(ll.io_id)
    BY <1>3, <1>4, <1>5, <2>2, <2>3
  <2>5. g[12] = 73 + Len1(ll.io_id) + TypeLenSize(ll.status) + Len1(ll.result)
    BY <1>3, <1>4, <1>5, <2>2, <2>3, <2>4
  <2> QED BY <1>3, <1>4, <1>5, <2>2, <2>3, <2>5
<1>8. Reserved("make_http_post_result", ll) =
          165 + Len1(ll.io_id) + TypeLenSize(ll.status) + Len1(ll.result)
  <2>1. Reserved("make_http_post_result", ll) = HostIoResultLen("http_post", "response_body", ll)
    BY DEF Reserved
  <2>2. Len("http_post") = 9
    BY TextLengths
  <2>3. /\ FieldLen("io_id", ll.io_id) = 6 + Len1(ll.io_id) /\ FieldLen("kind", 9) = 5 + Len1(9)
        /\ FieldLen("response_body", ll.result) = 14 + Len1(ll.result)
        /\ FieldLen("request_body_sha256", 32) = 20 + Len1(32)
        /\ FieldLen("normalized_input_sha256", 32) = 24 + Len1(32)
    BY <1>2, FieldLens
  <2>4. HostIoResultLen("http_post", "response_body", ll) =
          1 + FieldLen("io_id", ll.io_id) + FieldLen("kind", 9) + Len1(6) + TypeLenSize(ll.status)
            + FieldLen("response_body", ll.result) + Len1(8) + TypeLenSize(1)
            + FieldLen("request_body_sha256", 32) + FieldLen("normalized_input_sha256", 32)
    BY <2>2 DEF HostIoResultLen
  <2> QED BY <1>3, <2>1, <2>3, <2>4, Len1Constants
<1>9. Reserved("make_http_post_result", ll) \in Nat \ {0}
  BY <1>3, <1>8
<1>10. ASSUME NEW g, IsOffsets(g, "make_http_post_result", ll)
       PROVE  /\ g[15] <=
                    Reserved("make_http_post_result", ll) + Excess("make_http_post_result")
              /\ "make_http_post_result" \in ReportsReserved =>
                    g[15] = Reserved("make_http_post_result", ll)
  BY <1>3, <1>7, <1>8, <1>10 DEF Excess
<1>11. Count("make_http_post_result", ll) = 15
  BY <1>1 DEF HttpResultTable, Count, T
<1>12. \A k \in 1..15 : Written(Items("make_http_post_result", ll)[k], ll) \in Nat \ {0}
  BY <1>6 DEF W, T
<1> QED BY <1>9, <1>10, <1>11, <1>12 DEF Fitting

\* Its reader takes every value unless a text is empty.
LEMMA HttpResultLegible ==
    ASSUME NEW ll, Typed("make_http_post_result", ll)
    PROVE  Legible("make_http_post_result", ll)
<1> DEFINE T == Items("make_http_post_result", ll)
<1> DEFINE V(k) == WantsAt("make_http_post_result", ll, k)
<1>1. HttpResultTable(T)
  BY HttpResultItems
<1> HIDE DEF T
<1>2. /\ Reader("make_http_post_result") = "host_io_result_ok"
      /\ Count("make_http_post_result", ll) = 15
  BY <1>1 DEF Reader, HttpResultTable, Count, T
<1>3. "make_http_post_result" \notin Needs /\ "make_http_post_result" \notin Errors
  BY DEF Needs, Errors
<1>4. /\ T[2].s = "io_id" /\ T[4].s = "kind" /\ T[6].s = "status" /\ T[8].s = "response_body"
      /\ T[10].s = "sequence" /\ T[12].s = "request_body_sha256"
      /\ T[14].s = "normalized_input_sha256"
  BY <1>1, KeyKinds DEF HttpResultTable
<1>5. ASSUME NEW k \in 2..15, k % 2 = 0
      PROVE  T[k].kind \in {"key", "short"} /\ T[k].s # NoKey
  <2>1. k \in {2, 4, 6, 8, 10, 12, 14}
    BY <1>5
  <2>2. /\ T[2].kind = "key" /\ T[4].kind = "key" /\ T[6].kind = "key" /\ T[8].kind = "key"
        /\ T[10].kind = "key" /\ T[12].kind = "key" /\ T[14].kind = "key"
    BY <1>1, KeyKinds DEF HttpResultTable
  <2> QED BY <1>4, <2>1, <2>2 DEF NoKey
<1>6. /\ V(2) = {"text"} /\ V(4) = {"text"} /\ V(6) = {"uint", "one"} /\ V(8) = {"bytes"}
      /\ V(10) = {"uint", "one"} /\ V(12) = {"bytes"} /\ V(14) = {"bytes"}
  BY <1>2, <1>4, ResultWants DEF WantsAt, T
<1>7. T[1].kind = "map" /\ Children(T[1]) = 14
  BY <1>1, FixedKinds DEF HttpResultTable
<1>8. ASSUME NEW k \in 2..15 PROVE Children(T[k]) = Nested("make_http_post_result", k)
  <2>1. k \in {2, 3, 4, 5, 6, 7, 8, 9, 10, 11, 12, 13, 14, 15}
    OBVIOUS
  <2>2. /\ Children(T[2]) = 0 /\ Children(T[4]) = 0 /\ Children(T[5]) = 0 /\ Children(T[6]) = 0
        /\ Children(T[8]) = 0 /\ Children(T[10]) = 0 /\ Children(T[12]) = 0 /\ Children(T[14]) = 0
    BY <1>1, KeyKinds DEF HttpResultTable
  <2>3. /\ Children(T[3]) = 0 /\ Children(T[7]) = 0 /\ Children(T[9]) = 0
    BY <1>1, FieldKinds DEF HttpResultTable
  <2>4. /\ Children(T[11]) = 0 /\ Children(T[13]) = 0 /\ Children(T[15]) = 0
    BY <1>1, FixedKinds DEF HttpResultTable
  <2> QED BY <1>3, <2>1, <2>2, <2>3, <2>4 DEF Nested
<1>9. /\ Wire(T[5], ll) = "text"
  <2>1. /\ Len("http_post") # 0
    BY TextLengths
  <2> QED BY <1>1, <2>1, KeyWires DEF HttpResultTable
<1>10. /\ (ll.io_id = 0 => Wire(T[3], ll) = "empty") /\ (ll.io_id # 0 => Wire(T[3], ll) = "text")
      /\ Wire(T[7], ll) = "uint" /\ Wire(T[9], ll) = "bytes"
  BY <1>1, FieldWires DEF HttpResultTable
<1>11. /\ Wire(T[11], ll) = "one" /\ Wire(T[13], ll) = "bytes" /\ Wire(T[15], ll) = "bytes"
  BY <1>1, FixedWires DEF HttpResultTable
<1>12. ASSUME NEW k \in 3..15, k % 2 = 1
       PROVE  \/ Fits("make_http_post_result", ll, k)
              \/ \E f \in {"io_id"} : ll[f] = 0
  <2>1. k \in {3, 5, 7, 9, 11, 13, 15}
    BY <1>12
  <2>2. Fits("make_http_post_result", ll, k) <=> V(k - 1) = {} \/ Wire(T[k], ll) \in V(k - 1)
    BY DEF Fits, T
  <2> HIDE DEF V
  <2>3. V(k - 1) = {} \/ Wire(T[k], ll) \in V(k - 1)
        \/ ll.io_id = 0
    BY <1>6, <1>9, <1>10, <1>11, <2>1
  <2> QED BY <2>2, <2>3
<1>13. /\ Strict("make_http_post_result")
       /\ Fields("make_http_post_result") \cap Insisted = {"io_id"}
  <2> DEFINE Z == Items("make_http_post_result", NoFields)
  <2>1. HttpResultTable(Z)
    BY HttpResultItems
  <2> HIDE DEF Z
  <2>2. /\ Z[1].kind = "map" /\ Z[2].kind = "key" /\ Z[4].kind = "key" /\ Z[5].kind = "key"
        /\ Z[6].kind = "key" /\ Z[8].kind = "key" /\ Z[10].kind = "key" /\ Z[11].kind = "one"
        /\ Z[12].kind = "key" /\ Z[13].kind = "digest" /\ Z[14].kind = "key"
        /\ Z[15].kind = "digest"
    BY <2>1, KeyKinds, FixedKinds DEF HttpResultTable, One, Flag, Digest
  <2>3. /\ Z[3] = Text("io_id") /\ Z[7] = Uint("status") /\ Z[9] = Bytes("result")
    BY <2>1 DEF HttpResultTable
  <2>4. /\ Z[3].f = "io_id" /\ Z[7].f = "status" /\ Z[9].f = "result"
    BY <2>3, FieldKinds
  <2>5. Len(Z) = 15
    BY <2>1 DEF HttpResultTable
  <2>6. ASSUME NEW n \in 1..15, Z[n].kind \in {"text", "bytes", "uint"}
        PROVE  Z[n].f \in {"io_id", "status", "result"}
    <3>1. n \in {1, 2, 3, 4, 5, 6, 7, 8, 9, 10, 11, 12, 13, 14, 15}
      OBVIOUS
    <3> QED BY <2>2, <2>4, <2>6, <3>1
  <2>7. Fields("make_http_post_result") \subseteq
          {"io_id", "status", "result"}
    <3>1. ASSUME NEW f \in Fields("make_http_post_result")
          PROVE  \E n \in 1..Len(Z) : Z[n].kind \in {"text", "bytes", "uint"} /\ f = Z[n].f
      BY DEF Fields, NoFields, Z
    <3> QED BY <2>5, <2>6, <3>1
  <2>8. Count("make_http_post_result", NoFields) = 15
    BY <2>5 DEF Count, Z
  <2>9. "io_id" \in Fields("make_http_post_result")
    <3>1. 3 \in 1..Count("make_http_post_result", NoFields)
      BY <2>8
    <3> QED BY <2>3, <3>1, FieldAt DEF Z
  <2> QED BY <1>2, <2>7, <2>9 DEF Strict, Insisted
<1>14. ASSUME NEW f \in {"io_id"}, ll[f] = 0
       PROVE  \E k \in 3..15 : k % 2 = 1 /\ ~Fits("make_http_post_result", ll, k)
  <2>1. ASSUME NEW k \in 3..15, V(k - 1) # {}, Wire(T[k], ll) \notin V(k - 1)
        PROVE  ~Fits("make_http_post_result", ll, k)
    BY <2>1 DEF Fits, T
  <2> HIDE DEF V
  <2>2. CASE f = "io_id"
    <3>1. V(2) # {} /\ Wire(T[3], ll) \notin V(2) /\ 3 \in 3..15 /\ 3 % 2 = 1 /\ 3 - 1 = 2
      BY <1>6, <1>9, <1>10, <1>11, <1>14, <2>2
    <3> QED BY <2>1, <3>1
  <2> QED BY <2>2
<1>15. Taken("make_http_post_result", ll, 16) =
         {"io_id", "kind", "status", "response_body", "sequence", "request_body_sha256",
          "normalized_input_sha256"}
  <2>1. TakenAt("make_http_post_result", ll, 16) = {2, 4, 6, 8, 10, 12, 14}
    <3>1. ASSUME NEW k \in 2..15, k % 2 = 0 
          PROVE  k \in {2, 4, 6, 8, 10, 12, 14} /\ k + 1 < 16
      BY <3>1
    <3>2. TakenAt("make_http_post_result", ll, 16) = {k \in 2..15 : k % 2 = 0 /\ V(k) # {}}
      BY <1>2, <3>1 DEF TakenAt
    <3> HIDE DEF V
    <3> QED BY <1>6, <3>1, <3>2
  <2> QED BY <1>4, <2>1 DEF Taken, T
<1>16. Outcome("make_http_post_result", Taken("make_http_post_result", ll, 16)) =
         Expected("make_http_post_result")
  <2>1. Expected("make_http_post_result") = "accepted"
    BY DEF Expected
  <2>2. Outcome("make_http_post_result", Taken("make_http_post_result", ll, 16)) =
          "accepted"
    BY <1>2, <1>15, ResultOutcome
  <2> QED BY <2>1, <2>2
<1>17. Children(T[1]) = Due("make_http_post_result", 15, 2)
  BY <1>3, <1>7 DEF Due
<1>18. ASSUME NEW k \in 2..15, k % 2 = 0
       PROVE  /\ "make_http_post_result" \in Errors /\ k >= 10 => V(k) = {}
              /\ "make_http_post_result" \in Needs /\ k = 6 => V(k) # {}
  <2>1. k \in {2, 4, 6, 8, 10, 12, 14}
    BY <1>18
  <2> HIDE DEF V
  <2> QED BY <1>3, <1>6, <2>1
<1>19. ASSUME NEW k \in 3..15, k % 2 = 1
       PROVE  \/ Fits("make_http_post_result", ll, k)
              \/ /\ Strict("make_http_post_result")
                 /\ \E f \in Fields("make_http_post_result") \cap Insisted : ll[f] = 0
  BY <1>12, <1>13, <1>19
<1> QED BY <1>2, <1>3, <1>5, <1>7, <1>8, <1>13, <1>14, <1>16, <1>17, <1>18, <1>19
        DEF Legible, T

\* The items of the result of an Evidence request.
EvidenceResultTable(T) ==
    /\ Len(T) = 15 /\ T[1] = Map(7) /\ T[2] = Key("io_id") /\ T[3] = Text("io_id")
    /\ T[4] = Key("kind") /\ T[5] = Key("create_evidence") /\ T[6] = Key("status")
    /\ T[7] = Uint("status") /\ T[8] = Key("evidence") /\ T[9] = Bytes("result")
    /\ T[10] = Key("sequence") /\ T[11] = One /\ T[12] = Key("request_body_sha256")
    /\ T[13] = Digest /\ T[14] = Key("normalized_input_sha256") /\ T[15] = Digest

\* The items that are written are those of the table.
LEMMA EvidenceResultItems ==
    ASSUME NEW ll
    PROVE  EvidenceResultTable(Items("make_create_evidence_result", ll))
BY DEF EvidenceResultTable, Items, make_host_io_result_cbor

\* They take up what was computed for them.
LEMMA EvidenceResultFitting ==
    ASSUME NEW ll, Typed("make_create_evidence_result", ll)
    PROVE  Fitting("make_create_evidence_result", ll)
<1> DEFINE T == Items("make_create_evidence_result", ll)
<1> DEFINE Z == Items("make_create_evidence_result", NoFields)
<1> DEFINE W(k) == Written(T[k], ll)
<1>1. EvidenceResultTable(T) /\ EvidenceResultTable(Z)
  BY EvidenceResultItems
<1> HIDE DEF T, Z
<1>2. /\ ll.io_id \in Nat /\ ll.status \in Nat /\ ll.result \in Nat
  <2>1. /\ Count("make_create_evidence_result", NoFields) = 15 /\ Z[3] = Text("io_id")
        /\ Z[7] = Uint("status") /\ Z[9] = Bytes("result") /\ {3, 7, 9} \subseteq 1..15
    BY <1>1 DEF EvidenceResultTable, Count, Z
  <2> QED BY <2>1, FieldAt DEF Z
<1>3. /\ Len1(ll.io_id) \in Nat \ {0} /\ TypeLenSize(ll.status) \in Nat \ {0}
      /\ Len1(ll.result) \in Nat \ {0}
  BY <1>2, Len1Size
<1>4. /\ W(1) = 1 /\ W(2) = 6 /\ W(4) = 5 /\ W(5) = 16 /\ W(6) = 7 /\ W(8) = 9 /\ W(10) = 9
      /\ W(11) = 1 /\ W(12) = 20 /\ W(13) = 34 /\ W(14) = 24 /\ W(15) = 34
  BY <1>1, FixedSizes, LiteralSizes DEF EvidenceResultTable
<1>5. /\ W(3) = Len1(ll.io_id) /\ W(7) = TypeLenSize(ll.status) /\ W(9) = Len1(ll.result)
  BY <1>1, <1>2, FieldSizes DEF EvidenceResultTable
<1> HIDE DEF W
<1>6. ASSUME NEW k \in 1..15 PROVE W(k) \in Nat \ {0}
  <2>1. k \in {1, 2, 3, 4, 5, 6, 7, 8, 9, 10, 11, 12, 13, 14, 15}
    OBVIOUS
  <2> QED BY <1>3, <1>4, <1>5, <2>1
<1>7. ASSUME NEW g, IsOffsets(g, "make_create_evidence_result", ll)
      PROVE  g[15] = 166 + Len1(ll.io_id) + TypeLenSize(ll.status) + Len1(ll.result)
  <2>1. Count("make_create_evidence_result", ll) = 15
    BY <1>1 DEF EvidenceResultTable, Count, T
  <2>2. g[0] = 0 /\ \A k \in 1..15 : g[k] = g[k - 1] + W(k)
    BY <1>7, <2>1 DEF IsOffsets, W, T
  <2>3. /\ g[1] = g[0] + W(1) /\ g[2] = g[1] + W(2) /\ g[3] = g[2] + W(3) /\ g[4] = g[3] + W(4)
        /\ g[5] = g[4] + W(5) /\ g[6] = g[5] + W(6) /\ g[7] = g[6] + W(7) /\ g[8] = g[7] + W(8)
        /\ g[9] = g[8] + W(9) /\ g[10] = g[9] + W(10) /\ g[11] = g[10] + W(11)
        /\ g[12] = g[11] + W(12) /\ g[13] = g[12] + W(13) /\ g[14] = g[13] + W(14)
        /\ g[15] = g[14] + W(15)
    BY <2>2
  <2>4. g[6] = 35 + Len1(ll.io_id)
    BY <1>3, <1>4, <1>5, <2>2, <2>3
  <2>5. g[12] = 74 + Len1(ll.io_id) + TypeLenSize(ll.status) + Len1(ll.result)
    BY <1>3, <1>4, <1>5, <2>2, <2>3, <2>4
  <2> QED BY <1>3, <1>4, <1>5, <2>2, <2>3, <2>5
<1>8. Reserved("make_create_evidence_result", ll) =
          166 + Len1(ll.io_id) + TypeLenSize(ll.status) + Len1(ll.result)
  <2>1. Reserved("make_create_evidence_result", ll) =
          HostIoResultLen("create_evidence", "evidence", ll)
    BY DEF Reserved
  <2>2. Len("create_evidence") = 15
    BY TextLengths
  <2>3. /\ FieldLen("io_id", ll.io_id) = 6 + Len1(ll.io_id) /\ FieldLen("kind", 15) = 5 + Len1(15)
        /\ FieldLen("evidence", ll.result) = 9 + Len1(ll.result)
        /\ FieldLen("request_body_sha256", 32) = 20 + Len1(32)
        /\ FieldLen("normalized_input_sha256", 32) = 24 + Len1(32)
    BY <1>2, FieldLens
  <2>4. HostIoResultLen("create_evidence", "evidence", ll) =
          1 + FieldLen("io_id", ll.io_id) + FieldLen("kind", 15) + Len1(6) + TypeLenSize(ll.status)
            + FieldLen("evidence", ll.result) + Len1(8) + TypeLenSize(1)
            + FieldLen("request_body_sha256", 32) + FieldLen("normalized_input_sha256", 32)
    BY <2>2 DEF HostIoResultLen
  <2> QED BY <1>3, <2>1, <2>3, <2>4, Len1Constants
<1>9. Reserved("make_create_evidence_result", ll) \in Nat \ {0}
  BY <1>3, <1>8
<1>10. ASSUME NEW g, IsOffsets(g, "make_create_evidence_result", ll)
       PROVE  /\ g[15] <=
                    Reserved("make_create_evidence_result", ll)
                      + Excess("make_create_evidence_result")
              /\ "make_create_evidence_result" \in ReportsReserved =>
                    g[15] = Reserved("make_create_evidence_result", ll)
  BY <1>3, <1>7, <1>8, <1>10 DEF Excess
<1>11. Count("make_create_evidence_result", ll) = 15
  BY <1>1 DEF EvidenceResultTable, Count, T
<1>12. \A k \in 1..15 : Written(Items("make_create_evidence_result", ll)[k], ll) \in Nat \ {0}
  BY <1>6 DEF W, T
<1> QED BY <1>9, <1>10, <1>11, <1>12 DEF Fitting

\* Its reader takes every value unless a text is empty.
LEMMA EvidenceResultLegible ==
    ASSUME NEW ll, Typed("make_create_evidence_result", ll)
    PROVE  Legible("make_create_evidence_result", ll)
<1> DEFINE T == Items("make_create_evidence_result", ll)
<1> DEFINE V(k) == WantsAt("make_create_evidence_result", ll, k)
<1>1. EvidenceResultTable(T)
  BY EvidenceResultItems
<1> HIDE DEF T
<1>2. /\ Reader("make_create_evidence_result") = "host_io_result_ok"
      /\ Count("make_create_evidence_result", ll) = 15
  BY <1>1 DEF Reader, EvidenceResultTable, Count, T
<1>3. "make_create_evidence_result" \notin Needs /\ "make_create_evidence_result" \notin Errors
  BY DEF Needs, Errors
<1>4. /\ T[2].s = "io_id" /\ T[4].s = "kind" /\ T[6].s = "status" /\ T[8].s = "evidence"
      /\ T[10].s = "sequence" /\ T[12].s = "request_body_sha256"
      /\ T[14].s = "normalized_input_sha256"
  BY <1>1, KeyKinds DEF EvidenceResultTable
<1>5. ASSUME NEW k \in 2..15, k % 2 = 0
      PROVE  T[k].kind \in {"key", "short"} /\ T[k].s # NoKey
  <2>1. k \in {2, 4, 6, 8, 10, 12, 14}
    BY <1>5
  <2>2. /\ T[2].kind = "key" /\ T[4].kind = "key" /\ T[6].kind = "key" /\ T[8].kind = "key"
        /\ T[10].kind = "key" /\ T[12].kind = "key" /\ T[14].kind = "key"
    BY <1>1, KeyKinds DEF EvidenceResultTable
  <2> QED BY <1>4, <2>1, <2>2 DEF NoKey
<1>6. /\ V(2) = {"text"} /\ V(4) = {"text"} /\ V(6) = {"uint", "one"} /\ V(8) = {"bytes"}
      /\ V(10) = {"uint", "one"} /\ V(12) = {"bytes"} /\ V(14) = {"bytes"}
  BY <1>2, <1>4, ResultWants DEF WantsAt, T
<1>7. T[1].kind = "map" /\ Children(T[1]) = 14
  BY <1>1, FixedKinds DEF EvidenceResultTable
<1>8. ASSUME NEW k \in 2..15 PROVE Children(T[k]) = Nested("make_create_evidence_result", k)
  <2>1. k \in {2, 3, 4, 5, 6, 7, 8, 9, 10, 11, 12, 13, 14, 15}
    OBVIOUS
  <2>2. /\ Children(T[2]) = 0 /\ Children(T[4]) = 0 /\ Children(T[5]) = 0 /\ Children(T[6]) = 0
        /\ Children(T[8]) = 0 /\ Children(T[10]) = 0 /\ Children(T[12]) = 0 /\ Children(T[14]) = 0
    BY <1>1, KeyKinds DEF EvidenceResultTable
  <2>3. /\ Children(T[3]) = 0 /\ Children(T[7]) = 0 /\ Children(T[9]) = 0
    BY <1>1, FieldKinds DEF EvidenceResultTable
  <2>4. /\ Children(T[11]) = 0 /\ Children(T[13]) = 0 /\ Children(T[15]) = 0
    BY <1>1, FixedKinds DEF EvidenceResultTable
  <2> QED BY <1>3, <2>1, <2>2, <2>3, <2>4 DEF Nested
<1>9. /\ Wire(T[5], ll) = "text"
  <2>1. /\ Len("create_evidence") # 0
    BY TextLengths
  <2> QED BY <1>1, <2>1, KeyWires DEF EvidenceResultTable
<1>10. /\ (ll.io_id = 0 => Wire(T[3], ll) = "empty") /\ (ll.io_id # 0 => Wire(T[3], ll) = "text")
      /\ Wire(T[7], ll) = "uint" /\ Wire(T[9], ll) = "bytes"
  BY <1>1, FieldWires DEF EvidenceResultTable
<1>11. /\ Wire(T[11], ll) = "one" /\ Wire(T[13], ll) = "bytes" /\ Wire(T[15], ll) = "bytes"
  BY <1>1, FixedWires DEF EvidenceResultTable
<1>12. ASSUME NEW k \in 3..15, k % 2 = 1
       PROVE  \/ Fits("make_create_evidence_result", ll, k)
              \/ \E f \in {"io_id"} : ll[f] = 0
  <2>1. k \in {3, 5, 7, 9, 11, 13, 15}
    BY <1>12
  <2>2. Fits("make_create_evidence_result", ll, k) <=> V(k - 1) = {} \/ Wire(T[k], ll) \in V(k - 1)
    BY DEF Fits, T
  <2> HIDE DEF V
  <2>3. V(k - 1) = {} \/ Wire(T[k], ll) \in V(k - 1)
        \/ ll.io_id = 0
    BY <1>6, <1>9, <1>10, <1>11, <2>1
  <2> QED BY <2>2, <2>3
<1>13. /\ Strict("make_create_evidence_result")
       /\ Fields("make_create_evidence_result") \cap Insisted = {"io_id"}
  <2> DEFINE Z == Items("make_create_evidence_result", NoFields)
  <2>1. EvidenceResultTable(Z)
    BY EvidenceResultItems
  <2> HIDE DEF Z
  <2>2. /\ Z[1].kind = "map" /\ Z[2].kind = "key" /\ Z[4].kind = "key" /\ Z[5].kind = "key"
        /\ Z[6].kind = "key" /\ Z[8].kind = "key" /\ Z[10].kind = "key" /\ Z[11].kind = "one"
        /\ Z[12].kind = "key" /\ Z[13].kind = "digest" /\ Z[14].kind = "key"
        /\ Z[15].kind = "digest"
    BY <2>1, KeyKinds, FixedKinds DEF EvidenceResultTable, One, Flag, Digest
  <2>3. /\ Z[3] = Text("io_id") /\ Z[7] = Uint("status") /\ Z[9] = Bytes("result")
    BY <2>1 DEF EvidenceResultTable
  <2>4. /\ Z[3].f = "io_id" /\ Z[7].f = "status" /\ Z[9].f = "result"
    BY <2>3, FieldKinds
  <2>5. Len(Z) = 15
    BY <2>1 DEF EvidenceResultTable
  <2>6. ASSUME NEW n \in 1..15, Z[n].kind \in {"text", "bytes", "uint"}
        PROVE  Z[n].f \in {"io_id", "status", "result"}
    <3>1. n \in {1, 2, 3, 4, 5, 6, 7, 8, 9, 10, 11, 12, 13, 14, 15}
      OBVIOUS
    <3> QED BY <2>2, <2>4, <2>6, <3>1
  <2>7. Fields("make_create_evidence_result") \subseteq
          {"io_id", "status", "result"}
    <3>1. ASSUME NEW f \in Fields("make_create_evidence_result")
          PROVE  \E n \in 1..Len(Z) : Z[n].kind \in {"text", "bytes", "uint"} /\ f = Z[n].f
      BY DEF Fields, NoFields, Z
    <3> QED BY <2>5, <2>6, <3>1
  <2>8. Count("make_create_evidence_result", NoFields) = 15
    BY <2>5 DEF Count, Z
  <2>9. "io_id" \in Fields("make_create_evidence_result")
    <3>1. 3 \in 1..Count("make_create_evidence_result", NoFields)
      BY <2>8
    <3> QED BY <2>3, <3>1, FieldAt DEF Z
  <2> QED BY <1>2, <2>7, <2>9 DEF Strict, Insisted
<1>14. ASSUME NEW f \in {"io_id"}, ll[f] = 0
       PROVE  \E k \in 3..15 : k % 2 = 1 /\ ~Fits("make_create_evidence_result", ll, k)
  <2>1. ASSUME NEW k \in 3..15, V(k - 1) # {}, Wire(T[k], ll) \notin V(k - 1)
        PROVE  ~Fits("make_create_evidence_result", ll, k)
    BY <2>1 DEF Fits, T
  <2> HIDE DEF V
  <2>2. CASE f = "io_id"
    <3>1. V(2) # {} /\ Wire(T[3], ll) \notin V(2) /\ 3 \in 3..15 /\ 3 % 2 = 1 /\ 3 - 1 = 2
      BY <1>6, <1>9, <1>10, <1>11, <1>14, <2>2
    <3> QED BY <2>1, <3>1
  <2> QED BY <2>2
<1>15. Taken("make_create_evidence_result", ll, 16) =
         {"io_id", "kind", "status", "evidence", "sequence", "request_body_sha256",
          "normalized_input_sha256"}
  <2>1. TakenAt("make_create_evidence_result", ll, 16) = {2, 4, 6, 8, 10, 12, 14}
    <3>1. ASSUME NEW k \in 2..15, k % 2 = 0 
          PROVE  k \in {2, 4, 6, 8, 10, 12, 14} /\ k + 1 < 16
      BY <3>1
    <3>2. TakenAt("make_create_evidence_result", ll, 16) = {k \in 2..15 : k % 2 = 0 /\ V(k) # {}}
      BY <1>2, <3>1 DEF TakenAt
    <3> HIDE DEF V
    <3> QED BY <1>6, <3>1, <3>2
  <2> QED BY <1>4, <2>1 DEF Taken, T
<1>16. Outcome("make_create_evidence_result", Taken("make_create_evidence_result", ll, 16)) =
         Expected("make_create_evidence_result")
  <2>1. Expected("make_create_evidence_result") = "accepted"
    BY DEF Expected
  <2>2. Outcome("make_create_evidence_result", Taken("make_create_evidence_result", ll, 16)) =
          "accepted"
    BY <1>2, <1>15, ResultOutcome
  <2> QED BY <2>1, <2>2
<1>17. Children(T[1]) = Due("make_create_evidence_result", 15, 2)
  BY <1>3, <1>7 DEF Due
<1>18. ASSUME NEW k \in 2..15, k % 2 = 0
       PROVE  /\ "make_create_evidence_result" \in Errors /\ k >= 10 => V(k) = {}
              /\ "make_create_evidence_result" \in Needs /\ k = 6 => V(k) # {}
  <2>1. k \in {2, 4, 6, 8, 10, 12, 14}
    BY <1>18
  <2> HIDE DEF V
  <2> QED BY <1>3, <1>6, <2>1
<1>19. ASSUME NEW k \in 3..15, k % 2 = 1
       PROVE  \/ Fits("make_create_evidence_result", ll, k)
              \/ /\ Strict("make_create_evidence_result")
                 /\ \E f \in Fields("make_create_evidence_result") \cap Insisted : ll[f] = 0
  BY <1>12, <1>13, <1>19
<1> QED BY <1>2, <1>3, <1>5, <1>7, <1>8, <1>13, <1>14, <1>16, <1>17, <1>18, <1>19
        DEF Legible, T

\* Every table.
LEMMA Tables ==
    ASSUME NEW bld \in Builders, NEW ll, Typed(bld, ll)
    PROVE  Fitting(bld, ll) /\ Legible(bld, ll)
<1>1. CASE bld = "make_response"
  BY <1>1, ResponseFitting, ReeResponseLegible
<1>2. CASE bld = "build_execute_response"
  BY <1>2, ResponseFitting, TaResponseLegible
<1>3. CASE bld = "make_app_error_response"
  BY <1>3, AppErrorFitting, AppErrorLegible
<1>4. CASE bld = "build_teep_error_execute_response"
  BY <1>4, TeepErrorFitting, TeepErrorLegible
<1>5. CASE bld = "build_app_runtime_error_execute_response"
  BY <1>5, RuntimeErrorFitting, RuntimeErrorLegible
<1>6. CASE bld = "build_final_response_wrapper"
  BY <1>6, FinalFitting, FinalLegible
<1>7. CASE bld = "build_need_host_io_response"
  BY <1>7, NeedHttpFitting, NeedHttpLegible
<1>8. CASE bld = "build_need_evidence_response_with_payload"
  BY <1>8, NeedEvidenceFitting, NeedEvidenceLegible
<1>9. CASE bld = "make_teep_resolve_input"
  BY <1>9, ResolveReeFitting, ResolveReeLegible
<1>10. CASE bld = "build_teep_resolve_input_for_command"
  BY <1>10, ResolveTaFitting, ResolveTaLegible
<1>11. CASE bld = "make_execute_envelope"
  BY <1>11, ExecuteFitting, ExecuteLegible
<1>12. CASE bld = "make_resume_envelope"
  BY <1>12, ResumeFitting, ResumeLegible
<1>13. CASE bld = "make_http_post_result"
  BY <1>13, HttpResultFitting, HttpResultLegible
<1>14. CASE bld = "make_create_evidence_result"
  BY <1>14, EvidenceResultFitting, EvidenceResultLegible
<1> QED BY <1>1, <1>2, <1>3, <1>4, <1>5, <1>6, <1>7, <1>8, <1>9,
           <1>10, <1>11, <1>12, <1>13, <1>14
        DEF Builders, ReeBuilders, TaBuilders

----------------------------------------------------------------------------
(* The steps.                                                              *)

\* What is due goes down to nothing with the last item.
LEMMA DueStep ==
    ASSUME NEW bld, NEW n \in Nat, n % 2 = 1, bld \in Needs => n = 21, bld \in Errors => n = 23,
           NEW k \in 2..n
    PROVE  /\ Due(bld, n, k) \in Nat /\ Due(bld, n, k) > 0
           /\ Due(bld, n, k + 1) = Due(bld, n, k) - 1 + Nested(bld, k)
           /\ Due(bld, n, n + 1) = 0
           /\ bld \in Errors /\ k >= 11 => Due(bld, n, k + 1) \in Nat
<1>1. ~(bld \in Needs /\ bld \in Errors)
  BY DEF Needs, Errors
<1>2. CASE bld \in Needs
  BY <1>1, <1>2 DEF Due, Nested
<1>3. CASE bld \in Errors
  BY <1>1, <1>3 DEF Due, Nested
<1>4. CASE bld \notin Needs /\ bld \notin Errors
  BY <1>4 DEF Due, Nested
<1> QED BY <1>2, <1>3, <1>4

\* A key adds nothing to what was taken; a value adds its key, if its reader wants it.
LEMMA TakenKey ==
    ASSUME NEW bld, NEW ll, Count(bld, ll) \in Nat, NEW n \in 2..Count(bld, ll), n % 2 = 0
    PROVE  Taken(bld, ll, n + 1) = Taken(bld, ll, n)
<1>1. ASSUME NEW k \in 2..Count(bld, ll), k % 2 = 0 PROVE k + 1 < n + 1 <=> k + 1 < n
  BY <1>1
<1>2. TakenAt(bld, ll, n + 1) = TakenAt(bld, ll, n)
  BY <1>1 DEF TakenAt
<1> QED BY <1>2 DEF Taken

\* Reading a value takes its key, when the reader has a use for it.
LEMMA TakenValue ==
    ASSUME NEW bld, NEW ll, Count(bld, ll) \in Nat, NEW n \in 3..Count(bld, ll), n % 2 = 1
    PROVE  Taken(bld, ll, n + 1) =
             Taken(bld, ll, n) \cup (IF WantsAt(bld, ll, n - 1) = {} THEN {}
                                     ELSE {Items(bld, ll)[n - 1].s})
<1>1. ASSUME NEW k \in 2..Count(bld, ll), k % 2 = 0
      PROVE  k + 1 < n + 1 <=> k + 1 < n \/ k = n - 1
  BY <1>1
<1>2. n - 1 \in 2..Count(bld, ll) /\ (n - 1) % 2 = 0
  OBVIOUS
<1>3. TakenAt(bld, ll, n + 1) =
        TakenAt(bld, ll, n) \cup (IF WantsAt(bld, ll, n - 1) = {} THEN {} ELSE {n - 1})
  <2>1. CASE WantsAt(bld, ll, n - 1) = {}
    BY <1>1, <1>2, <2>1 DEF TakenAt
  <2>2. CASE WantsAt(bld, ll, n - 1) # {}
    BY <1>1, <1>2, <2>2 DEF TakenAt
  <2> QED BY <2>1, <2>2
<1>4. CASE WantsAt(bld, ll, n - 1) = {}
  BY <1>3, <1>4 DEF Taken
<1>5. CASE WantsAt(bld, ll, n - 1) # {}
  <2>1. TakenAt(bld, ll, n + 1) = TakenAt(bld, ll, n) \cup {n - 1}
    BY <1>3, <1>5
  <2> HIDE DEF TakenAt
  <2>2. Taken(bld, ll, n + 1) = {Items(bld, ll)[k].s : k \in TakenAt(bld, ll, n) \cup {n - 1}}
    BY <2>1 DEF Taken
  <2>3. Taken(bld, ll, n + 1) = Taken(bld, ll, n) \cup {Items(bld, ll)[n - 1].s}
    BY <2>2 DEF Taken
  <2> QED BY <1>5, <2>3
<1> QED BY <1>4, <1>5

\* Nothing is taken before the first value.
LEMMA TakenFirst ==
    ASSUME NEW bld, NEW ll, Count(bld, ll) \in Nat
    PROVE  Taken(bld, ll, 2) = {}
BY DEF Taken, TakenAt

\* The fields that a builder writes have lengths, also where an empty resolver mode is
\* replaced.
LEMMA EffectiveTyped ==
    ASSUME NEW bld \in Builders, NEW lens \in Lengths[bld]
    PROVE  Typed(bld, Effective(bld, lens))
<1>1. lens = [f \in Fields(bld) |-> lens[f]] /\ Typed(bld, lens)
  BY LengthsAssumption DEF Typed
<1>2. ASSUME NEW f \in Fields(bld)
      PROVE  Effective(bld, lens)[f] \in {lens[f]} \cup (IF f = "resolver_mode" THEN {4} ELSE {})
  <2> HIDE DEF Fields
  <2> QED BY <1>1 DEF Effective
<1> HIDE DEF Fields
<1> QED BY <1>1, <1>2 DEF Typed

\* A message that is not begun.
LEMMA InitMessage == Init => MessageInv
<1> SUFFICES ASSUME Init PROVE MessageInv
  OBVIOUS
<1>1. b \in Builders /\ Typed(b, l)
  BY EffectiveTyped DEF Init
<1> QED BY <1>1 DEF Init, MessageInv, Unread, Delivered

\* Before anything is written, a buffer of the length computed.
LEMMA BuildKeeps ==
    ASSUME MessageInv, NEW slack \in -1..1, Build(slack)
    PROVE  MessageInv'
<1>1. b' = b /\ l' = l /\ b \in Builders /\ Typed(b, l)
  BY DEF MessageInv, Build
<1>2. Typed(b', l') /\ b' \in Builders
  BY <1>1 DEF Typed
<1>3. Fitting(b, l)
  BY <1>1, Tables
<1>4. Reserved(b, l) \in Nat \ {0} /\ Count(b, l) \in Nat
  BY <1>3 DEF Fitting
<1>5. phase = "idle" /\ p' = 0 /\ buffer' = << >> /\ i' = 1 /\ Unread /\ Unread'
  BY DEF MessageInv, Build, Unread
<1>6. CASE slack < 0
  <2>1. phase' = "SHORT_BUFFER" /\ capacity' \in Nat
    BY <1>4, <1>6 DEF Build
  <2> QED BY <1>2, <1>5, <2>1 DEF MessageInv, Delivered
<1>7. CASE ~(slack < 0)
  <2>1. phase' = "writing" /\ capacity' \in Nat /\ capacity' >= Reserved(b, l)
    BY <1>4, <1>7 DEF Build
  <2>2. Offsets(b, l)[0] = 0
    BY <1>3, OffsetsExist DEF IsOffsets
  <2>3. Holding(0)'
    BY <1>1, <1>5, <2>1, <2>2 DEF Holding
  <2>4. i' \in 1..(Count(b, l)' + 1) /\ Holding(i - 1)'
    BY <1>1, <1>4, <1>5, <2>3
  <2>5. Writable'
    BY <1>1 DEF Build, Writable
  <2> QED BY <1>2, <1>5, <2>1, <2>4, <2>5 DEF MessageInv, Delivered
<1> QED BY <1>6, <1>7

\* Every item takes up some bytes, so each one is in the buffer behind the last.
LEMMA WriteKeeps ==
    ASSUME MessageInv, Write
    PROVE  MessageInv'
<1>1. b' = b /\ l' = l /\ b \in Builders /\ Typed(b, l) /\ phase = "writing" /\ phase' = "writing"
  BY DEF MessageInv, Write
<1>2. Typed(b', l') /\ b' \in Builders
  BY <1>1 DEF Typed
<1>3. Fitting(b, l) /\ IsOffsets(Offsets(b, l), b, l)
  BY <1>1, Tables, OffsetsExist
<1>4. Count(b, l) \in Nat /\ i \in 1..Count(b, l) /\ Holding(i - 1) /\ Unread'
  BY <1>1, <1>3 DEF MessageInv, Write, Count, Fitting, Unread
<1> DEFINE T == Items(b, l)
<1>5. Written(T[i], l) \in Nat \ {0}
  BY <1>3, <1>4 DEF Fitting
<1>6. p' = p + Written(T[i], l) /\ buffer' = Append(buffer, T[i]) /\ i' = i + 1
      /\ capacity' = capacity
  BY <1>5 DEF Write
<1>7. Offsets(b, l)[i] = Offsets(b, l)[i - 1] + Written(T[i], l)
  BY <1>3, <1>4 DEF IsOffsets
<1>8. p' = Offsets(b, l)[i]
  BY <1>4, <1>6, <1>7 DEF Holding
<1> DEFINE S == {T[k] : k \in 1..Count(b, l)}
<1>9. T[i] \in S /\ buffer \in Seq(S) /\ Len(buffer) = i - 1
  BY <1>4 DEF Holding
<1>9a. \A k \in 1..(i - 1) : buffer[k] = T[k]
  BY <1>4 DEF Holding
<1>10. buffer' \in Seq(S) /\ Len(buffer') = i /\ \A k \in 1..i : buffer'[k] = T[k]
  <2> HIDE DEF T, S
  <2> QED BY <1>4, <1>6, <1>9, <1>9a
<1>11. i' \in 1..(Count(b, l)' + 1) /\ Holding(i - 1)'
  <2>1. i' - 1 = i /\ i' \in 1..(Count(b, l) + 1)
    BY <1>4, <1>6
  <2> QED BY <1>1, <1>6, <1>8, <1>10, <1>4, <2>1 DEF Holding
<1>12. Writable'
  BY <1>1 DEF MessageInv, Writable
<1> QED BY <1>1, <1>2, <1>4, <1>11, <1>12 DEF MessageInv, Delivered

\* The length that is passed on is the one that was written, also where it is the one
\* that was computed.
LEMMA SendKeeps ==
    ASSUME MessageInv, Send
    PROVE  MessageInv'
<1>1. b' = b /\ l' = l /\ b \in Builders /\ Typed(b, l) /\ phase = "writing"
      /\ phase' \in {"dropped", "reading"}
  BY DEF MessageInv, Send
<1>2. Typed(b', l') /\ b' \in Builders
  BY <1>1 DEF Typed
<1>3. Fitting(b, l) /\ IsOffsets(Offsets(b, l), b, l)
  BY <1>1, Tables, OffsetsExist
<1>4. Count(b, l) \in Nat /\ i = Count(b, l) + 1 /\ Holding(i - 1) /\ Unread'
  BY <1>1, <1>3 DEF MessageInv, Send, Count, Fitting, Unread
<1>5. i - 1 = Count(b, l) /\ p = Offsets(b, l)[Count(b, l)]
  BY <1>4 DEF Holding
<1>6. reported' = p' /\ p' = p /\ buffer' = buffer /\ capacity' = capacity /\ i' = 1 /\ due' = 1
  BY <1>3, <1>5 DEF Fitting, Send
<1>7. Holding(Count(b, l))'
  BY <1>1, <1>4, <1>5, <1>6 DEF Holding
<1>8. ReadInv'
  BY <1>1, <1>4, <1>6 DEF ReadInv
<1>9. Writable'
  BY <1>1 DEF MessageInv, Writable
<1> QED BY <1>1, <1>2, <1>4, <1>6, <1>7, <1>8, <1>9 DEF MessageInv, Delivered

\* What a receiver finds: the items of the table, as far as something is due.
LEMMA AtItem ==
    ASSUME MessageInv, phase = "reading"
    PROVE  /\ b \in Builders /\ Typed(b, l) /\ Legible(b, l) /\ ReadInv
           /\ Holding(Count(b, l)) /\ reported = p
           /\ Count(b, l) \in Nat /\ Count(b, l) > 0 /\ Len(buffer) = Count(b, l)
           /\ i \in 1..(Count(b, l) + 1)
           /\ i <= Count(b, l) => Item = Items(b, l)[i]
           /\ due > 0 <=> i <= Count(b, l)
<1>1. b \in Builders /\ Typed(b, l) /\ ReadInv /\ Holding(Count(b, l)) /\ reported = p
  BY DEF MessageInv
<1>2. Legible(b, l)
  BY <1>1, Tables
<1>3. Count(b, l) \in Nat /\ Count(b, l) % 2 = 1 /\ (b \in Needs => Count(b, l) = 21)
      /\ (b \in Errors => Count(b, l) = 23)
  BY <1>2 DEF Legible
<1>3a. Count(b, l) > 0
  BY <1>3
<1>4. Len(buffer) = Count(b, l) /\ i \in 1..(Count(b, l) + 1)
  BY <1>1 DEF Holding, ReadInv
<1>5. i <= Count(b, l) => Item = Items(b, l)[i]
  BY <1>1, <1>3, <1>4 DEF Holding, Item
<1>6. due > 0 <=> i <= Count(b, l)
  <2>1. CASE i = 1
    BY <1>1, <1>3, <1>3a, <2>1 DEF ReadInv
  <2>2. CASE i > 1 /\ i <= Count(b, l)
    <3>1. i \in 2..Count(b, l)
      BY <1>3, <1>4, <2>2
    <3>2. Due(b, Count(b, l), i) > 0
      BY <1>3, <3>1, DueStep
    <3> QED BY <1>1, <2>2, <3>2 DEF ReadInv
  <2>3. CASE i = Count(b, l) + 1
    <3>1. Count(b, l) \in 2..Count(b, l) \/ Count(b, l) = 1
      BY <1>3
    <3>2. Due(b, Count(b, l), i) = 0
      <4>1. CASE Count(b, l) = 1
        BY <1>3, <2>3, <4>1 DEF Due
      <4>2. CASE Count(b, l) # 1
        BY <1>3, <2>3, <3>1, <4>2, DueStep
      <4> QED BY <4>1, <4>2
    <3>3. due = 0
      BY <1>1, <1>3, <1>3a, <2>3, <3>2 DEF ReadInv
    <3> QED BY <1>3, <2>3, <3>3
  <2> QED BY <1>3, <1>4, <2>1, <2>2, <2>3
<1> QED BY <1>1, <1>2, <1>3, <1>3a, <1>4, <1>5, <1>6

\* A step of the receiver keeps the message.
LEMMA ReadingFrame ==
    ASSUME MessageInv, phase = "reading", phase' = "reading",
           UNCHANGED <<b, l, proper, capacity, p, buffer, reported>>, ReadInv'
    PROVE  MessageInv'
<1>1. b \in Builders /\ Typed(b, l) /\ Holding(Count(b, l)) /\ reported = p
  BY DEF MessageInv
<1>2. b' \in Builders /\ Typed(b', l') /\ Holding(Count(b, l))' /\ reported' = p'
  BY <1>1 DEF Typed, Holding
<1>3. Writable'
  BY DEF MessageInv, Writable
<1> QED BY <1>2, <1>3 DEF MessageInv, Delivered

\* The first item, which announces all the others of its level.
LEMMA ReadMapKeeps ==
    ASSUME MessageInv, ReadMap
    PROVE  MessageInv'
<1>1. phase = "reading" /\ phase' = "reading" /\ i = 1 /\ due > 0
      /\ UNCHANGED <<b, l, proper, capacity, p, buffer, reported>>
  BY DEF ReadMap, Reading, Consume
<1>2. Legible(b, l) /\ ReadInv /\ Count(b, l) \in Nat /\ Count(b, l) > 0 /\ Item = Items(b, l)[1]
  BY <1>1, AtItem
<1>3. i' = 2 /\ due' = due - 1 + Children(Items(b, l)[1]) /\ due = 1 /\ Unread /\ Unread'
  BY <1>1, <1>2 DEF ReadMap, Consume, ReadInv, Unread
<1>4. due' = Due(b, Count(b, l), 2)
  <2>1. Due(b, Count(b, l), 2) \in Int
    BY <1>2 DEF Due
  <2> QED BY <1>2, <1>3, <2>1 DEF Legible
<1>5. seen' = Taken(b, l, 2)
  BY <1>2, <1>3, TakenFirst DEF Unread
<1>6. ReadInv'
  BY <1>1, <1>2, <1>3, <1>4, <1>5 DEF ReadInv, Unread
<1> QED BY <1>1, <1>6, ReadingFrame

\* The receivers of the responses insist on no text.
LEMMA ErrorsNotStrict == ASSUME NEW bld \in Errors PROVE ~Strict(bld)
BY DEF Errors, Strict, Reader

\* One item further, what is due is as the table says.
LEMMA DueKept ==
    ASSUME MessageInv, Reading, Consume, i > 1
    PROVE  /\ phase = "reading" /\ phase' = "reading"
           /\ UNCHANGED <<b, l, proper, capacity, p, buffer, reported>>
           /\ i \in 2..Count(b, l) /\ i' = i + 1 /\ i' \in 1..(Count(b, l) + 1)
           /\ Children(Item) = Nested(b, i)
           /\ due = Due(b, Count(b, l), i) /\ due \in Nat /\ due > 0
           /\ due' = due - 1 + Nested(b, i)
           /\ due' = Due(b, Count(b, l), i + 1)
<1>1. phase = "reading" /\ due > 0 /\ phase' = "reading" /\ i' = i + 1
      /\ UNCHANGED <<b, l, proper, capacity, p, buffer, reported>>
      /\ due' = due - 1 + Children(Item)
  BY DEF Reading, Consume
<1>2. Legible(b, l) /\ ReadInv /\ Count(b, l) \in Nat /\ i \in 2..Count(b, l)
      /\ Item = Items(b, l)[i]
  BY <1>1, AtItem
<1>3. Children(Item) = Nested(b, i)
  BY <1>2 DEF Legible
<1>4. Count(b, l) % 2 = 1 /\ (b \in Needs => Count(b, l) = 21) /\ (b \in Errors => Count(b, l) = 23)
  BY <1>2 DEF Legible
<1>5. due = Due(b, Count(b, l), i)
  BY <1>2 DEF ReadInv
<1>6. Due(b, Count(b, l), i) \in Nat
      /\ Due(b, Count(b, l), i + 1) = Due(b, Count(b, l), i) - 1 + Nested(b, i)
  BY <1>2, <1>4, DueStep
<1>7. i' \in 1..(Count(b, l) + 1)
  BY <1>1, <1>2
<1> QED BY <1>1, <1>2, <1>3, <1>5, <1>6, <1>7

\* The details of an error are passed over, with the maps in them.
LEMMA SkipItemKeeps ==
    ASSUME MessageInv, SkipItem
    PROVE  MessageInv'
<1>1. Reading /\ Consume /\ skip > 0 /\ skip' = skip - 1 + Children(Item)
      /\ key' = key /\ seen' = seen /\ phase = "reading"
  BY DEF SkipItem, Reading
<1>2. Legible(b, l) /\ ReadInv /\ Count(b, l) \in Nat /\ i \in 1..(Count(b, l) + 1)
  BY <1>1, AtItem
<1>3. i > 1
  BY <1>1, <1>2 DEF ReadInv, Unread
<1>4. b \in Errors /\ i > 11 /\ skip = due /\ key = NoKey /\ seen = Taken(b, l, i)
  BY <1>1, <1>2, <1>3 DEF ReadInv
<1>5. /\ UNCHANGED <<b, l, proper, capacity, p, buffer, reported>> /\ phase' = "reading"
      /\ i \in 2..Count(b, l) /\ i' = i + 1 /\ i' \in 1..(Count(b, l) + 1)
      /\ Children(Item) = Nested(b, i) /\ due' = due - 1 + Nested(b, i)
      /\ due' = Due(b, Count(b, l), i + 1)
  BY <1>1, <1>3, DueKept
<1>6. skip' = due'
  BY <1>1, <1>4, <1>5
<1>7. Taken(b, l, i + 1) = seen
  <2>1. CASE i % 2 = 0
    BY <1>2, <1>4, <1>5, <2>1, TakenKey
  <2>2. CASE i % 2 = 1
    <3>1. i - 1 \in 2..Count(b, l) /\ (i - 1) % 2 = 0 /\ i - 1 >= 10 /\ i \in 3..Count(b, l)
      BY <1>2, <1>4, <1>5, <2>2
    <3>2. WantsAt(b, l, i - 1) = {}
      BY <1>2, <1>4, <3>1 DEF Legible
    <3>3. Taken(b, l, i + 1) = Taken(b, l, i) \cup {}
      BY <1>2, <2>2, <3>1, <3>2, TakenValue
    <3> QED BY <1>4, <3>3
  <2> QED BY <1>5, <2>1, <2>2
<1>8. ~Strict(b)
  BY <1>4, ErrorsNotStrict
<1>9. ReadInv'
  <2>1. i' > 1 /\ i' > 11 /\ b' \in Errors /\ ~Strict(b') /\ seen' = Taken(b, l, i)'
        /\ due' = Due(b, Count(b, l), i)' /\ i' \in 1..(Count(b, l)' + 1)
    BY <1>1, <1>4, <1>5, <1>7, <1>8
  <2>2. (skip = IF b \in Errors /\ i > 11 THEN due ELSE 0)'
    BY <1>6, <2>1
  <2>3. (key = IF i % 2 = 1 /\ ~(b \in Errors /\ i > 11) THEN Items(b, l)[i - 1].s ELSE NoKey)'
    BY <1>1, <1>4, <2>1
  <2>4. ~(i' = 1)
    BY <1>5
  <2> QED BY <2>1, <2>2, <2>3, <2>4 DEF ReadInv
<1> QED BY <1>1, <1>5, <1>9, ReadingFrame

\* A key is found where one is expected.
LEMMA ReadKeyKeeps ==
    ASSUME MessageInv, ReadKey
    PROVE  MessageInv'
<1>1. Reading /\ Consume /\ i > 1 /\ skip = 0 /\ key = NoKey /\ key' = Item.s
      /\ skip' = 0 /\ seen' = seen /\ phase = "reading"
  BY DEF ReadKey, Reading
<1>2. Legible(b, l) /\ ReadInv /\ Count(b, l) \in Nat
  BY <1>1, AtItem
<1>3. /\ UNCHANGED <<b, l, proper, capacity, p, buffer, reported>> /\ phase' = "reading"
      /\ i \in 2..Count(b, l) /\ i' = i + 1 /\ i' \in 1..(Count(b, l) + 1)
      /\ due > 0 /\ due \in Nat
      /\ due' = Due(b, Count(b, l), i + 1)
  BY <1>1, DueKept
<1>4. ~(b \in Errors /\ i > 11) /\ seen = Taken(b, l, i)
      /\ (Strict(b) => \A k \in 3..(i - 1) : k % 2 = 1 => Fits(b, l, k))
  BY <1>1, <1>2, <1>3 DEF ReadInv
<1>5. i % 2 = 0
  <2>1. SUFFICES ASSUME i % 2 = 1 PROVE FALSE
    BY <1>3
  <2>2. key = Items(b, l)[i - 1].s
    BY <1>1, <1>2, <1>4, <2>1 DEF ReadInv
  <2>3. i - 1 \in 2..Count(b, l) /\ (i - 1) % 2 = 0
    BY <1>2, <1>3, <2>1
  <2>4. Items(b, l)[i - 1].s # NoKey
    BY <1>2, <2>3 DEF Legible
  <2> QED BY <1>1, <2>2, <2>4
<1>6. Taken(b, l, i + 1) = seen
  BY <1>2, <1>3, <1>4, <1>5, TakenKey
<1>7. i' % 2 = 1 /\ i' > 1 /\ ~(b \in Errors /\ i' > 11) /\ i' - 1 = i
  BY <1>3, <1>4, <1>5
<1>8. key' = Items(b, l)[i' - 1].s
  <2>1. Item = Items(b, l)[i]
    BY <1>1, <1>2, <1>3, AtItem
  <2> QED BY <1>1, <1>7, <2>1
<1>9. Strict(b) => \A k \in 3..(i' - 1) : k % 2 = 1 => Fits(b, l, k)
  <2>1. ASSUME NEW k \in 3..(i' - 1), k % 2 = 1 PROVE k \in 3..(i - 1)
    BY <1>3, <1>5, <1>7, <2>1
  <2> QED BY <1>4, <2>1
<1>10. ReadInv'
  <2>1. b' = b /\ l' = l /\ Strict(b') = Strict(b) /\ due' = Due(b, Count(b, l), i)'
        /\ i' \in 1..(Count(b, l)' + 1) /\ seen' = Taken(b, l, i)'
    BY <1>1, <1>3, <1>6
  <2>2. (Strict(b) => \A k \in 3..(i - 1) : k % 2 = 1 => Fits(b, l, k))'
    BY <1>9, <2>1
  <2>3. (key = Items(b, l)[i - 1].s)' /\ ~(b' \in Errors /\ i' > 11)
    BY <1>7, <1>8, <2>1
  <2>4. (skip = IF b \in Errors /\ i > 11 THEN due ELSE 0)'
    BY <1>1, <2>3
  <2>5. (key = IF i % 2 = 1 /\ ~(b \in Errors /\ i > 11) THEN Items(b, l)[i - 1].s ELSE NoKey)'
    BY <1>7, <2>3
  <2>6. ~(i' = 1) /\ i' > 1
    BY <1>3
  <2> QED BY <2>1, <2>2, <2>4, <2>5, <2>6 DEF ReadInv
<1> QED BY <1>1, <1>3, <1>10, ReadingFrame

\* A value is taken or skipped with all that is in it.
LEMMA ReadValueKeeps ==
    ASSUME MessageInv, ReadValue
    PROVE  MessageInv'
<1>1. Reading /\ Readable /\ Consume /\ skip = 0 /\ key # NoKey /\ key' = NoKey
      /\ phase = "reading" /\ due > 0
  BY DEF ReadValue, Reading
<1>2. Legible(b, l) /\ ReadInv /\ Count(b, l) \in Nat /\ i \in 1..(Count(b, l) + 1)
      /\ i <= Count(b, l) /\ Item = Items(b, l)[i]
  BY <1>1, AtItem
<1>3. i > 1
  BY <1>1, <1>2 DEF ReadInv, Unread
<1>4. /\ UNCHANGED <<b, l, proper, capacity, p, buffer, reported>> /\ phase' = "reading"
      /\ i \in 2..Count(b, l) /\ i' = i + 1 /\ i' \in 1..(Count(b, l) + 1)
      /\ Children(Item) = Nested(b, i) /\ due \in Nat
      /\ due = Due(b, Count(b, l), i) /\ due' = Due(b, Count(b, l), i + 1)
      /\ due' = due - 1 + Nested(b, i)
  BY <1>1, <1>3, DueKept
<1>5. i % 2 = 1 /\ ~(b \in Errors /\ i > 11) /\ key = Items(b, l)[i - 1].s /\ seen = Taken(b, l, i)
      /\ (Strict(b) => \A k \in 3..(i - 1) : k % 2 = 1 => Fits(b, l, k))
  BY <1>1, <1>2, <1>3 DEF ReadInv
<1>6. i \in 3..Count(b, l) /\ i - 1 \in 2..Count(b, l) /\ (i - 1) % 2 = 0 /\ i' % 2 = 0 /\ i' > 1
  BY <1>2, <1>4, <1>5
<1>7. Wants(Reader(b), key) = WantsAt(b, l, i - 1)
  BY <1>5 DEF WantsAt
<1>8. Fits(b, l, i)
  BY <1>1, <1>2, <1>3, <1>7 DEF Readable, Fits
<1>9. seen' = Taken(b, l, i + 1)
  <2>1. Taken(b, l, i + 1) =
          Taken(b, l, i) \cup (IF WantsAt(b, l, i - 1) = {} THEN {} ELSE {Items(b, l)[i - 1].s})
    BY <1>2, <1>5, <1>6, TakenValue
  <2>2. CASE WantsAt(b, l, i - 1) = {}
    <3>1. seen' = seen
      BY <1>7, <2>2 DEF ReadValue
    <3> QED BY <1>5, <2>1, <2>2, <3>1
  <2>3. CASE WantsAt(b, l, i - 1) # {}
    <3>1. seen' = seen \cup {key}
      BY <1>7, <2>3 DEF ReadValue
    <3> QED BY <1>5, <2>1, <2>3, <3>1
  <2> QED BY <2>2, <2>3
<1>10. skip' = IF b \in Errors /\ i + 1 > 11 THEN due' ELSE 0
  <2>1. b \in Errors /\ i = 11 => WantsAt(b, l, i - 1) = {}
    BY <1>2, <1>6 DEF Legible
  <2>2. b \in Needs /\ i = 7 => WantsAt(b, l, i - 1) # {}
    BY <1>2, <1>6 DEF Legible
  <2>3. b \in Errors /\ i + 1 > 11 <=> b \in Errors /\ i = 11
    BY <1>4, <1>5
  <2>4. CASE WantsAt(b, l, i - 1) = {}
    <3>1. skip' = Nested(b, i)
      BY <1>4, <1>7, <2>4 DEF ReadValue
    <3>2. CASE b \in Errors /\ i = 11
      <4>1. Nested(b, i) = 6 /\ due = 1
        BY <1>4, <3>2 DEF Nested, Due, Needs, Errors
      <4> QED BY <1>4, <2>3, <3>1, <3>2, <4>1
    <3>3. CASE ~(b \in Errors /\ i = 11)
      <4>1. Nested(b, i) = 0
        BY <1>5, <2>2, <2>4, <3>3, <1>4 DEF Nested
      <4> QED BY <2>3, <3>1, <3>3, <4>1
    <3> QED BY <3>2, <3>3
  <2>5. CASE WantsAt(b, l, i - 1) # {}
    <3>1. skip' = 0
      BY <1>1, <1>7, <2>5 DEF ReadValue
    <3> QED BY <2>1, <2>3, <2>5, <3>1
  <2> QED BY <2>4, <2>5
<1>11. Strict(b) => \A k \in 3..(i' - 1) : k % 2 = 1 => Fits(b, l, k)
  <2>1. ASSUME NEW k \in 3..(i' - 1), k # i PROVE k \in 3..(i - 1)
    BY <1>4, <2>1
  <2> QED BY <1>5, <1>8, <2>1
<1>12. ReadInv'
  <2>1. b' = b /\ l' = l /\ Strict(b') = Strict(b) /\ due' = Due(b, Count(b, l), i)'
        /\ i' \in 1..(Count(b, l)' + 1) /\ seen' = Taken(b, l, i)'
    BY <1>4, <1>9
  <2>2. (Strict(b) => \A k \in 3..(i - 1) : k % 2 = 1 => Fits(b, l, k))'
    BY <1>11, <2>1
  <2>3. (skip = IF b \in Errors /\ i > 11 THEN due ELSE 0)'
    BY <1>4, <1>10
  <2>4. (key = IF i % 2 = 1 /\ ~(b \in Errors /\ i > 11) THEN Items(b, l)[i - 1].s ELSE NoKey)'
    BY <1>1, <1>6
  <2>5. ~(i' = 1) /\ i' > 1
    BY <1>4
  <2> QED BY <2>1, <2>2, <2>3, <2>4, <2>5 DEF ReadInv
<1> QED BY <1>1, <1>4, <1>12, ReadingFrame

\* The message is left as it is when its receiver is done.
LEMMA DoneFrame ==
    ASSUME MessageInv, phase = "reading", phase' = "done",
           UNCHANGED <<b, l, proper, capacity, p, buffer, reported>>, Delivered'
    PROVE  MessageInv'
<1>1. b \in Builders /\ Typed(b, l) /\ Holding(Count(b, l)) /\ reported = p
  BY DEF MessageInv
<1>2. b' \in Builders /\ Typed(b', l') /\ Holding(Count(b, l))' /\ reported' = p'
  BY <1>1 DEF Typed, Holding
<1> QED BY <1>2 DEF MessageInv

\* A message is refused before its end only for an empty text.
LEMMA RefuseKeeps ==
    ASSUME MessageInv, Refuse
    PROVE  MessageInv'
<1>1. phase = "reading" /\ phase' = "done" /\ due > 0 /\ ~Readable
      /\ UNCHANGED <<b, l, proper, capacity, p, buffer, reported>>
  BY DEF Refuse
<1>2. Legible(b, l) /\ ReadInv /\ Count(b, l) \in Nat /\ i \in 1..Count(b, l)
      /\ Len(buffer) = Count(b, l) /\ Item = Items(b, l)[i]
  BY <1>1, AtItem
<1>3. i > 1 /\ skip = 0
  <2>1. i = 1 => Item.kind = "map"
    BY <1>2 DEF Legible
  <2> QED BY <1>1, <1>2, <2>1 DEF Readable
<1>4. key = (IF i % 2 = 1 /\ ~(b \in Errors /\ i > 11) THEN Items(b, l)[i - 1].s ELSE NoKey)
      /\ skip = (IF b \in Errors /\ i > 11 THEN due ELSE 0)
  BY <1>2, <1>3 DEF ReadInv
<1>5. ~(b \in Errors /\ i > 11)
  BY <1>1, <1>3, <1>4
<1>6. i % 2 = 1
  <2>1. SUFFICES ASSUME i % 2 = 0 PROVE FALSE
    BY <1>2
  <2>2. Item.kind \in {"key", "short"} /\ key = NoKey
    BY <1>2, <1>3, <1>4, <2>1 DEF Legible
  <2> QED BY <1>1, <1>2, <1>3, <2>2 DEF Readable
<1>7. key = Items(b, l)[i - 1].s /\ i \in 3..Count(b, l)
  BY <1>2, <1>3, <1>4, <1>5, <1>6
<1>8. ~Fits(b, l, i)
  <2>1. i - 1 \in 2..Count(b, l) /\ (i - 1) % 2 = 0
    BY <1>2, <1>6, <1>7
  <2>2. key # NoKey
    BY <1>2, <1>7, <2>1 DEF Legible
  <2>3. ~(Wants(Reader(b), key) = {} \/ Wire(Item, l) \in Wants(Reader(b), key))
    BY <1>1, <1>2, <1>3, <2>2 DEF Readable
  <2> QED BY <1>2, <1>7, <2>3 DEF Fits, WantsAt
<1>9. Strict(b) /\ \E f \in Fields(b) \cap Insisted : l[f] = 0
  BY <1>2, <1>6, <1>7, <1>8 DEF Legible
<1>10. outcome' = "refused"
  BY <1>9 DEF Refuse, Strict
<1>11. ~Acceptable'
  BY <1>1, <1>9 DEF Acceptable, Strict, Insisted
<1>12. Delivered'
  BY <1>10, <1>11 DEF Delivered
<1> QED BY <1>1, <1>12, DoneFrame

\* The TA's input of the Agent has a target command among its fields.
LEMMA ResolveTaFields ==
    ASSUME NEW ll, Typed("build_teep_resolve_input_for_command", ll)
    PROVE  /\ "target_command" \in Fields("build_teep_resolve_input_for_command")
           /\ ll.target_command \in Nat
<1> DEFINE Z == Items("build_teep_resolve_input_for_command", NoFields)
<1>1. ResolveTaTable(Z)
  BY ResolveTaItems
<1>2. Z[7] = Text("target_command") /\ 7 \in 1..Count("build_teep_resolve_input_for_command", NoFields)
  BY <1>1 DEF ResolveTaTable, Count
<1> HIDE DEF Z
<1> QED BY <1>2, FieldAt DEF Z

\* A message that was read to its end is taken for what it is, or is not acceptable.
LEMMA EndReadKeeps ==
    ASSUME MessageInv, EndRead
    PROVE  MessageInv'
<1>1. phase = "reading" /\ phase' = "done" /\ due = 0
      /\ UNCHANGED <<b, l, proper, capacity, p, buffer, reported, seen>>
  BY DEF EndRead
<1>2. Legible(b, l) /\ ReadInv /\ Count(b, l) \in Nat /\ Count(b, l) > 0
      /\ i \in 1..(Count(b, l) + 1) /\ Len(buffer) = Count(b, l) /\ reported = p
      /\ ~(i <= Count(b, l))
  BY <1>1, AtItem
<1>3. i = Count(b, l) + 1 /\ i > 1 /\ i - 1 = Count(b, l)
  BY <1>2
<1>4. seen = Taken(b, l, Count(b, l) + 1)
      /\ (Strict(b) => \A k \in 3..Count(b, l) : k % 2 = 1 => Fits(b, l, k))
  BY <1>2, <1>3 DEF ReadInv
<1>5. ~(Strict(b) /\ \E f \in Fields(b) \cap Insisted : l[f] = 0)
  BY <1>2, <1>4 DEF Legible
<1>6. b \in Builders /\ Writable
  BY <1>1 DEF MessageInv
<1>7. CASE Supported
  <2>1. outcome' = Outcome(b, seen)
    BY <1>2, <1>3, <1>7 DEF EndRead
  <2>2. outcome' = Expected(b)
    BY <1>2, <1>4, <2>1 DEF Legible
  <2>3. Acceptable
    <3>1. b = "build_teep_resolve_input_for_command" =>
            l.target_command <= MaxCommand /\ {"target_command", "resolver_mode"} \subseteq proper
      BY <1>7 DEF Supported, Reader, MaxCommand
    <3>2. b = "make_teep_resolve_input" => "target_command" \in proper
      BY <1>7 DEF Supported, Reader
    <3> QED BY <1>5, <3>1, <3>2 DEF Acceptable, Strict, Insisted
  <2>4. Acceptable'
    BY <1>1, <2>3 DEF Acceptable
  <2>5. Delivered'
    BY <1>1, <2>2, <2>4 DEF Delivered
  <2> QED BY <1>1, <2>5, DoneFrame
<1>8. CASE ~Supported
  <2>1. /\ b \in {"build_teep_resolve_input_for_command", "make_teep_resolve_input"}
        /\ Reader(b) # "twep_optee_parse_response"
    BY <1>6, <1>8 DEF Supported, Reader, Builders, ReeBuilders, TaBuilders
  <2>2. outcome' = "refused"
    BY <1>8, <2>1 DEF EndRead
  <2>3. ~Acceptable
    <3>1. CASE b = "build_teep_resolve_input_for_command"
      <4>1. Reader(b) = "parse_teep_resolve_input" /\ Strict(b)
        BY <3>1 DEF Reader, Strict
      <4>2. "target_command" \in Fields(b) \cap Insisted /\ l.target_command \in Nat
        BY <3>1, ResolveTaFields DEF Insisted, MessageInv
      <4>3. l.target_command # 0
        BY <1>5, <4>1, <4>2
      <4>4. "target_command" \in proper /\ "resolver_mode" \in proper => ~(l.target_command <= MaxCommand)
        BY <1>8, <4>1, <4>2, <4>3 DEF Supported, MaxCommand
      <4> QED BY <3>1, <4>4 DEF Acceptable
    <3>2. CASE b = "make_teep_resolve_input"
      <4>1. l.target_command \in 1..MaxCommand /\ Reader(b) = "twep_app_main"
        BY <1>6, <3>2 DEF Writable, Reader
      <4> QED BY <1>8, <3>2, <4>1 DEF Supported, Acceptable
    <3> QED BY <2>1, <3>1, <3>2
  <2>4. ~Acceptable'
    BY <1>1, <2>3 DEF Acceptable
  <2>5. Delivered'
    BY <1>1, <2>2, <2>4 DEF Delivered
  <2> QED BY <1>1, <2>5, DoneFrame
<1> QED BY <1>7, <1>8

\* Nothing else changes a message.
LEMMA StutterKeeps ==
    ASSUME MessageInv, UNCHANGED vars
    PROVE  MessageInv'
<1>1. b' = b /\ l' = l /\ phase' = phase /\ capacity' = capacity /\ p' = p /\ buffer' = buffer
      /\ reported' = reported /\ i' = i /\ due' = due /\ key' = key /\ skip' = skip
      /\ seen' = seen /\ outcome' = outcome
      /\ proper' = proper
  BY DEF vars
<1>2. Typed(b, l)' = Typed(b, l) /\ Unread' = Unread /\ Delivered' = Delivered /\ Writable' = Writable
  BY <1>1 DEF Typed, Unread, Delivered, Acceptable, Writable
<1>3. ReadInv' = ReadInv
  BY <1>1 DEF ReadInv, Unread
<1>4. Holding(i - 1)' = Holding(i - 1) /\ Holding(Count(b, l))' = Holding(Count(b, l))
  BY <1>1 DEF Holding
<1> QED BY <1>1, <1>2, <1>3, <1>4 DEF MessageInv

\* Every step keeps the invariant.
LEMMA NextMessage == MessageInv /\ [Next]_vars => MessageInv'
<1> SUFFICES ASSUME MessageInv, [Next]_vars PROVE MessageInv'
  OBVIOUS
<1>1. CASE \E slack \in -1..1 : Build(slack)
  BY <1>1, BuildKeeps
<1>2. CASE Write
  BY <1>2, WriteKeeps
<1>3. CASE Send
  BY <1>3, SendKeeps
<1>4. CASE ReadMap
  BY <1>4, ReadMapKeeps
<1>5. CASE SkipItem
  BY <1>5, SkipItemKeeps
<1>6. CASE ReadKey
  BY <1>6, ReadKeyKeeps
<1>7. CASE ReadValue
  BY <1>7, ReadValueKeeps
<1>8. CASE Refuse
  BY <1>8, RefuseKeeps
<1>9. CASE EndRead
  BY <1>9, EndReadKeeps
<1>10. CASE UNCHANGED vars
  BY <1>10, StutterKeeps
<1> QED BY <1>1, <1>2, <1>3, <1>4, <1>5, <1>6, <1>7, <1>8, <1>9, <1>10 DEF Next

\* A message is within its buffer while it is written, and after.
LEMMA WithinBuffer == MessageInv => InBuffer
<1> SUFFICES ASSUME MessageInv PROVE InBuffer
  OBVIOUS
<1>1. Fitting(b, l) /\ IsOffsets(Offsets(b, l), b, l)
  BY Tables, OffsetsExist DEF MessageInv
<1>2. ASSUME NEW n \in 0..Count(b, l), Holding(n) PROVE p <= capacity + Excess(b)
  <2>1. p = Offsets(b, l)[n] /\ capacity \in Nat /\ capacity >= Reserved(b, l)
    BY <1>2 DEF Holding
  <2>2. Offsets(b, l)[n] <= Offsets(b, l)[Count(b, l)]
    BY <1>1, OffsetsGrow
  <2>3. Offsets(b, l)[Count(b, l)] <= Reserved(b, l) + Excess(b)
    BY <1>1 DEF Fitting
  <2>4. Offsets(b, l)[n] \in Nat /\ Offsets(b, l)[Count(b, l)] \in Nat /\ Reserved(b, l) \in Nat
        /\ Excess(b) \in Nat
    <3>1. Count(b, l) \in Nat /\ Reserved(b, l) \in Nat /\ Excess(b) \in Nat
      BY <1>1 DEF Fitting, Excess
    <3>2. Offsets(b, l) \in [0..Count(b, l) -> Nat]
      BY <1>1 DEF IsOffsets
    <3> QED BY <3>1, <3>2
  <2> QED BY <2>1, <2>2, <2>3, <2>4
<1>3. p <= capacity + Excess(b)
  <2>1. CASE phase \in {"idle", "SHORT_BUFFER"}
    BY <2>1 DEF MessageInv, Excess
  <2>2. CASE phase = "writing"
    <3>1. i - 1 \in 0..Count(b, l) /\ Holding(i - 1)
      BY <1>1, <2>2 DEF MessageInv, Fitting
    <3> QED BY <1>2, <3>1
  <2>3. CASE phase \in {"reading", "done", "dropped"}
    <3>1. Count(b, l) \in 0..Count(b, l) /\ Holding(Count(b, l))
      BY <1>1, <2>3 DEF MessageInv, Fitting
    <3> QED BY <1>2, <3>1
  <2> QED BY <2>1, <2>2, <2>3 DEF MessageInv
<1> QED BY <1>3 DEF InBuffer, MessageInv, Excess

----------------------------------------------------------------------------
(***************************************************************************)
(* The messages of the REE and of the TA, whatever the lengths of their    *)
(* texts and byte strings.                                                 *)
(***************************************************************************)
\* The table of a message is written and read in step.
THEOREM MessagesInductive == Spec => []MessageInv
<1>1. Init => MessageInv
  BY InitMessage
<1>2. MessageInv /\ [Next]_vars => MessageInv'
  BY NextMessage
<1> QED BY <1>1, <1>2, PTL DEF Spec

\* The builders' length computations cover what they write, to the byte for the length
\* that goes with a message; make_app_error_response alone writes one byte more than it
\* has allocated, never two.
THEOREM InBufferCorrect == Spec => []InBuffer
BY MessagesInductive, WithinBuffer, PTL

\* Every message is read to its end as what it is, unless it has an empty text where the TA
\* insists on one, or the Agent's input has a command or a resolver mode that is none or is
\* too long: then it is refused.
THEOREM DeliveredCorrect == Spec => []Delivered
<1>1. MessageInv => Delivered
  BY DEF MessageInv
<1> QED BY <1>1, MessagesInductive, PTL

=============================================================================
