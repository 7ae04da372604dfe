--------------------------- MODULE ProfileProofs ----------------------------
(***************************************************************************)
(* Every profile that Validate accepts, whatever its fields, is stored,    *)
(* comes back from its row unchanged, and gives both ends of a tunnel the  *)
(* same parameters.                                                        *)
(***************************************************************************)
EXTENDS Profile, FiniteSetTheorems, SequenceTheorems, TLAPS

-----------------------------------------------------------------------------
(* The row.                                                                *)

(* What each field of a profile is.                                        *)
LEMMA ProfileFields ==
    ASSUME NEW p \in ProtocolProfile
    PROVE  /\ p.name \in STRING /\ p.version \in STRING /\ p.policy \in STRING
           /\ p.jc \in Int /\ p.jmin \in Int /\ p.jmax \in Int
           /\ p.s \in [1 .. 4 -> Int] /\ p.h \in [1 .. 4 -> [min : Int, max : Int]]
           /\ p.i \in [1 .. 5 -> JunkSpec] /\ p.hpk \in STRING
           /\ p.timer \in [Timers -> [min : U16, max : U16]]
           /\ p.trailers \in BOOLEAN /\ p.cookies \in BOOLEAN
BY DEF ProtocolProfile

(* The columns a row gets from the profile's fields (insertProfile).       *)
LEMMA RowFields ==
    ASSUME NEW p \in ProtocolProfile, NEW c, c = RowOf(p)
    PROVE  /\ c.name = p.name /\ c.version = p.version /\ c.policy = p.policy
           /\ c.jc = p.jc /\ c.jmin = p.jmin /\ c.jmax = p.jmax /\ c.s = p.s /\ c.h = p.h
           /\ \A k \in 1 .. 5 : c.i[k] = nullable(p.i[k], Empty)
           /\ c.hpk = nullableWhen(IsV31(p), p.hpk)
           /\ \A t \in Timers : c.timer[t] = rangeDB(IsV31(p), p.timer[t])
           /\ c.trailers = boolWhen(IsV31(p), p.trailers)
           /\ c.cookies = boolWhen(IsV31(p), p.cookies)
BY DEF RowOf, ProtocolProfile

(* What Validate says of the fields only V3.1 has, on both sides of its    *)
(* switch on the version.                                                  *)
LEMMA V31Valid ==
    ASSUME NEW p \in ProtocolProfile, Validate(p)
    PROVE  /\ IsV31(p) => /\ p.hpk # ""
                          /\ \A t \in Timers : p.timer[t].min <= p.timer[t].max
           /\ ~IsV31(p) => /\ p.hpk = "" /\ ~p.trailers /\ ~p.cookies
                           /\ \A t \in Timers : IsZero(p.timer[t])
BY Zenon DEF Validate, ValidV31Fields, validBase64Key, TrimSpace, hasV31OnlyValues

(* The two columns of a range, for a range of a profile (rangeDB).         *)
LEMMA RangeColumns ==
    ASSUME NEW r \in [min : U16, max : U16], NEW enabled \in BOOLEAN,
           NEW c, c = rangeDB(enabled, r)
    PROVE  /\ c \in [min : U16 \cup {NULL}, max : U16 \cup {NULL}]
           /\ (c.min = NULL) = (c.max = NULL)
           /\ (enabled \/ IsZero(r)) => rangeFromDB(c) = r
           /\ c.min # NULL => c = r /\ enabled
           /\ ~enabled => c = IntRange(NULL, NULL)
<1>0. U16 \subseteq Int /\ \A n \in U16 : n % (U16Max + 1) = n
  <2>1. U16Max \in Nat
    BY DEF U16Max
  <2> QED BY <2>1 DEF U16
<1>1. NULL \notin U16
  BY <1>0, ProfileAssumption, Zenon
<1>2. r.min \in U16 /\ r.max \in U16 /\ r = [min |-> r.min, max |-> r.max]
  OBVIOUS
<1>3. r.min % (U16Max + 1) = r.min /\ r.max % (U16Max + 1) = r.max
  BY <1>0, <1>2, Zenon
<1>4. CASE ~enabled \/ IsZero(r)
  BY <1>1, <1>2, <1>4 DEF rangeDB, rangeFromDB, IntRange, Unset, IsZero
<1>5. CASE ~(~enabled \/ IsZero(r))
  BY <1>1, <1>2, <1>3, <1>5 DEF rangeDB, rangeFromDB, IntRange
<1> QED BY <1>4, <1>5

(* A row is a row of the table (insertProfile).                            *)
LEMMA RowTyped ==
    ASSUME NEW p \in ProtocolProfile
    PROVE  RowOf(p) \in ProfileRow
<1> DEFINE c == RowOf(p)
<1>1. [k \in 1 .. 5 |-> nullable(p.i[k], Empty)] \in [1 .. 5 -> JunkSpec \cup {NULL}]
  BY ProfileFields DEF nullable
<1>2. nullableWhen(IsV31(p), p.hpk) \in STRING \cup {NULL}
  BY ProfileFields, Zenon DEF nullableWhen, nullable
<1>3. [t \in Timers |-> rangeDB(IsV31(p), p.timer[t])]
          \in [Timers -> [min : U16 \cup {NULL}, max : U16 \cup {NULL}]]
  <2>1. ASSUME NEW t \in Timers
        PROVE  rangeDB(IsV31(p), p.timer[t]) \in [min : U16 \cup {NULL}, max : U16 \cup {NULL}]
    <3>1. p.timer[t] \in [min : U16, max : U16] /\ IsV31(p) \in BOOLEAN
      BY ProfileFields DEF IsV31
    <3> QED BY <3>1, RangeColumns
  <2> QED BY <2>1
<1>4. /\ boolWhen(IsV31(p), p.trailers) \in BOOLEAN \cup {NULL}
      /\ boolWhen(IsV31(p), p.cookies) \in BOOLEAN \cup {NULL}
  BY ProfileFields DEF boolWhen
<1> QED BY <1>1, <1>2, <1>3, <1>4, Zenon DEF RowOf, ProtocolProfile, ProfileRow

(* Validate implies the CHECK constraints (schema/0003_awg31_profiles.sql).*)
LEMMA ValidRow ==
    ASSUME NEW p \in ProtocolProfile, Validate(p), NEW c, c = RowOf(p)
    PROVE  ChecksHold(c)
<1>1. IsV31(p) \in BOOLEAN
  BY DEF IsV31
<1>2. ASSUME NEW t \in Timers
      PROVE  /\ c.timer[t].min # NULL => c.timer[t].min \in U16
             /\ c.timer[t].max # NULL => c.timer[t].max \in U16
             /\ (c.timer[t].min = NULL) = (c.timer[t].max = NULL)
             /\ c.timer[t].min # NULL => c.timer[t].min <= c.timer[t].max
             /\ ~IsV31(p) => c.timer[t] = IntRange(NULL, NULL)
  <2>1. p.timer[t] \in [min : U16, max : U16] /\ c.timer[t] = rangeDB(IsV31(p), p.timer[t])
    BY ProfileFields, RowFields
  <2>2. /\ c.timer[t] \in [min : U16 \cup {NULL}, max : U16 \cup {NULL}]
        /\ (c.timer[t].min = NULL) = (c.timer[t].max = NULL)
        /\ c.timer[t].min # NULL => c.timer[t] = p.timer[t] /\ IsV31(p)
        /\ ~IsV31(p) => c.timer[t] = IntRange(NULL, NULL)
    BY <1>1, <2>1, RangeColumns
  <2>3. IsV31(p) => p.timer[t].min <= p.timer[t].max
    BY V31Valid, Zenon
  <2> QED BY <2>2, <2>3
<1>3. c.version = p.version /\ p.version \in {"v1", "v2", "v3.1"}
  BY RowFields, Zenon DEF Validate
<1>4. CASE IsV31(p)
  <2>1. c.hpk = p.hpk /\ c.trailers = p.trailers /\ c.cookies = p.cookies /\ p.hpk # ""
    BY <1>4, RowFields, V31Valid, Zenon DEF nullableWhen, nullable, boolWhen
  <2>2. c.hpk # NULL /\ c.trailers # NULL /\ c.cookies # NULL
    BY <2>1, ProfileFields, ProfileAssumption, Zenon
  <2> QED BY <1>2, <1>3, <1>4, <2>1, <2>2, Zenon DEF ChecksHold, IsV31
<1>5. CASE ~IsV31(p)
  <2>1. c.hpk = NULL /\ c.trailers = NULL /\ c.cookies = NULL
    BY <1>5, RowFields, Zenon DEF nullableWhen, boolWhen
  <2> QED BY <1>2, <1>3, <1>5, <2>1 DEF ChecksHold, IsV31
<1> QED BY <1>4, <1>5

(* What goes into a row comes out of it (insertProfile, scanProfile).      *)
LEMMA RowRoundTrip ==
    ASSUME NEW p \in ProtocolProfile, Validate(p), NEW c, c = RowOf(p)
    PROVE  scanProfile(c) = p
<1>0. c \in ProfileRow /\ IsV31(p) \in BOOLEAN
  BY RowTyped DEF IsV31
<1>1. [k \in 1 .. 5 |-> deref(c.i[k], Empty)] = p.i
  <2>1. ASSUME NEW k \in 1 .. 5 PROVE deref(c.i[k], Empty) = p.i[k]
    <3>1. p.i[k] \in JunkSpec /\ c.i[k] = nullable(p.i[k], Empty)
      BY RowFields, ProfileFields
    <3> QED BY <3>1, ProfileAssumption DEF deref, nullable
  <2> QED BY <2>1, ProfileFields
<1>2. deref(c.hpk, "") = p.hpk
  <2>1. p.hpk \in STRING /\ c.hpk = nullableWhen(IsV31(p), p.hpk)
    BY RowFields, ProfileFields
  <2>2. ~IsV31(p) => p.hpk = ""
    BY V31Valid, Zenon
  <2> QED BY <2>1, <2>2, ProfileAssumption, Zenon DEF deref, nullableWhen, nullable
<1>3. [t \in Timers |-> rangeFromDB(c.timer[t])] = p.timer
  <2>1. ASSUME NEW t \in Timers PROVE rangeFromDB(c.timer[t]) = p.timer[t]
    <3>1. p.timer[t] \in [min : U16, max : U16] /\ c.timer[t] = rangeDB(IsV31(p), p.timer[t])
      BY ProfileFields, RowFields
    <3>2. IsV31(p) \/ IsZero(p.timer[t])
      BY V31Valid, Zenon
    <3> QED BY <1>0, <3>1, <3>2, RangeColumns
  <2> QED BY <2>1, ProfileFields
<1>4. deref(c.trailers, FALSE) = p.trailers /\ deref(c.cookies, FALSE) = p.cookies
  <2>1. /\ p.trailers \in BOOLEAN /\ c.trailers = boolWhen(IsV31(p), p.trailers)
        /\ p.cookies \in BOOLEAN /\ c.cookies = boolWhen(IsV31(p), p.cookies)
    BY RowFields, ProfileFields
  <2>2. ~IsV31(p) => p.trailers = FALSE /\ p.cookies = FALSE
    BY <2>1, V31Valid, Zenon
  <2> QED BY <2>1, <2>2, ProfileAssumption, Zenon DEF deref, boolWhen
<1> DEFINE q == scanProfile(c)
<1>5. /\ q.name = p.name /\ q.version = p.version /\ q.policy = p.policy
      /\ q.jc = p.jc /\ q.jmin = p.jmin /\ q.jmax = p.jmax /\ q.s = p.s /\ q.h = p.h
      /\ q.i = p.i /\ q.hpk = p.hpk /\ q.timer = p.timer
      /\ q.trailers = p.trailers /\ q.cookies = p.cookies
  <2>1. /\ q.name = c.name /\ q.version = c.version /\ q.policy = c.policy
        /\ q.jc = c.jc /\ q.jmin = c.jmin /\ q.jmax = c.jmax /\ q.s = c.s /\ q.h = c.h
        /\ q.i = [k \in 1 .. 5 |-> deref(c.i[k], Empty)] /\ q.hpk = deref(c.hpk, "")
        /\ q.timer = [t \in Timers |-> rangeFromDB(c.timer[t])]
        /\ q.trailers = deref(c.trailers, FALSE) /\ q.cookies = deref(c.cookies, FALSE)
    BY <1>0 DEF scanProfile, ProfileRow
  <2> HIDE DEF q
  <2>2. /\ c.name = p.name /\ c.version = p.version /\ c.policy = p.policy
        /\ c.jc = p.jc /\ c.jmin = p.jmin /\ c.jmax = p.jmax /\ c.s = p.s /\ c.h = p.h
    BY RowFields
  <2> QED BY <1>1, <1>2, <1>3, <1>4, <2>1, <2>2, Zenon
<1>6. q \in ProtocolProfile
  BY <1>0, <1>1, <1>2, <1>3, <1>4, RowFields, ProfileFields, Zenon
     DEF scanProfile, ProfileRow, ProtocolProfile
<1> HIDE DEF q
<1>7. q = p
  BY <1>5, <1>6 DEF ProtocolProfile
<1> QED BY <1>7 DEF q

-----------------------------------------------------------------------------
(* Headers and junk.                                                       *)

(* Validate keeps the header ranges within uint32 and apart                *)
(* (rangesOverlap).                                                        *)
LEMMA HeadersApart ==
    ASSUME NEW p \in ProtocolProfile, Validate(p)
    PROVE  /\ \A k \in 1 .. 4 : /\ p.h[k].min \in 0 .. HMax /\ p.h[k].max \in 0 .. HMax
                                /\ p.h[k].min <= p.h[k].max
           /\ \A j, k \in 1 .. 4 :
                 j # k => p.h[j].max < p.h[k].min \/ p.h[k].max < p.h[j].min
<1>1. \A k \in 1 .. 4 : p.h[k].min \in Int /\ p.h[k].max \in Int
  BY ProfileFields
<1>2. ValidHeaders(p)
  BY Zenon DEF Validate
<1>3. \A k \in 1 .. 4 : /\ 0 <= p.h[k].min /\ 0 <= p.h[k].max /\ p.h[k].max <= HMax
                        /\ p.h[k].min <= p.h[k].max
  BY <1>2 DEF ValidHeaders
<1>4. \A j, k \in 1 .. 4 : j < k => ~(p.h[j].min <= p.h[k].max /\ p.h[k].min <= p.h[j].max)
  BY <1>2 DEF ValidHeaders, rangesOverlap
<1>5. \A j, k \in 1 .. 4 : j # k => j < k \/ k < j
  OBVIOUS
<1>6. ASSUME NEW j \in 1 .. 4, NEW k \in 1 .. 4, j < k
      PROVE  p.h[j].max < p.h[k].min \/ p.h[k].max < p.h[j].min
  <2>1. ~(p.h[j].min <= p.h[k].max /\ p.h[k].min <= p.h[j].max)
    BY <1>4, <1>6
  <2> QED BY <1>1, <2>1
<1>7. \A k \in 1 .. 4 : p.h[k].min \in 0 .. HMax /\ p.h[k].max \in 0 .. HMax
  <2>1. HMax \in Int
    BY ProfileAssumption
  <2> TAKE k \in 1 .. 4
  <2> QED BY <1>1, <1>3, <2>1
<1> QED BY <1>3, <1>5, <1>6, <1>7

(* A header value is of at most one packet type, and every type has one.   *)
LEMMA ValueHasOneType ==
    ASSUME NEW p \in ProtocolProfile, Validate(p)
    PROVE  /\ \A value \in 0 .. HMax : Cardinality(Types(p, value)) <= 1
           /\ \A k \in 1 .. 4 : \E value \in 0 .. HMax : k \in Types(p, value)
<1>1. ASSUME NEW value \in 0 .. HMax PROVE Cardinality(Types(p, value)) <= 1
  <2>1. ASSUME NEW j \in Types(p, value), NEW k \in Types(p, value) PROVE j = k
    <3>1. /\ j \in 1 .. 4 /\ p.h[j].min <= value /\ value <= p.h[j].max
          /\ k \in 1 .. 4 /\ p.h[k].min <= value /\ value <= p.h[k].max
      BY <2>1 DEF Types
    <3>2. /\ p.h[j].min \in Int /\ p.h[j].max \in Int /\ p.h[k].min \in Int /\ p.h[k].max \in Int
          /\ value \in Int
      BY <3>1, ProfileFields
    <3>3. j # k => p.h[j].max < p.h[k].min \/ p.h[k].max < p.h[j].min
      BY <3>1, HeadersApart
    <3> HIDE DEF Types
    <3> QED BY <3>1, <3>2, <3>3
  <2>2. CASE Types(p, value) = {}
    <3>1. Cardinality(Types(p, value)) = 0
      BY <2>2, FS_EmptySet
    <3> QED BY <3>1
  <2>3. CASE Types(p, value) # {}
    <3>1. PICK k : Types(p, value) = {k}
      BY <2>1, <2>3
    <3>2. Cardinality({k}) = 1
      BY FS_Singleton
    <3> QED BY <3>1, <3>2
  <2> QED BY <2>2, <2>3
<1>2. ASSUME NEW k \in 1 .. 4 PROVE \E value \in 0 .. HMax : k \in Types(p, value)
  <2>1. /\ p.h[k].min \in 0 .. HMax /\ p.h[k].min <= p.h[k].max /\ p.h[k].min <= p.h[k].min
    <3>1. p.h[k].min \in Int
      BY ProfileFields
    <3> QED BY <3>1, HeadersApart
  <2>2. k \in Types(p, p.h[k].min)
    BY <2>1 DEF Types
  <2> QED BY <2>1, <2>2, Zenon
<1> QED BY <1>1, <1>2

(* A junk spec without tags produces nothing.                              *)
LEMMA NoTagsNoBytes == totalFixed(<<>>)[0] = 0
<1> DEFINE Total(f) == f = [n \in 0 .. Len(<<>>) |->
                               IF n = 0 THEN 0 ELSE f[n - 1] + FixedOutput(<<>>[n])]
<1>1. 0 .. Len(<<>>) = {0}
  OBVIOUS
<1>2. Total([n \in 0 .. Len(<<>>) |-> 0])
  BY <1>1
<1>3. Total(CHOOSE f : Total(f))
  <2> HIDE DEF Total
  <2> QED BY <1>2
<1>4. (CHOOSE f : Total(f))[0] = 0
  BY <1>1, <1>3
<1> QED BY <1>4 DEF totalFixed

(* What a valid junk spec produces fits the limit (validateSpecialJunk).   *)
LEMMA JunkFits ==
    ASSUME NEW j \in JunkSpec, ValidJunk(j)
    PROVE  /\ \A n \in 1 .. Len(j.tags) : FixedOutput(j.tags[n]) >= 0
           /\ totalFixed(j.tags)[Len(j.tags)] <= JunkSizeMax
<1>1. CASE j = Empty
  <2>1. j.tags = <<>> /\ Len(j.tags) = 0
    BY <1>1 DEF Empty
  <2>2. 0 <= JunkSizeMax
    BY DEF JunkSizeMax
  <2> QED BY <2>1, <2>2, NoTagsNoBytes
<1>2. CASE j # Empty
  <2>1. j.tags \in Seq(Tag)
    BY DEF JunkSpec
  <2>2. /\ j.tags # <<>>
        /\ \A n \in 1 .. Len(j.tags) :
              TagAccepted(j.tags[n]) /\ totalFixed(j.tags)[n] <= JunkSizeMax
    BY <1>2 DEF ValidJunk, validateSpecialJunk
  <2>3. Len(j.tags) \in 1 .. Len(j.tags)
    BY <2>1, <2>2
  <2>4. ASSUME NEW t \in Tag, TagAccepted(t) PROVE FixedOutput(t) >= 0
    <3>1. t.size \in Int /\ JunkSizeMax \in Int
      BY DEF Tag, JunkSizeMax
    <3> QED BY <2>4, <3>1 DEF TagAccepted, FixedOutput, Sized
  <2> QED BY <2>1, <2>2, <2>3, <2>4
<1> QED BY <1>1, <1>2

-----------------------------------------------------------------------------
(* Texts.                                                                  *)

(* A natural number is read as it was written.                             *)
LEMMA IntRoundTrip ==
    ASSUME NEW n \in Nat
    PROVE  FormatInt(n) = <<n>> /\ ParseInt(FormatInt(n)) = n
<1>1. FormatInt(n) = <<n>>
  BY DEF FormatInt
<1>2. Len(<<n>>) = 1 /\ <<n>>[1] = n
  OBVIOUS
<1> QED BY <1>1, <1>2 DEF ParseInt

(* A token at the end of a text.                                           *)
LEMMA OneMore ==
    ASSUME NEW text \in Seq(Int), NEW v \in Int
    PROVE  /\ text \o <<v>> \in Seq(Int) /\ Len(text \o <<v>>) = Len(text) + 1
           /\ \A n \in 1 .. Len(text) : (text \o <<v>>)[n] = text[n]
           /\ (text \o <<v>>)[Len(text) + 1] = v
<1> DEFINE last == <<v>>
<1>1. last \in Seq(Int) /\ Len(last) = 1 /\ last[1] = v /\ Len(text) \in Nat
  OBVIOUS
<1> HIDE DEF last
<1> DEFINE both == text \o last
<1>2. /\ both \in Seq(Int) /\ Len(both) = Len(text) + Len(last)
      /\ \A n \in 1 .. Len(text) + Len(last) :
            both[n] = IF n <= Len(text) THEN text[n] ELSE last[n - Len(text)]
  BY <1>1, ConcatProperties, Zenon
<1> HIDE DEF both
<1>3. both[Len(text) + 1] = v
  BY <1>1, <1>2
<1>4. \A n \in 1 .. Len(text) : both[n] = text[n]
  BY <1>1, <1>2
<1> QED BY <1>1, <1>2, <1>3, <1>4 DEF last, both

(* A text of three tokens is put together and taken apart.                 *)
LEMMA ThreeTokens ==
    ASSUME NEW a \in Int, NEW b \in Int, NEW c \in Int
    PROVE  /\ <<a>> \o <<b>> \o <<c>> = <<a, b, c>>
           /\ SubSeq(<<a, b, c>>, 1, 1) = <<a>> /\ SubSeq(<<a, b, c>>, 3, 3) = <<c>>
<1> DEFINE one == <<a>>
<1> DEFINE two == one \o <<b>>
<1> DEFINE text == <<a, b, c>>
<1>0. one \in Seq(Int) /\ Len(one) = 1 /\ one[1] = a
  OBVIOUS
<1>1. text \in Seq(Int) /\ Len(text) = 3 /\ text[1] = a /\ text[2] = b /\ text[3] = c
  OBVIOUS
<1> HIDE DEF one
<1>2. two \in Seq(Int) /\ Len(two) = 2 /\ two[1] = a /\ two[2] = b
  <2>1. /\ two \in Seq(Int) /\ Len(two) = Len(one) + 1 /\ two[Len(one) + 1] = b
        /\ \A n \in 1 .. Len(one) : two[n] = one[n]
    BY <1>0, OneMore, Zenon
  <2> HIDE DEF two
  <2> QED BY <1>0, <2>1
<1> HIDE DEF two, text
<1> DEFINE three == two \o <<c>>
<1>3. three \in Seq(Int) /\ Len(three) = 3 /\ three[1] = a /\ three[2] = b /\ three[3] = c
  <2>1. /\ three \in Seq(Int) /\ Len(three) = Len(two) + 1 /\ three[Len(two) + 1] = c
        /\ \A n \in 1 .. Len(two) : three[n] = two[n]
    BY <1>2, OneMore, Zenon
  <2> HIDE DEF three
  <2> QED BY <1>2, <2>1
<1>4. \A n \in 1 .. 3 : n = 1 \/ n = 2 \/ n = 3
  OBVIOUS
<1> HIDE DEF three
<1>5. three = text
  BY <1>1, <1>3, <1>4, SeqEqual, Zenon
<1>6. ASSUME NEW k \in {1, 3}, NEW v \in Int, text[k] = v PROVE SubSeq(text, k, k) = <<v>>
  <2>1. \A n \in k .. k : text[n] \in Int
    BY <1>6
  <2>2. /\ SubSeq(text, k, k) \in Seq(Int)
        /\ Len(SubSeq(text, k, k)) = 1 /\ SubSeq(text, k, k)[1] = v
    BY <1>6, <2>1, SubSeqProperties
  <2> DEFINE one_ == <<v>>
  <2>3. one_ \in Seq(Int) /\ Len(one_) = 1 /\ one_[1] = v
    OBVIOUS
  <2>4. \A n \in 1 .. 1 : n = 1
    OBVIOUS
  <2> HIDE DEF one_
  <2>5. SubSeq(text, k, k) = one_
    BY <2>2, <2>3, <2>4, SeqEqual
  <2> QED BY <2>5 DEF one_
<1> QED BY <1>1, <1>5, <1>6 DEF one, two, three, text

(* The text of a range of naturals has one minus sign, and only if its     *)
(* bounds differ, so that ParseIntRange reads what String wrote.           *)
LEMMA RangeRoundTrip ==
    ASSUME NEW r \in [min : Nat, max : Nat]
    PROVE  ParseIntRange(RangeString(r)) = r
<1>0. r.min \in Nat /\ r.max \in Nat /\ r = IntRange(r.min, r.max)
  BY DEF IntRange
<1>1. CASE r.min = r.max
  <2> DEFINE text == <<r.min>>
  <2>1. RangeString(r) = text
    BY <1>0, <1>1, IntRoundTrip DEF RangeString
  <2>2. {n \in 2 .. Len(text) : text[n] = Minus /\ \A m \in 1 .. n - 1 : text[m] # Minus} = {}
    <3>1. 2 .. Len(text) = {}
      OBVIOUS
    <3> QED BY <3>1
  <2>3. ParseInt(text) = r.min
    BY <1>0, IntRoundTrip
  <2> HIDE DEF text
  <2> QED BY <1>0, <1>1, <2>1, <2>2, <2>3 DEF ParseIntRange
<1>2. CASE r.min # r.max
  <2> DEFINE text == <<r.min, Minus, r.max>>
  <2>1. RangeString(r) = text
    <3>1. RangeString(r) = <<r.min>> \o <<Minus>> \o <<r.max>>
      BY <1>0, <1>2, IntRoundTrip, Zenon DEF RangeString
    <3> QED BY <1>0, <3>1, ThreeTokens DEF Minus
  <2>2. Len(text) = 3 /\ text[1] = r.min /\ text[2] = Minus /\ text[3] = r.max
    OBVIOUS
  <2>3. r.min # Minus /\ r.max # Minus
    BY <1>0 DEF Minus
  <2>4. SubSeq(text, 1, 1) = <<r.min>> /\ SubSeq(text, 3, 3) = <<r.max>>
    <3>1. r.min \in Int /\ Minus \in Int /\ r.max \in Int
      BY <1>0 DEF Minus
    <3> QED BY <3>1, ThreeTokens, Zenon
  <2> HIDE DEF text
  <2> DEFINE dash == {n \in 2 .. Len(text) : text[n] = Minus /\ \A m \in 1 .. n - 1 : text[m] # Minus}
  <2>5. dash = {2}
    BY <2>2, <2>3
  <2>6. (CHOOSE d \in dash : TRUE) = 2
    BY <2>5
  <2>7. ParseIntRange(text) =
            IntRange(ParseInt(SubSeq(text, 1, 2 - 1)), ParseInt(SubSeq(text, 2 + 1, Len(text))))
    <3> HIDE DEF dash
    <3>1. dash # {}
      BY <2>5
    <3> QED BY <2>6, <3>1, Zenon DEF ParseIntRange, dash
  <2>8. ParseInt(<<r.min>>) = r.min /\ ParseInt(<<r.max>>) = r.max
    BY <1>0, IntRoundTrip
  <2>9. 2 - 1 = 1 /\ 2 + 1 = 3
    OBVIOUS
  <2> QED BY <1>0, <2>1, <2>2, <2>4, <2>7, <2>8, <2>9, Zenon
<1> QED BY <1>1, <1>2

-----------------------------------------------------------------------------
(* Configs.                                                                *)

(* A parameter is read from the lines that give it, if they agree.         *)
LEMMA ValueGiven ==
    ASSUME NEW config, NEW key, NEW default, NEW text, <<key, text>> \in config,
           \A line \in config : line[1] = key => line[2] = text
    PROVE  Value(config, key, default) = text
<1>1. \E line \in config : line[1] = key
  <2>1. <<key, text>>[1] = key
    OBVIOUS
  <2> QED BY <2>1
<1> DEFINE line == CHOOSE line \in config : line[1] = key
<1>2. line \in config /\ line[1] = key
  BY <1>1, Zenon
<1> HIDE DEF line
<1>3. line[2] = text
  BY <1>2
<1> QED BY <1>1, <1>3, Zenon DEF Value, line

(* One that no line gives has its default.                                 *)
LEMMA ValueDefault ==
    ASSUME NEW config, NEW key, NEW default, \A line \in config : line[1] # key
    PROVE  Value(config, key, default) = default
BY Zenon DEF Value

Flags == {"RandomTrailers", "DisableCookies"}
OtherKeys == {"Jc", "Jmin", "Jmax", "HeaderProtectionKey"}

(* The keys of a config's lines are told apart (writeProfile).             *)
LEMMA KeysDiffer ==
    /\ \A j, k \in 1 .. 4 : S[j] # H[k] /\ (S[j] = S[k] => j = k) /\ (H[j] = H[k] => j = k)
    /\ \A j \in 1 .. 4, k \in 1 .. 5 : S[j] # I[k] /\ H[j] # I[k]
    /\ \A j, k \in 1 .. 5 : I[j] = I[k] => j = k
    /\ \A k \in 1 .. 4 : S[k] \notin Timers \cup Flags \cup OtherKeys
    /\ \A k \in 1 .. 4 : H[k] \notin Timers \cup Flags \cup OtherKeys
    /\ \A k \in 1 .. 5 : I[k] \notin Timers \cup Flags \cup OtherKeys
    /\ \A t \in Timers : t \notin Flags \cup OtherKeys
    /\ \A t \in Flags : t \notin OtherKeys
    /\ "PersistentKeepalive" \notin Interval /\ Interval \subseteq Timers
<1>1. \A j, k \in 1 .. 4 : S[j] # H[k] /\ (S[j] = S[k] => j = k) /\ (H[j] = H[k] => j = k)
  BY DEF S, H
<1>2. \A j \in 1 .. 4, k \in 1 .. 5 : S[j] # I[k] /\ H[j] # I[k]
  BY DEF S, H, I
<1>3. \A j, k \in 1 .. 5 : I[j] = I[k] => j = k
  BY DEF I
<1>4. \A k \in 1 .. 4 : S[k] \notin Timers \cup Flags \cup OtherKeys
  BY DEF S, Timers, Interval, Flags, OtherKeys
<1>5. \A k \in 1 .. 4 : H[k] \notin Timers \cup Flags \cup OtherKeys
  BY DEF H, Timers, Interval, Flags, OtherKeys
<1>6. \A k \in 1 .. 5 : I[k] \notin Timers \cup Flags \cup OtherKeys
  BY DEF I, Timers, Interval, Flags, OtherKeys
<1>7. \A t \in Timers : t \notin Flags \cup OtherKeys
  BY DEF Timers, Interval, Flags, OtherKeys
<1>8. \A t \in Flags : t \notin OtherKeys
  BY DEF Flags, OtherKeys
<1>9. "PersistentKeepalive" \notin Interval /\ Interval \subseteq Timers
  BY DEF Timers, Interval
<1> QED BY <1>1, <1>2, <1>3, <1>4, <1>5, <1>6, <1>7, <1>8, <1>9

(* The lines of a config, by their keys (writeProfile; the keepalive is    *)
(* the client's).                                                          *)
LineIs(p, includeEmpty, line) ==
    \/ line[1] \in {"Jc", "Jmin", "Jmax", "PersistentKeepalive"}
    \/ \E k \in 1 .. 4 : /\ SupportsV2Fields(p) \/ k \in 1 .. 2
                         /\ line[1] = S[k] /\ line[2] = FormatInt(p.s[k])
    \/ \E k \in 1 .. 4 : line[1] = H[k] /\ line[2] = RangeString(p.h[k])
    \/ \E k \in 1 .. 5 : /\ SupportsV2Fields(p) /\ (includeEmpty \/ p.i[k] # Empty)
                         /\ line[1] = I[k] /\ line[2] = p.i[k]
    \/ IsV31(p) /\ p.hpk # "" /\ line[1] = "HeaderProtectionKey" /\ line[2] = p.hpk
    \/ \E t \in Interval : /\ IsV31(p) /\ ~IsZero(p.timer[t])
                           /\ line[1] = t /\ line[2] = RangeString(p.timer[t])
    \/ IsV31(p) /\ line[1] = "RandomTrailers" /\ line[2] = awgBool(p.trailers)
    \/ IsV31(p) /\ line[1] = "DisableCookies" /\ line[2] = awgBool(p.cookies)

(* Every line is one of these.                                             *)
LEMMA LinesAre ==
    ASSUME NEW p, NEW includeEmpty \in BOOLEAN, NEW line \in writeProfile(p, includeEmpty)
    PROVE  LineIs(p, includeEmpty, line)
<1>1. CASE line \in {<<"Jc", FormatInt(p.jc)>>, <<"Jmin", FormatInt(p.jmin)>>,
                     <<"Jmax", FormatInt(p.jmax)>>}
  <2>1. line[1] \in {"Jc", "Jmin", "Jmax", "PersistentKeepalive"}
    BY <1>1
  <2> QED BY <2>1, Zenon DEF LineIs
<1>2. CASE line \in {<<S[k], FormatInt(p.s[k])>> :
                        k \in IF SupportsV2Fields(p) THEN 1 .. 4 ELSE 1 .. 2}
  <2>1. PICK k \in (IF SupportsV2Fields(p) THEN 1 .. 4 ELSE 1 .. 2) :
                line = <<S[k], FormatInt(p.s[k])>>
    BY <1>2
  <2>2. k \in 1 .. 4 /\ (SupportsV2Fields(p) \/ k \in 1 .. 2)
    OBVIOUS
  <2>3. line[1] = S[k] /\ line[2] = FormatInt(p.s[k])
    BY <2>1
  <2> QED BY <2>2, <2>3, Zenon DEF LineIs
<1>3. CASE line \in {<<H[k], RangeString(p.h[k])>> : k \in 1 .. 4}
  <2>1. PICK k \in 1 .. 4 : line = <<H[k], RangeString(p.h[k])>>
    BY <1>3
  <2>2. line[1] = H[k] /\ line[2] = RangeString(p.h[k])
    BY <2>1
  <2> QED BY <2>2, Zenon DEF LineIs
<1>4. CASE line \in {<<I[k], p.i[k]>> : k \in {n \in 1 .. 5 : /\ SupportsV2Fields(p)
                                                              /\ includeEmpty \/ p.i[n] # Empty}}
  <2>1. PICK k \in {n \in 1 .. 5 : SupportsV2Fields(p) /\ (includeEmpty \/ p.i[n] # Empty)} :
                line = <<I[k], p.i[k]>>
    BY <1>4
  <2>2. line[1] = I[k] /\ line[2] = p.i[k]
    BY <2>1
  <2> QED BY <2>2, Zenon DEF LineIs
<1>5. CASE IsV31(p) /\ line \in V31Lines(p)
  <2>1. CASE p.hpk # "" /\ line = <<"HeaderProtectionKey", p.hpk>>
    BY <1>5, <2>1, Zenon DEF LineIs
  <2>2. CASE line \in {<<t, RangeString(p.timer[t])>> : t \in {u \in Interval : ~IsZero(p.timer[u])}}
    <3>1. PICK t \in {u \in Interval : ~IsZero(p.timer[u])} : line = <<t, RangeString(p.timer[t])>>
      BY <2>2
    <3>2. line[1] = t /\ line[2] = RangeString(p.timer[t])
      BY <3>1
    <3> QED BY <1>5, <3>2, Zenon DEF LineIs
  <2>3. CASE line \in {<<"RandomTrailers", awgBool(p.trailers)>>, <<"DisableCookies", awgBool(p.cookies)>>}
    <3>1. \/ line[1] = "RandomTrailers" /\ line[2] = awgBool(p.trailers)
          \/ line[1] = "DisableCookies" /\ line[2] = awgBool(p.cookies)
      BY <2>3
    <3> QED BY <1>5, <3>1, Zenon DEF LineIs
  <2> QED BY <1>5, <2>1, <2>2, <2>3, Zenon DEF V31Lines
<1> QED BY <1>1, <1>2, <1>3, <1>4, <1>5, Zenon DEF writeProfile

(* What a config says of a key, it says in one way.                        *)
LEMMA OneTextPerKey ==
    ASSUME NEW p, NEW includeEmpty \in BOOLEAN, NEW line, LineIs(p, includeEmpty, line)
    PROVE  /\ \A k \in 1 .. 4 : line[1] = S[k] => /\ line[2] = FormatInt(p.s[k])
                                                  /\ SupportsV2Fields(p) \/ k \in 1 .. 2
           /\ \A k \in 1 .. 4 : line[1] = H[k] => line[2] = RangeString(p.h[k])
           /\ \A k \in 1 .. 5 : line[1] = I[k] => /\ line[2] = p.i[k] /\ SupportsV2Fields(p)
                                                  /\ includeEmpty \/ p.i[k] # Empty
           /\ line[1] = "HeaderProtectionKey" => line[2] = p.hpk /\ IsV31(p)
           /\ \A t \in Interval : line[1] = t => /\ line[2] = RangeString(p.timer[t])
                                                 /\ IsV31(p) /\ ~IsZero(p.timer[t])
           /\ line[1] = "RandomTrailers" => line[2] = awgBool(p.trailers) /\ IsV31(p)
           /\ line[1] = "DisableCookies" => line[2] = awgBool(p.cookies) /\ IsV31(p)
<1>0. /\ {"Jc", "Jmin", "Jmax", "HeaderProtectionKey"} = OtherKeys
      /\ {"RandomTrailers", "DisableCookies"} = Flags /\ "RandomTrailers" # "DisableCookies"
      /\ "PersistentKeepalive" \in Timers
      /\ "HeaderProtectionKey" \notin {"Jc", "Jmin", "Jmax", "PersistentKeepalive"}
  BY Zenon DEF Flags, OtherKeys, Timers
<1>1. CASE line[1] \in {"Jc", "Jmin", "Jmax", "PersistentKeepalive"}
  BY <1>0, <1>1, KeysDiffer
<1>2. CASE \E k \in 1 .. 4 : /\ SupportsV2Fields(p) \/ k \in 1 .. 2
                             /\ line[1] = S[k] /\ line[2] = FormatInt(p.s[k])
  BY <1>0, <1>2, KeysDiffer, Zenon
<1>3. CASE \E k \in 1 .. 4 : line[1] = H[k] /\ line[2] = RangeString(p.h[k])
  BY <1>0, <1>3, KeysDiffer, Zenon
<1>4. CASE \E k \in 1 .. 5 : /\ SupportsV2Fields(p) /\ (includeEmpty \/ p.i[k] # Empty)
                             /\ line[1] = I[k] /\ line[2] = p.i[k]
  BY <1>0, <1>4, KeysDiffer
<1>5. CASE \E t \in Interval : /\ IsV31(p) /\ ~IsZero(p.timer[t])
                               /\ line[1] = t /\ line[2] = RangeString(p.timer[t])
  BY <1>0, <1>5, KeysDiffer
<1>6. CASE \/ IsV31(p) /\ line[1] = "HeaderProtectionKey" /\ line[2] = p.hpk
           \/ IsV31(p) /\ line[1] = "RandomTrailers" /\ line[2] = awgBool(p.trailers)
           \/ IsV31(p) /\ line[1] = "DisableCookies" /\ line[2] = awgBool(p.cookies)
  BY <1>0, <1>6, KeysDiffer, Zenon
<1> QED BY <1>1, <1>2, <1>3, <1>4, <1>5, <1>6, Zenon DEF LineIs

(* The lines that writeProfile writes.                                     *)
LEMMA LinesWritten ==
    ASSUME NEW p, NEW includeEmpty \in BOOLEAN
    PROVE  LET lines == writeProfile(p, includeEmpty)
           IN  /\ \A k \in 1 .. 4 : SupportsV2Fields(p) \/ k \in 1 .. 2 =>
                                        <<S[k], FormatInt(p.s[k])>> \in lines
               /\ \A k \in 1 .. 4 : <<H[k], RangeString(p.h[k])>> \in lines
               /\ \A k \in 1 .. 5 : SupportsV2Fields(p) /\ p.i[k] # Empty => <<I[k], p.i[k]>> \in lines
               /\ IsV31(p) => V31Lines(p) \subseteq lines
BY Zenon DEF writeProfile

(* What Validate says of the parameters both ends share.                   *)
LEMMA SharedValid ==
    ASSUME NEW p \in ProtocolProfile, Validate(p)
    PROVE  /\ \A k \in 1 .. 4 : p.s[k] \in Nat
           /\ ~SupportsV2Fields(p) => /\ \A k \in 1 .. 4 : k \notin 1 .. 2 => p.s[k] = 0
                                      /\ \A k \in 1 .. 5 : p.i[k] = Empty
           /\ \A k \in 1 .. 4 : p.h[k] \in [min : Nat, max : Nat]
           /\ \A t \in Timers : p.timer[t] \in [min : Nat, max : Nat]
           /\ IsV31(p) => SupportsV2Fields(p)
<1>1. ASSUME NEW k \in 1 .. 4 PROVE p.s[k] \in Nat
  <2>1. p.s[k] \in Int
    BY ProfileFields
  <2>2. k \in 1 .. 2 => 0 <= p.s[k]
    <3>1. \A j \in 1 .. 2 : p.s[j] \in 0 .. SMax[j]
      BY Zenon DEF Validate
    <3> QED BY <3>1
  <2>3. k \in 3 .. 4 => 0 <= p.s[k]
    <3>1. \A j \in 3 .. 4 : p.s[j] \in 0 .. SMax[j] \/ p.s[j] = 0
      BY Zenon DEF Validate, ValidV2Fields
    <3> QED BY <3>1
  <2> QED BY <2>1, <2>2, <2>3
<1>2. ASSUME ~SupportsV2Fields(p)
      PROVE  /\ \A k \in 1 .. 4 : k \notin 1 .. 2 => p.s[k] = 0
             /\ \A k \in 1 .. 5 : p.i[k] = Empty
  <2>1. (\A k \in 3 .. 4 : p.s[k] = 0) /\ \A k \in 1 .. 5 : p.i[k] = Empty
    BY <1>2, Zenon DEF Validate, ValidV2Fields
  <2> QED BY <2>1
<1>3. ASSUME NEW k \in 1 .. 4 PROVE p.h[k] \in [min : Nat, max : Nat]
  <2>1. p.h[k] \in [min : Int, max : Int]
    BY ProfileFields
  <2>2. 0 <= p.h[k].min /\ 0 <= p.h[k].max
    BY Zenon DEF Validate, ValidHeaders
  <2> QED BY <2>1, <2>2
<1>4. ASSUME NEW t \in Timers PROVE p.timer[t] \in [min : Nat, max : Nat]
  <2>1. p.timer[t] \in [min : U16, max : U16]
    BY ProfileFields
  <2>2. U16 \subseteq Nat
    <3>1. U16Max \in Nat
      BY DEF U16Max
    <3> QED BY <3>1 DEF U16
  <2> QED BY <2>1, <2>2
<1>5. IsV31(p) => SupportsV2Fields(p)
  BY DEF IsV31, SupportsV2Fields
<1> QED BY <1>1, <1>2, <1>3, <1>4, <1>5

(* A flag is read as it was written.                                       *)
LEMMA BoolRoundTrip ==
    ASSUME NEW b \in BOOLEAN
    PROVE  (awgBool(b) = "on") = b
BY DEF awgBool

(* A config that says of a valid profile what writeProfile writes, and     *)
(* nothing else of its keys, is read as the profile.                       *)
LEMMA ConfigIsRead ==
    ASSUME NEW p \in ProtocolProfile, Validate(p), NEW includeEmpty \in BOOLEAN, NEW config,
           writeProfile(p, includeEmpty) \subseteq config,
           \A line \in config : LineIs(p, includeEmpty, line)
    PROVE  ReadConfig(config) = Shared(p)
<1>1. ASSUME NEW k \in 1 .. 4 PROVE ParseInt(Value(config, S[k], <<0>>)) = p.s[k]
  <2>0. p.s[k] \in Nat /\ FormatInt(0) = <<0>>
    BY SharedValid, IntRoundTrip
  <2>1. CASE SupportsV2Fields(p) \/ k \in 1 .. 2
    <3>1. <<S[k], FormatInt(p.s[k])>> \in config
      BY <2>1, LinesWritten, Zenon
    <3>2. \A line \in config : line[1] = S[k] => line[2] = FormatInt(p.s[k])
      BY OneTextPerKey
    <3>3. Value(config, S[k], <<0>>) = FormatInt(p.s[k])
      BY <3>1, <3>2, ValueGiven
    <3> QED BY <2>0, <3>3, IntRoundTrip
  <2>2. CASE ~(SupportsV2Fields(p) \/ k \in 1 .. 2)
    <3>1. \A line \in config : line[1] # S[k]
      BY <2>2, OneTextPerKey, Zenon
    <3>2. Value(config, S[k], <<0>>) = FormatInt(0)
      BY <2>0, <3>1, ValueDefault
    <3>3. p.s[k] = 0
      BY <2>2, SharedValid
    <3> QED BY <3>2, <3>3, IntRoundTrip
  <2> QED BY <2>1, <2>2
<1>2. ASSUME NEW k \in 1 .. 4 PROVE ParseIntRange(Value(config, H[k], <<k>>)) = p.h[k]
  <2>1. <<H[k], RangeString(p.h[k])>> \in config
    BY LinesWritten, Zenon
  <2>2. \A line \in config : line[1] = H[k] => line[2] = RangeString(p.h[k])
    BY OneTextPerKey
  <2>3. Value(config, H[k], <<k>>) = RangeString(p.h[k])
    BY <2>1, <2>2, ValueGiven
  <2> QED BY <2>3, SharedValid, RangeRoundTrip
<1>3. ASSUME NEW k \in 1 .. 5 PROVE Value(config, I[k], Empty) = p.i[k]
  <2>1. \A line \in config : line[1] = I[k] => line[2] = p.i[k] /\ SupportsV2Fields(p)
    BY OneTextPerKey
  <2>2. CASE <<I[k], p.i[k]>> \in config
    BY <2>1, <2>2, ValueGiven
  <2>3. CASE <<I[k], p.i[k]>> \notin config
    <3>1. p.i[k] = Empty
      BY <2>3, LinesWritten, SharedValid, Zenon
    <3>2. CASE \E line \in config : line[1] = I[k]
      BY <2>1, <3>1, <3>2 DEF Value
    <3>3. CASE \A line \in config : line[1] # I[k]
      BY <3>1, <3>3, ValueDefault
    <3> QED BY <3>2, <3>3
  <2> QED BY <2>2, <2>3, Zenon
<1>4. TrimSpace(Value(config, "HeaderProtectionKey", "")) = TrimSpace(p.hpk)
  <2>1. \A line \in config : line[1] = "HeaderProtectionKey" => line[2] = p.hpk /\ IsV31(p)
    BY OneTextPerKey
  <2>2. CASE IsV31(p)
    <3>1. <<"HeaderProtectionKey", p.hpk>> \in config
      BY <2>2, LinesWritten, V31Valid, Zenon DEF V31Lines
    <3>2. Value(config, "HeaderProtectionKey", "") = p.hpk
      <4> DEFINE key == "HeaderProtectionKey"
      <4>1. <<key, p.hpk>> \in config /\ \A line \in config : line[1] = key => line[2] = p.hpk
        BY <2>1, <3>1
      <4> HIDE DEF key
      <4>2. \A default : Value(config, key, default) = p.hpk
        BY <4>1, ValueGiven
      <4> QED BY <4>2, Zenon DEF key
    <3> QED BY <3>2, Zenon
  <2>3. CASE ~IsV31(p)
    <3>1. Value(config, "HeaderProtectionKey", "") = ""
      BY <2>1, <2>3, ValueDefault, Zenon
    <3>2. p.hpk = ""
      BY <2>3, V31Valid, Zenon
    <3> QED BY <3>1, <3>2, Zenon
  <2> QED BY <2>2, <2>3, Zenon
<1>5. ASSUME NEW t \in Interval PROVE ParseIntRange(Value(config, t, <<0>>)) = p.timer[t]
  <2>0. t \in Timers /\ p.timer[t] \in [min : Nat, max : Nat]
    BY SharedValid, KeysDiffer, Zenon
  <2>1. \A line \in config : line[1] = t => /\ line[2] = RangeString(p.timer[t])
                                            /\ IsV31(p) /\ ~IsZero(p.timer[t])
    BY OneTextPerKey, Zenon
  <2>2. CASE IsV31(p) /\ ~IsZero(p.timer[t])
    <3>1. <<t, RangeString(p.timer[t])>> \in config
      BY <2>2, LinesWritten, Zenon DEF V31Lines
    <3>2. Value(config, t, <<0>>) = RangeString(p.timer[t])
      BY <2>1, <3>1, ValueGiven
    <3> QED BY <2>0, <3>2, RangeRoundTrip
  <2>3. CASE ~(IsV31(p) /\ ~IsZero(p.timer[t]))
    <3>1. IsZero(p.timer[t])
      BY <2>0, <2>3, V31Valid, Zenon
    <3>2. RangeString(p.timer[t]) = <<0>>
      BY <3>1, IntRoundTrip DEF IsZero, RangeString
    <3>3. Value(config, t, <<0>>) = <<0>>
      BY <2>1, <2>3, ValueDefault
    <3> QED BY <2>0, <3>2, <3>3, RangeRoundTrip
  <2> QED BY <2>2, <2>3, Zenon
<1>6. (Value(config, "RandomTrailers", "off") = "on") = p.trailers
  <2>1. \A line \in config : line[1] = "RandomTrailers" => line[2] = awgBool(p.trailers) /\ IsV31(p)
    BY OneTextPerKey
  <2>2. CASE IsV31(p)
    <3>1. <<"RandomTrailers", awgBool(p.trailers)>> \in config
      BY <2>2, LinesWritten, Zenon DEF V31Lines
    <3>2. Value(config, "RandomTrailers", "off") = awgBool(p.trailers)
      BY <2>1, <3>1, ValueGiven
    <3> QED BY <3>2, ProfileFields, BoolRoundTrip
  <2>3. CASE ~IsV31(p)
    <3>1. Value(config, "RandomTrailers", "off") = "off"
      BY <2>1, <2>3, ValueDefault
    <3>2. p.trailers = FALSE
      BY <2>3, V31Valid, ProfileFields, Zenon
    <3> QED BY <3>1, <3>2, Zenon
  <2> QED BY <2>2, <2>3
<1>7. (Value(config, "DisableCookies", "off") = "on") = p.cookies
  <2>1. \A line \in config : line[1] = "DisableCookies" => line[2] = awgBool(p.cookies) /\ IsV31(p)
    BY OneTextPerKey, Zenon
  <2>2. CASE IsV31(p)
    <3>1. <<"DisableCookies", awgBool(p.cookies)>> \in config
      BY <2>2, LinesWritten, Zenon DEF V31Lines
    <3>2. Value(config, "DisableCookies", "off") = awgBool(p.cookies)
      BY <2>1, <3>1, ValueGiven
    <3> QED BY <3>2, ProfileFields, BoolRoundTrip
  <2>3. CASE ~IsV31(p)
    <3>1. Value(config, "DisableCookies", "off") = "off"
      BY <2>1, <2>3, ValueDefault
    <3>2. p.cookies = FALSE
      BY <2>3, V31Valid, ProfileFields, Zenon
    <3> QED BY <3>1, <3>2, Zenon
  <2> QED BY <2>2, <2>3
<1>8. /\ [k \in 1 .. 4 |-> ParseInt(Value(config, S[k], <<0>>))] = p.s
      /\ [k \in 1 .. 4 |-> ParseIntRange(Value(config, H[k], <<k>>))] = p.h
      /\ [k \in 1 .. 5 |-> Value(config, I[k], Empty)] = p.i
  BY <1>1, <1>2, <1>3, ProfileFields
<1>9. [t \in Interval |-> ParseIntRange(Value(config, t, <<0>>))] = [t \in Interval |-> p.timer[t]]
  BY <1>5
<1> QED BY <1>4, <1>6, <1>7, <1>8, <1>9, Zenon DEF ReadConfig, Shared

(* The server reads the profile from its config, and so does the client    *)
(* (Server, Client).                                                       *)
LEMMA EndsRead ==
    ASSUME NEW p \in ProtocolProfile, Validate(p)
    PROVE  ReadConfig(Server(p)) = Shared(p) /\ ReadConfig(Client(p)) = Shared(p)
<1>1. ReadConfig(Server(p)) = Shared(p)
  BY ConfigIsRead, LinesAre, Zenon DEF Server
<1>2. /\ writeProfile(p, TRUE) \subseteq Client(p)
      /\ \A line \in Client(p) : line \in writeProfile(p, TRUE) \/ line[1] = "PersistentKeepalive"
  <2>1. PICK v : Client(p) = writeProfile(p, TRUE) \cup {<<"PersistentKeepalive", v>>}
    BY Zenon DEF Client
  <2>2. \A line : line = <<"PersistentKeepalive", v>> => line[1] = "PersistentKeepalive"
    BY SMT
  <2> QED BY <2>1, <2>2, Zenon
<1>3. ASSUME NEW line \in Client(p) PROVE LineIs(p, TRUE, line)
  <2>1. CASE line \in writeProfile(p, TRUE)
    BY <2>1, LinesAre, Zenon
  <2>2. CASE line[1] = "PersistentKeepalive"
    BY <2>2, Zenon DEF LineIs
  <2> QED BY <1>2, <2>1, <2>2, Zenon
<1>4. ReadConfig(Client(p)) = Shared(p)
  BY <1>2, <1>3, ConfigIsRead, Zenon
<1> QED BY <1>1, <1>4

(* The client's lines without the header protection key: the numbers, the  *)
(* junk specs, those only V3.1 has, and the keepalive.                     *)
Numbers(p) ==
    {<<"Jc", FormatInt(p.jc)>>, <<"Jmin", FormatInt(p.jmin)>>, <<"Jmax", FormatInt(p.jmax)>>} \cup
    {<<S[k], FormatInt(p.s[k])>> : k \in IF SupportsV2Fields(p) THEN 1 .. 4 ELSE 1 .. 2} \cup
    {<<H[k], RangeString(p.h[k])>> : k \in 1 .. 4}
JunkSpecs(p) == {<<I[k], p.i[k]>> : k \in {n \in 1 .. 5 : SupportsV2Fields(p)}}
V31Rest(p) ==
    {<<t, RangeString(p.timer[t])>> : t \in {u \in Interval : ~IsZero(p.timer[u])}} \cup
    {<<"RandomTrailers", awgBool(p.trailers)>>, <<"DisableCookies", awgBool(p.cookies)>>}
Keepalive(p) == IF IsV31(p) /\ ~IsZero(p.timer["PersistentKeepalive"])
                THEN RangeString(p.timer["PersistentKeepalive"]) ELSE FormatInt(25)
Public(p) == Numbers(p) \cup JunkSpecs(p) \cup (IF IsV31(p) THEN V31Rest(p) ELSE {})
                 \cup {<<"PersistentKeepalive", Keepalive(p)>>}
KeyLine(p) == IF IsV31(p) /\ p.hpk # "" THEN {<<"HeaderProtectionKey", p.hpk>>} ELSE {}

(* The client's config is these lines and that of the key.                 *)
LEMMA ClientLines ==
    ASSUME NEW p
    PROVE  Client(p) = Public(p) \cup KeyLine(p)
<1>1. JunkSpecs(p) = {<<I[k], p.i[k]>> : k \in {n \in 1 .. 5 : /\ SupportsV2Fields(p)
                                                               /\ TRUE \/ p.i[n] # Empty}}
  BY DEF JunkSpecs
<1>2. writeProfile(p, TRUE) = Numbers(p) \cup JunkSpecs(p) \cup (IF IsV31(p) THEN V31Lines(p) ELSE {})
  BY <1>1, Zenon DEF writeProfile, Numbers
<1>3. V31Lines(p) = (IF p.hpk # "" THEN {<<"HeaderProtectionKey", p.hpk>>} ELSE {}) \cup V31Rest(p)
  BY DEF V31Lines, V31Rest
<1>4. Client(p) = writeProfile(p, TRUE) \cup {<<"PersistentKeepalive", Keepalive(p)>>}
  BY Zenon DEF Client, Keepalive
<1> QED BY <1>2, <1>3, <1>4, Zenon DEF Public, KeyLine

(* None of them is the key's.                                              *)
LEMMA PublicHasNoKey ==
    ASSUME NEW p, NEW line \in Public(p)
    PROVE  line[1] # "HeaderProtectionKey"
<1>0. /\ "HeaderProtectionKey" \in OtherKeys /\ "PersistentKeepalive" \in Timers
      /\ "RandomTrailers" \in Flags /\ "DisableCookies" \in Flags
      /\ "HeaderProtectionKey" \notin {"Jc", "Jmin", "Jmax"}
  BY Zenon DEF OtherKeys, Timers, Flags
<1>1. CASE line \in Numbers(p)
  <2>1. \/ line[1] \in {"Jc", "Jmin", "Jmax"} \/ \E k \in 1 .. 4 : line[1] = S[k]
        \/ \E k \in 1 .. 4 : line[1] = H[k]
    BY <1>1 DEF Numbers
  <2> QED BY <1>0, <2>1, KeysDiffer
<1>2. CASE line \in JunkSpecs(p)
  <2>1. \E k \in 1 .. 5 : line[1] = I[k]
    BY <1>2 DEF JunkSpecs
  <2> QED BY <1>0, <2>1, KeysDiffer
<1>3. CASE line \in V31Rest(p)
  <2>1. line[1] \in Interval \cup Flags
    BY <1>0, <1>3 DEF V31Rest
  <2> QED BY <1>0, <2>1, KeysDiffer
<1>4. CASE line = <<"PersistentKeepalive", Keepalive(p)>>
  <2>1. line[1] = "PersistentKeepalive"
    BY <1>4
  <2> QED BY <1>0, <2>1, KeysDiffer
<1> QED BY <1>1, <1>2, <1>3, <1>4 DEF Public

(* A profile without its key differs in the key only (publicProfile).      *)
LEMMA PublicProfile ==
    ASSUME NEW p \in ProtocolProfile, NEW q, q = publicProfile(p)
    PROVE  Public(q) = Public(p) /\ KeyLine(q) = {}
<1>1. /\ q.hpk = "" /\ q.version = p.version /\ q.jc = p.jc /\ q.jmin = p.jmin /\ q.jmax = p.jmax
      /\ q.s = p.s /\ q.h = p.h /\ q.i = p.i /\ q.timer = p.timer
      /\ q.trailers = p.trailers /\ q.cookies = p.cookies
  BY Zenon DEF publicProfile, ProtocolProfile
<1>2. SupportsV2Fields(q) = SupportsV2Fields(p) /\ IsV31(q) = IsV31(p)
  BY <1>1, Zenon DEF SupportsV2Fields, IsV31
<1>3. Numbers(q) = Numbers(p) /\ JunkSpecs(q) = JunkSpecs(p)
  BY <1>1, <1>2, Zenon DEF Numbers, JunkSpecs
<1>4. V31Rest(q) = V31Rest(p) /\ Keepalive(q) = Keepalive(p)
  BY <1>1, <1>2, Zenon DEF V31Rest, Keepalive
<1>5. KeyLine(q) = {}
  BY <1>1, Zenon DEF KeyLine
<1> QED BY <1>2, <1>3, <1>4, <1>5, Zenon DEF Public

(* The skeleton is the client's config without the key's line              *)
(* (PeerConfiguration).                                                    *)
LEMMA SkeletonLines ==
    ASSUME NEW p \in ProtocolProfile
    PROVE  Client(publicProfile(p)) = {line \in Client(p) : line[1] # "HeaderProtectionKey"}
<1>1. Client(publicProfile(p)) = Public(p)
  <2>1. /\ Client(publicProfile(p)) = Public(publicProfile(p)) \cup KeyLine(publicProfile(p))
        /\ Public(publicProfile(p)) = Public(p) /\ KeyLine(publicProfile(p)) = {}
    BY ClientLines, PublicProfile
  <2> QED BY <2>1
<1>2. \A line \in KeyLine(p) : line[1] = "HeaderProtectionKey"
  <2>1. KeyLine(p) \subseteq {<<"HeaderProtectionKey", p.hpk>>}
    BY Zenon DEF KeyLine
  <2> QED BY <2>1
<1> QED BY <1>1, <1>2, ClientLines, PublicHasNoKey

-----------------------------------------------------------------------------
(* The state of a profile: nothing refuses a valid one, its row and what   *)
(* is loaded from the row are its own, and so is what is rendered.         *)
IInv ==
    /\ TypeOK
    /\ pc # "failed"
    /\ pc \in {"stored", "loaded", "rendered"} => Validate(profile) /\ row = RowOf(profile)
    /\ loaded = IF pc \in {"loaded", "rendered"} THEN profile ELSE NULL
    /\ server = IF pc = "rendered" THEN Server(profile) ELSE {}
    /\ client = IF pc = "rendered" THEN Client(profile) ELSE {}
    /\ skeleton = IF pc = "rendered" THEN Client(publicProfile(profile)) ELSE {}

(* A profile that is submitted has no row yet.                             *)
LEMMA InitIInv == Init => IInv
  BY DEF Init, Submitted, IInv, TypeOK

(* A valid profile is stored, and any other is refused (insertProfile).    *)
LEMMA InsertIInv == IInv /\ insertProfile => IInv'
<1> SUFFICES ASSUME IInv, insertProfile PROVE IInv'
  OBVIOUS
<1>1. /\ profile \in ProtocolProfile /\ profile' = profile /\ pc = "submitted"
      /\ loaded = NULL /\ loaded' = NULL
      /\ server = {} /\ server' = {} /\ client = {} /\ client' = {}
      /\ skeleton = {} /\ skeleton' = {}
  BY DEF IInv, TypeOK, insertProfile
<1>2. CASE ~Validate(profile)
  <2>1. pc' = "rejected" /\ row' = NULL
    BY <1>2 DEF insertProfile
  <2> QED BY <1>1, <2>1 DEF IInv, TypeOK
<1>3. CASE Validate(profile)
  <2>1. ChecksHold(RowOf(profile)) /\ RowOf(profile) \in ProfileRow
    BY <1>1, <1>3, ValidRow, RowTyped
  <2>2. pc' = "stored" /\ row' = RowOf(profile)
    BY <1>3, <2>1 DEF insertProfile
  <2>3. RowOf(profile) # NULL
    BY <2>1, ProfileAssumption
  <2>4. TypeOK'
    BY <1>1, <2>1, <2>2, <2>3 DEF TypeOK
  <2> QED BY <1>1, <1>3, <2>2, <2>4 DEF IInv
<1> QED BY <1>2, <1>3

(* What is scanned from the row is the profile (GetByID).                  *)
LEMMA GetIInv == IInv /\ GetByID => IInv'
<1> SUFFICES ASSUME IInv, GetByID PROVE IInv'
  OBVIOUS
<1>1. /\ profile \in ProtocolProfile /\ profile' = profile /\ pc = "stored" /\ pc' = "loaded"
      /\ Validate(profile) /\ row = RowOf(profile) /\ row' = row /\ loaded' = scanProfile(row)
      /\ server = {} /\ server' = {} /\ client = {} /\ client' = {}
      /\ skeleton = {} /\ skeleton' = {} /\ row \in ProfileRow \cup {NULL} /\ row # NULL
  BY DEF IInv, TypeOK, GetByID
<1>2. loaded' = profile
  BY <1>1, RowRoundTrip
<1>3. TypeOK'
  BY <1>1, <1>2, ProfileAssumption DEF TypeOK
<1> QED BY <1>1, <1>2, <1>3 DEF IInv

(* The configs are rendered from the profile that was loaded (Render).     *)
LEMMA RenderIInv == IInv /\ Render => IInv'
<1> SUFFICES ASSUME IInv, Render PROVE IInv'
  OBVIOUS
<1>1. /\ profile \in ProtocolProfile /\ profile' = profile /\ pc = "loaded" /\ pc' = "rendered"
      /\ Validate(profile) /\ row = RowOf(profile) /\ row' = row
      /\ row \in ProfileRow \cup {NULL} /\ row # NULL /\ loaded = profile /\ loaded' = profile
  BY DEF IInv, TypeOK, Render
<1>2. /\ server' = Server(profile) /\ client' = Client(profile)
      /\ skeleton' = Client(publicProfile(profile))
  BY <1>1, Zenon DEF Render
<1>3. TypeOK'
  BY <1>1, ProfileAssumption DEF TypeOK
<1> QED BY <1>1, <1>2, <1>3 DEF IInv

(* Every reachable state satisfies it.                                     *)
THEOREM Inductive == Spec => []IInv
<1>1. IInv /\ [Next]_vars => IInv'
  <2>1. IInv /\ UNCHANGED vars => IInv'
    BY DEF vars, IInv, TypeOK
  <2> QED BY <2>1, InsertIInv, GetIInv, RenderIInv DEF Next
<1> QED BY <1>1, InitIInv, PTL DEF Spec

-----------------------------------------------------------------------------
(* The profile, its row and what is read back have their types, and there  *)
(* is a row exactly once the profile is stored.                            *)
THEOREM TypeCorrect == Spec => []TypeOK
<1>1. IInv => TypeOK
  BY DEF IInv
<1> QED BY <1>1, Inductive, PTL

(* Whatever profile is submitted, and whatever the limit on headers, one   *)
(* that Validate accepts satisfies every constraint of its table.          *)
THEOREM Storable == Spec => []ValidIsStorable
<1>1. IInv => ValidIsStorable
  BY DEF IInv, ValidIsStorable
<1> QED BY <1>1, Inductive, PTL

(* A stored profile is read back as it was submitted (rangeDB, nullable,   *)
(* scanProfile).                                                           *)
THEOREM ComesBack == Spec => []RoundTrips
<1>1. IInv => RoundTrips
  BY DEF IInv, RoundTrips
<1> QED BY <1>1, Inductive, PTL

(* The header ranges of a profile that is in use share no value, and none  *)
(* is empty (Validate, rangesOverlap).                                     *)
THEOREM TypesTold == Spec => []PacketTypesDistinct
<1>1. ASSUME IInv, loaded # NULL
      PROVE  loaded = profile /\ loaded \in ProtocolProfile /\ Validate(loaded)
  BY <1>1 DEF IInv, TypeOK
<1>2. IInv => PacketTypesDistinct
  BY <1>1, ValueHasOneType DEF PacketTypesDistinct
<1> QED BY <1>2, Inductive, PTL

(* The junk packets of a profile that is in use fit the limit, however     *)
(* many tags their specs have (validateSpecialJunk).                       *)
THEOREM JunkInLimit == Spec => []JunkFitsPacket
<1>1. ASSUME IInv, loaded # NULL
      PROVE  loaded = profile /\ loaded \in ProtocolProfile /\ Validate(loaded)
  BY <1>1 DEF IInv, TypeOK
<1>2. IInv => JunkFitsPacket
  <2> SUFFICES ASSUME IInv, loaded # NULL, NEW k \in 1 .. 5
               PROVE  /\ \A n \in 1 .. Len(loaded.i[k].tags) : FixedOutput(loaded.i[k].tags[n]) >= 0
                      /\ totalFixed(loaded.i[k].tags)[Len(loaded.i[k].tags)] <= JunkSizeMax
    BY Zenon DEF JunkFitsPacket
  <2>1. loaded.i[k] \in JunkSpec
    BY <1>1 DEF ProtocolProfile
  <2>2. ValidJunk(loaded.i[k])
    <3>1. CASE SupportsV2Fields(loaded)
      BY <1>1, <3>1, Zenon DEF Validate, ValidV2Fields
    <3>2. CASE ~SupportsV2Fields(loaded)
      <4>1. loaded.i[k] = Empty
        BY <1>1, <3>2, Zenon DEF Validate, ValidV2Fields
      <4>2. ValidJunk(Empty)
        BY DEF ValidJunk, Empty, AWGStringMax
      <4> QED BY <4>1, <4>2
    <3> QED BY <3>1, <3>2
  <2> QED BY <2>1, <2>2, JunkFits
<1> QED BY <1>2, Inductive, PTL

(* Both ends of a tunnel read the submitted profile from their configs     *)
(* (Server, Client, writeProfile).                                         *)
THEOREM EndsInterwork == Spec => []EndsAgree
<1>1. IInv => EndsAgree
  <2> SUFFICES ASSUME IInv, pc = "rendered"
               PROVE  ReadConfig(server) = Shared(profile) /\ ReadConfig(client) = Shared(profile)
    BY DEF EndsAgree
  <2>1. /\ profile \in ProtocolProfile /\ Validate(profile)
        /\ server = Server(profile) /\ client = Client(profile)
    BY DEF IInv, TypeOK
  <2> QED BY <2>1, EndsRead
<1> QED BY <1>1, Inductive, PTL

(* The config that can be fetched again lacks the header protection key    *)
(* and nothing else (PeerConfiguration, publicProfile).                    *)
THEOREM SkeletonIsPublic == Spec => []SkeletonLacksOnlyTheKey
<1>1. IInv => SkeletonLacksOnlyTheKey
  <2> SUFFICES ASSUME IInv PROVE SkeletonLacksOnlyTheKey
    OBVIOUS
  <2>1. profile \in ProtocolProfile
    BY DEF IInv, TypeOK
  <2>2. CASE pc = "rendered"
    <3>1. client = Client(profile) /\ skeleton = Client(publicProfile(profile))
      BY <2>2 DEF IInv
    <3> QED BY <2>1, <3>1, SkeletonLines, Zenon DEF SkeletonLacksOnlyTheKey
  <2>3. CASE pc # "rendered"
    <3>1. client = {} /\ skeleton = {}
      BY <2>3 DEF IInv
    <3> QED BY <3>1 DEF SkeletonLacksOnlyTheKey
  <2> QED BY <2>2, <2>3
<1> QED BY <1>1, Inductive, PTL

=============================================================================
