------------------------------ MODULE Profile -------------------------------
(***************************************************************************)
(* A protocol profile on its way from submission to the configs of the two *)
(* ends of a tunnel: ProtocolProfile.Validate, the nullable row and the    *)
(* CHECK constraints it meets, the scan back, and the renderer.            *)
(*                                                                         *)
(* Numbered fields (S1 to S4, H1 to H4, I1 to I5) are functions; so are    *)
(* the u16 ranges of V3.1, by parameter name.  Only what tells junk specs  *)
(* apart is kept of their text: its length and its tags.                   *)
(***************************************************************************)
EXTENDS Integers, Sequences, FiniteSets

CONSTANTS
    HMax,  \* the largest header value, 0xFFFFFFFF in the code
    NULL

VARIABLES
    profile,                  \* the profile as submitted
    pc,                       \* how far it has come
    row,                      \* its row in protocol_profiles
    loaded,                   \* the profile scanned from the row
    server, client, skeleton  \* the configs rendered from it

vars == <<profile, pc, row, loaded, server, client, skeleton>>

-----------------------------------------------------------------------------
AWGStringMax == 5119
JcMax == 10
JunkSizeMin == 1
JunkSizeMax == 1280
SMax == <<1132, 1188, 64, 32>>
U16Max == 65535
U16 == 0 .. U16Max

Interval == {"ContentPaddingAddition", "RekeyAfterTime", "RekeyTimeout",
             "RejectAfterTime", "KeepaliveTimeout", "MaxHandshakeAttempts"}
Timers == Interval \cup {"PersistentKeepalive"}

IntRange(lo, hi) == [min |-> lo, max |-> hi]
Unset == IntRange(0, 0)

(* A tag: its name, the number of its arguments, and the bytes that the    *)
(* argument stands for, if it parses.  An unclosed tag, and one without a  *)
(* name, count as unknown names.                                           *)
Tag == [name : STRING, args : Nat, parses : BOOLEAN, size : Int]
JunkSpec == [len : Nat, tags : Seq(Tag)]
Empty == [len |-> 0, tags |-> <<>>]

ProtocolProfile ==
    [name : STRING, version : STRING, jc : Int, jmin : Int, jmax : Int,
     s : [1 .. 4 -> Int], h : [1 .. 4 -> [min : Int, max : Int]],
     i : [1 .. 5 -> JunkSpec], hpk : STRING,
     timer : [Timers -> [min : U16, max : U16]],
     trailers : BOOLEAN, cookies : BOOLEAN, policy : STRING]

(* The columns of protocol_profiles.                                       *)
ProfileRow ==
    [name : STRING, version : STRING, jc : Int, jmin : Int, jmax : Int,
     s : [1 .. 4 -> Int], h : [1 .. 4 -> [min : Int, max : Int]],
     i : [1 .. 5 -> JunkSpec \cup {NULL}], hpk : STRING \cup {NULL},
     timer : [Timers -> [min : U16 \cup {NULL}, max : U16 \cup {NULL}]],
     trailers : BOOLEAN \cup {NULL}, cookies : BOOLEAN \cup {NULL}, policy : STRING]

(* NULL is no value of a column, no row and no profile.                    *)
ASSUME ProfileAssumption ==
    /\ HMax \in Nat
    /\ NULL \notin STRING /\ NULL \notin BOOLEAN /\ NULL \notin Int
    /\ NULL \notin JunkSpec \cup ProtocolProfile \cup ProfileRow

(* There is a row once the profile is stored, and the profile and what is  *)
(* read from the row are typed (insertProfile, scanProfile).               *)
TypeOK ==
    /\ profile \in ProtocolProfile
    /\ pc \in {"submitted", "rejected", "failed", "stored", "loaded", "rendered"}
    /\ row \in ProfileRow \cup {NULL} /\ loaded \in ProtocolProfile \cup {NULL}
    /\ (row # NULL) = (pc \in {"stored", "loaded", "rendered"})

-----------------------------------------------------------------------------
(* ProtocolProfile.Validate.                                               *)

(* " key " is a value with blanks around it, " " only blanks.              *)
TrimSpace(s) == IF s = " key " THEN "key" ELSE IF s = " " THEN "" ELSE s

SupportsV2Fields(p) == p.version \in {"v2", "v3.1"}
IsV31(p) == p.version = "v3.1"

IsZero(r) == r.min = 0 /\ r.max = 0
isRange(r) == r.min # r.max

(* Mutated form of rangesOverlap: the bounds are taken as exclusive.       *)
rangesOverlap_Exclusive(a, b) == a.min < b.max /\ b.min < a.max

rangesOverlap(a, b) == a.min <= b.max /\ b.min <= a.max

hasV31OnlyValues(p) ==
    \/ p.hpk # ""
    \/ \E t \in Timers : ~IsZero(p.timer[t])
    \/ p.trailers
    \/ p.cookies

(* "key" is the base64 of 32 bytes; any other string is not a key.         *)
validBase64Key(k) == TrimSpace(k) = "key"

Sized == {"r", "rc", "rd", "dz"}

TagAccepted(t) ==
    \/ t.name = "b" /\ t.args = 1 /\ t.parses /\ t.size > 0
    \/ t.name = "t" /\ t.args = 0
    \/ t.name \in Sized /\ t.args = 1 /\ t.parses /\ t.size \in 0 .. JunkSizeMax
    \/ t.name \in {"d", "ds"} /\ t.args = 0

FixedOutput(t) == IF t.name = "t" THEN 4
                  ELSE IF t.name \in Sized \cup {"b"} THEN t.size ELSE 0

totalFixed(tags) ==
    LET total[n \in 0 .. Len(tags)] == IF n = 0 THEN 0 ELSE total[n - 1] + FixedOutput(tags[n])
    IN  total

(* Mutated form of validateSpecialJunk: each tag is measured on its own.   *)
validateSpecialJunk_PerTag(j) ==
    /\ j.tags # <<>>
    /\ \A n \in 1 .. Len(j.tags) :
          TagAccepted(j.tags[n]) /\ FixedOutput(j.tags[n]) <= JunkSizeMax

(* Tag by tag: the tag, then the bytes of all tags so far.                 *)
validateSpecialJunk(j) ==
    /\ j.tags # <<>>
    /\ \A n \in 1 .. Len(j.tags) :
          TagAccepted(j.tags[n]) /\ totalFixed(j.tags)[n] <= JunkSizeMax

ValidJunk(j) == j.len <= AWGStringMax /\ (j # Empty => validateSpecialJunk(j))

ValidJunkPackets(p) ==
    /\ p.jc \in 0 .. JcMax
    /\ IF p.jmin = 0 /\ p.jmax = 0
       THEN p.jc <= 0
       ELSE p.jmin \in JunkSizeMin .. JunkSizeMax /\ p.jmax \in JunkSizeMin .. JunkSizeMax
    /\ p.jmin <= p.jmax

ValidV2Fields(p) ==
    IF SupportsV2Fields(p)
    THEN /\ \A k \in 3 .. 4 : p.s[k] \in 0 .. SMax[k]
         /\ \A k \in 1 .. 5 : ValidJunk(p.i[k])
    ELSE /\ \A k \in 3 .. 4 : p.s[k] = 0
         /\ \A k \in 1 .. 5 : p.i[k] = Empty

ValidHeaders(p) ==
    /\ \A k \in 1 .. 4 :
          /\ 0 <= p.h[k].min /\ 0 <= p.h[k].max /\ p.h[k].max <= HMax
          /\ p.h[k].min <= p.h[k].max
          /\ p.version = "v1" => ~isRange(p.h[k])
    /\ \A j, k \in 1 .. 4 : j < k => ~rangesOverlap(p.h[j], p.h[k])

(* Mutated form of ValidV31Fields: the order of the ranges is not checked. *)
ValidV31Fields_AnyOrder(p) ==
    IF IsV31(p)
    THEN /\ validBase64Key(p.hpk)
         /\ \A k \in 1 .. 4 : p.s[k] >= 12
         /\ p.trailers => \A k \in 1 .. 3 : ~isRange(p.h[k])
    ELSE ~hasV31OnlyValues(p)

ValidV31Fields(p) ==
    IF IsV31(p)
    THEN /\ validBase64Key(p.hpk)
         /\ \A k \in 1 .. 4 : p.s[k] >= 12
         /\ \A t \in Timers : p.timer[t].min <= p.timer[t].max
         /\ p.trailers => \A k \in 1 .. 3 : ~isRange(p.h[k])
    ELSE ~hasV31OnlyValues(p)

Validate(p) ==
    /\ TrimSpace(p.name) # ""
    /\ p.version \in {"v1", "v2", "v3.1"}
    /\ ValidJunkPackets(p)
    /\ \A k \in 1 .. 2 : p.s[k] \in 0 .. SMax[k]
    /\ ValidV2Fields(p)
    /\ ValidHeaders(p)
    /\ ValidV31Fields(p)
    /\ p.policy \in {"", "fixed", "managed"}

-----------------------------------------------------------------------------
(* The row.                                                                *)

nullable(v, empty) == IF v = empty THEN NULL ELSE v
nullableWhen(enabled, v) == IF enabled THEN nullable(v, "") ELSE NULL
boolWhen(enabled, v) == IF enabled THEN v ELSE NULL

(* Mutated form of rangeDB: a range from zero counts as unset.             *)
rangeDB_FromZero(enabled, r) ==
    IF ~enabled \/ r.min = 0 THEN IntRange(NULL, NULL) ELSE r

(* The two columns of a range.                                             *)
rangeDB(enabled, r) == IF ~enabled \/ IsZero(r) THEN IntRange(NULL, NULL) ELSE r

RowOf(p) ==
    [p EXCEPT !.i = [k \in 1 .. 5 |-> nullable(p.i[k], Empty)],
              !.hpk = nullableWhen(IsV31(p), p.hpk),
              !.timer = [t \in Timers |-> rangeDB(IsV31(p), p.timer[t])],
              !.trailers = boolWhen(IsV31(p), p.trailers),
              !.cookies = boolWhen(IsV31(p), p.cookies)]

(* The CHECK constraints of schema/0003_awg31_profiles.sql.                *)
ChecksHold(c) ==
    /\ \A t \in Timers :
          /\ c.timer[t].min # NULL => c.timer[t].min \in U16
          /\ c.timer[t].max # NULL => c.timer[t].max \in U16
          /\ (c.timer[t].min = NULL) = (c.timer[t].max = NULL)
          /\ c.timer[t].min # NULL => c.timer[t].min <= c.timer[t].max
    /\ c.version \in {"v1", "v2", "v3.1"}
    /\ IF c.version = "v3.1"
       THEN c.hpk # NULL /\ c.hpk # "" /\ c.trailers # NULL /\ c.cookies # NULL
       ELSE /\ c.hpk = NULL /\ c.trailers = NULL /\ c.cookies = NULL
            /\ \A t \in Timers : c.timer[t] = IntRange(NULL, NULL)

deref(v, empty) == IF v = NULL THEN empty ELSE v
rangeFromDB(r) == IF r.min = NULL \/ r.max = NULL THEN Unset
                  ELSE IntRange(r.min % (U16Max + 1), r.max % (U16Max + 1))

scanProfile(c) ==
    [c EXCEPT !.i = [k \in 1 .. 5 |-> deref(c.i[k], Empty)],
              !.hpk = deref(c.hpk, ""),
              !.timer = [t \in Timers |-> rangeFromDB(c.timer[t])],
              !.trailers = deref(c.trailers, FALSE),
              !.cookies = deref(c.cookies, FALSE)]

-----------------------------------------------------------------------------
(* The renderer.  A config is a set of lines, a line a key with its text;  *)
(* the text of a number is its digits, taken as one token, after a minus   *)
(* sign if it is negative.                                                 *)

Minus == -1
FormatInt(n) == IF n < 0 THEN <<Minus, -n>> ELSE <<n>>
RangeString(r) == IF r.min = r.max THEN FormatInt(r.min)
                  ELSE FormatInt(r.min) \o <<Minus>> \o FormatInt(r.max)

S == <<"S1", "S2", "S3", "S4">>
H == <<"H1", "H2", "H3", "H4">>
I == <<"I1", "I2", "I3", "I4", "I5">>
awgBool(b) == IF b THEN "on" ELSE "off"

(* Mutated form of V31Lines: the two flags are not written.                *)
V31Lines_NoFlags(p) ==
    (IF p.hpk # "" THEN {<<"HeaderProtectionKey", p.hpk>>} ELSE {}) \cup
    {<<t, RangeString(p.timer[t])>> : t \in {u \in Interval : ~IsZero(p.timer[u])}}

V31Lines(p) ==
    (IF p.hpk # "" THEN {<<"HeaderProtectionKey", p.hpk>>} ELSE {}) \cup
    {<<t, RangeString(p.timer[t])>> : t \in {u \in Interval : ~IsZero(p.timer[u])}} \cup
    {<<"RandomTrailers", awgBool(p.trailers)>>, <<"DisableCookies", awgBool(p.cookies)>>}

writeProfile(p, includeEmpty) ==
    {<<"Jc", FormatInt(p.jc)>>, <<"Jmin", FormatInt(p.jmin)>>, <<"Jmax", FormatInt(p.jmax)>>} \cup
    {<<S[k], FormatInt(p.s[k])>> : k \in IF SupportsV2Fields(p) THEN 1 .. 4 ELSE 1 .. 2} \cup
    {<<H[k], RangeString(p.h[k])>> : k \in 1 .. 4} \cup
    {<<I[k], p.i[k]>> : k \in {n \in 1 .. 5 : /\ SupportsV2Fields(p)
                                              /\ includeEmpty \/ p.i[n] # Empty}} \cup
    (IF IsV31(p) THEN V31Lines(p) ELSE {})

(* Interface sections, and the keepalive of the client's peer section; the *)
(* caller's keepalive is 25.                                               *)
Server(p) == writeProfile(p, FALSE)
Client(p) ==
    writeProfile(p, TRUE) \cup
    {<<"PersistentKeepalive",
       IF IsV31(p) /\ ~IsZero(p.timer["PersistentKeepalive"])
       THEN RangeString(p.timer["PersistentKeepalive"]) ELSE FormatInt(25)>>}

(* Mutated form of publicProfile: the key stays.                           *)
publicProfile_WithKey(p) == p

(* What PeerConfiguration renders.                                         *)
publicProfile(p) == [p EXCEPT !.hpk = ""]

-----------------------------------------------------------------------------
Submitted ==
    /\ pc = "submitted"
    /\ row = NULL /\ loaded = NULL
    /\ server = {} /\ client = {} /\ skeleton = {}

(* insertProfile is handed any profile.                                    *)
Init == profile \in ProtocolProfile /\ Submitted

(* Mutated form of insertProfile: the row is written before validation.    *)
insertProfile_WritesFirst ==
    /\ pc = "submitted"
    /\ pc' = IF ~Validate(profile) THEN "rejected"
             ELSE IF ~ChecksHold(RowOf(profile)) THEN "failed" ELSE "stored"
    /\ row' = RowOf(profile)
    /\ UNCHANGED <<profile, loaded, server, client, skeleton>>

insertProfile ==
    /\ pc = "submitted"
    /\ pc' = IF ~Validate(profile) THEN "rejected"
             ELSE IF ~ChecksHold(RowOf(profile)) THEN "failed" ELSE "stored"
    /\ row' = IF pc' = "stored" THEN RowOf(profile) ELSE NULL
    /\ UNCHANGED <<profile, loaded, server, client, skeleton>>

GetByID ==
    /\ pc = "stored"
    /\ pc' = "loaded" /\ loaded' = scanProfile(row)
    /\ UNCHANGED <<profile, row, server, client, skeleton>>

(* The worker renders the server's config, CreatePeer the client's, and    *)
(* PeerConfiguration the one without secrets, each from a profile it loads *)
(* itself; the row never changes.                                          *)
Render ==
    /\ pc = "loaded"
    /\ pc' = "rendered"
    /\ server' = Server(loaded)
    /\ client' = Client(loaded)
    /\ skeleton' = Client(publicProfile(loaded))
    /\ UNCHANGED <<profile, row, loaded>>

Next == insertProfile \/ GetByID \/ Render

Spec == Init /\ [][Next]_vars

-----------------------------------------------------------------------------
(* How the runtime reads a config: a parameter that is not given, or a     *)
(* junk spec that is empty, is off; blanks around a value do not count.    *)

Value(config, key, default) ==
    IF \E line \in config : line[1] = key
    THEN (CHOOSE line \in config : line[1] = key)[2]
    ELSE default

ParseInt(text) == IF Len(text) = 2 /\ text[1] = Minus THEN -text[2] ELSE text[1]

(* ParseIntRange: split at the first minus sign that is not the first      *)
(* character.                                                              *)
ParseIntRange(text) ==
    LET dash == {n \in 2 .. Len(text) : text[n] = Minus /\ \A m \in 1 .. n - 1 : text[m] # Minus}
    IN  IF dash = {} THEN IntRange(ParseInt(text), ParseInt(text))
        ELSE LET n == CHOOSE d \in dash : TRUE
             IN  IntRange(ParseInt(SubSeq(text, 1, n - 1)),
                          ParseInt(SubSeq(text, n + 1, Len(text))))

ReadConfig(config) ==
    [s |-> [k \in 1 .. 4 |-> ParseInt(Value(config, S[k], <<0>>))],
     h |-> [k \in 1 .. 4 |-> ParseIntRange(Value(config, H[k], <<k>>))],
     i |-> [k \in 1 .. 5 |-> Value(config, I[k], Empty)],
     hpk |-> TrimSpace(Value(config, "HeaderProtectionKey", "")),
     timer |-> [t \in Interval |-> ParseIntRange(Value(config, t, <<0>>))],
     trailers |-> Value(config, "RandomTrailers", "off") = "on",
     cookies |-> Value(config, "DisableCookies", "off") = "on"]

(* The parameters both ends must have in common.                           *)
Shared(p) ==
    [s |-> p.s, h |-> p.h, i |-> p.i, hpk |-> TrimSpace(p.hpk),
     timer |-> [t \in Interval |-> p.timer[t]], trailers |-> p.trailers, cookies |-> p.cookies]

-----------------------------------------------------------------------------
(* A profile that Validate accepts is never refused by a constraint of its *)
(* table: the two descriptions of a legal profile, one in Go and one in    *)
(* SQL, agree (insertProfile, schema/0003_awg31_profiles.sql).             *)
ValidIsStorable == pc # "failed"

(* A profile comes back from its row as it was submitted, though unset     *)
(* fields are stored as NULL and a legacy row has no V3.1 values at all    *)
(* (rangeDB, nullable, scanProfile).                                       *)
RoundTrips == loaded # NULL => loaded = profile

(* The packet types whose header range has the value.                      *)
Types(p, value) == {k \in 1 .. 4 : p.h[k].min <= value /\ value <= p.h[k].max}

(* The first word of a packet tells its type: no value lies in the ranges  *)
(* of two of H1 to H4, and every type has one (Validate, rangesOverlap).   *)
PacketTypesDistinct ==
    loaded # NULL =>
        /\ \A value \in 0 .. HMax : Cardinality(Types(loaded, value)) <= 1
        /\ \A k \in 1 .. 4 : \E value \in 0 .. HMax : k \in Types(loaded, value)

(* The packets a junk spec produces fit the limit, whatever their tags,    *)
(* and no tag takes bytes back (validateSpecialJunk).                      *)
JunkFitsPacket ==
    loaded # NULL =>
        \A k \in 1 .. 5 :
            LET tags == loaded.i[k].tags
            IN  /\ \A n \in 1 .. Len(tags) : FixedOutput(tags[n]) >= 0
                /\ totalFixed(tags)[Len(tags)] <= JunkSizeMax

(* Server and client read the same protocol parameters from their configs, *)
(* those of the profile that was submitted, for every protocol version and *)
(* whatever lines are left out (Server, Client, writeProfile, IntRange's   *)
(* String and ParseIntRange).                                              *)
EndsAgree ==
    pc = "rendered" =>
        /\ ReadConfig(server) = Shared(profile)
        /\ ReadConfig(client) = Shared(profile)

(* The config that can be fetched again is the one-time config without the *)
(* header protection key, and differs in nothing else (PeerConfiguration). *)
SkeletonLacksOnlyTheKey ==
    skeleton = {line \in client : line[1] # "HeaderProtectionKey"}

=============================================================================
