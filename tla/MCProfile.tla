----------------------------- MODULE MCProfile ------------------------------
(***************************************************************************)
(* Profiles for module Profile: the shape of the profiles the bootstrap    *)
(* creates, one per protocol version, with up to two fields changed to     *)
(* values at and around the limits.                                        *)
(***************************************************************************)
EXTENDS Profile

MCTag(name, args, size) == [name |-> name, args |-> args, parses |-> TRUE, size |-> size]
Junk(tags) == [len |-> 8 * Len(tags), tags |-> tags]

V31Default ==
    [name |-> "p", version |-> "v3.1", jc |-> 5, jmin |-> 10, jmax |-> 50,
     s |-> <<12, 12, 12, 12>>, h |-> [k \in 1 .. 4 |-> IntRange(k, k)],
     i |-> <<Junk(<<MCTag("b", 1, 40)>>), Empty, Empty, Empty, Empty>>, hpk |-> "key",
     timer |-> [t \in Timers |-> IF t = "ContentPaddingAddition" THEN Unset ELSE IntRange(3, 7)],
     trailers |-> TRUE, cookies |-> TRUE, policy |-> "fixed"]

V2Default ==
    [V31Default EXCEPT !.version = "v2", !.hpk = "", !.timer = [t \in Timers |-> Unset],
                       !.trailers = FALSE, !.cookies = FALSE]

V1Profile ==
    [V2Default EXCEPT !.version = "v1", !.s = <<15, 20, 0, 0>>, !.i[1] = Empty]

Junks ==
    {Empty, [len |-> 3, tags |-> <<>>], [len |-> 5120, tags |-> <<MCTag("t", 0, 0)>>]} \cup
    {Junk(tags) : tags \in
        {<<MCTag("t", 0, 0), MCTag("d", 0, 0)>>, <<MCTag("t", 1, 0)>>, <<MCTag("b", 1, 0)>>,
         <<MCTag("r", 1, 1280)>>, <<MCTag("rc", 1, 1281)>>, <<MCTag("rd", 1, 1276), MCTag("t", 0, 0)>>,
         <<MCTag("dz", 1, 1277), MCTag("t", 0, 0)>>, <<MCTag("b", 1, 1300), MCTag("r", 1, -20)>>,
         <<MCTag("r", 1, -20), MCTag("b", 1, 1290)>>, <<MCTag("ds", 0, 0), MCTag("?", 0, 0)>>}}

Edited(p) ==
    {p} \cup
    {[p EXCEPT !.name = n] : n \in {"", " "}} \cup
    {[p EXCEPT !.version = v] : v \in {"v1", "v2", "v3.1", "v4"}} \cup
    {[p EXCEPT !.jc = n] : n \in {-1, 0, JcMax, JcMax + 1}} \cup
    {[p EXCEPT !.jmin = j[1], !.jmax = j[2]] :
        j \in {<<0, 0>>, <<0, 1>>, <<1, 1>>, <<1280, 1280>>, <<2, 1>>, <<1, 1281>>}} \cup
    UNION {{[p EXCEPT !.s[k] = n] : n \in {-1, 0, 11, SMax[k], SMax[k] + 1}} : k \in 1 .. 4} \cup
    {[p EXCEPT !.h[k] = r] :
        k \in 1 .. 4,
        r \in {IntRange(-1, 0), IntRange(0, 0), IntRange(1, 2), IntRange(2, 3), IntRange(3, 2), IntRange(4, HMax),
               IntRange(HMax, HMax), IntRange(4, HMax + 1), IntRange(0, HMax)}} \cup
    {[p EXCEPT !.i[k] = j] : k \in {1, 5}, j \in Junks} \cup
    {[p EXCEPT !.hpk = k] : k \in {"", " ", "key", " key ", "short"}} \cup
    {[p EXCEPT !.timer[t] = r] :
        t \in {"ContentPaddingAddition", "RekeyTimeout", "PersistentKeepalive"},
        r \in {Unset, IntRange(0, 1), IntRange(2, 1), IntRange(65535, 65535)}} \cup
    {[p EXCEPT !.trailers = b] : b \in BOOLEAN} \cup
    {[p EXCEPT !.cookies = b] : b \in BOOLEAN} \cup
    {[p EXCEPT !.policy = v] : v \in {"", "managed", "other"}}

MCInit ==
    /\ \E p \in {V1Profile, V2Default, V31Default} :
          \E q \in Edited(p) : profile \in Edited(q)
    /\ Submitted

MCSpec == MCInit /\ [][Next]_vars

=============================================================================
