------------------------------ MODULE MCFormats ------------------------------
(***************************************************************************)
(* The instance of Formats for TLC, and the pages of the tree. The bounds  *)
(* of each are the sets of inputs given here.                              *)
(***************************************************************************)
EXTENDS Formats, TLC

\* Identifiers of two bits and one more, one beyond the last of each format,
\* on a bus of at most three nodes.
Identifiers(extended) == 0 .. IF extended THEN 8 ELSE 4
Frames == UNION {[id : Identifiers(e), extended : {e}, remote : BOOLEAN] : e \in BOOLEAN}
TwoFormats == UNION {[1 .. n -> Frames] : n \in 0 .. 3}

\* Bytes of three bits, two of them, signals of up to three bits, some of which
\* run out of the payload; factors and offsets one signal at a time.
Places == {[start |-> s, length |-> n, order |-> o, signed |-> TRUE, factor |-> 1, offset |-> 0] :
              s \in 0 .. 6, n \in 0 .. 4, o \in {"Intel", "Motorola"}}
Scales == [start : {2}, length : {2, 3}, order : {"Intel", "Motorola"}, signed : BOOLEAN,
           factor : {0, 1, -2, 3}, offset : {0, 1}]
PlacesAndScales == Places \cup Scales
Values == {-9, -4, -3, -1, 0, 2, 3, 4, 8, NotFinite}

\* Identifiers of one bit, and of two in the extended format. Two messages and
\* an unknown id, a payload that is too long, and remarks of every form.
Line(keyword, raw, name) ==
    [keyword |-> keyword, raw |-> raw, name |-> name, good |-> TRUE, length |-> 8,
     target |-> "-", quote |-> "closed", text |-> "t", labels |-> <<>>]
DbcLines ==
    {Line("BO_", raw, "-") : raw \in {1, 2, 9, 13}}
    \cup {[Line("BO_", 1, "-") EXCEPT !.length = 65]}
    \cup {Line("SG_", 0, name) : name \in {"a", "b"}}
    \cup {[Line("SG_", 0, "a") EXCEPT !.good = FALSE]}
    \cup {[Line("CM_", raw, "-") EXCEPT !.target = "BO_", !.quote = quote] :
              raw \in {1, 9}, quote \in {"closed", "cut"}}
    \cup {[Line("CM_", 1, "a") EXCEPT !.target = "SG_", !.quote = quote] :
              quote \in {"closed", "none"}}
    \cup {[Line("VAL_", 1, "a") EXCEPT !.labels = <<<<0, "x">>, <<1, "y">>, <<0, "z">>>>],
           Line("other", 0, "-")}

\* Bytes of six bits and nibbles of three. Batches of up to three frames where
\* two fit; payloads, option lists and counts on both sides of their limits.
Frame(id, extended, data) ==
    [id |-> id, extended |-> extended, fd |-> FALSE, brs |-> FALSE, data |-> data]
WireFrames == [id : {0, 5, 8, 9}, extended : BOOLEAN, fd : BOOLEAN, brs : BOOLEAN,
               data : {<<>>, <<7, 9>>, <<1, 2, 3>>}]
Batches == LET one == Frame(1, TRUE, <<7>>) IN
    {<<>>, <<one, one, one>>} \cup {<<f>> : f \in WireFrames} \cup {<<one, f>> : f \in WireFrames}
Option(type, address, protocol, port) ==
    [type |-> type, address |-> address, protocol |-> protocol, port |-> port]
OptionLists == LET unicast == Option(4, 70, 17, 300)
                   multicast == Option(20, 71, 6, 3)
                   nowhere == Option(4, 64 ^ 4, 17, 0)
    IN {<<>>, <<unicast>>, <<nowhere>>, <<multicast, unicast>>, <<unicast, unicast, unicast>>}
Entries == {[type |-> type, service |-> 100, instance |-> 2, major |-> 1, ttl |-> ttl,
             minor |-> IF type < 2 THEN 4 ELSE 0, eventgroup |-> IF type < 2 THEN 0 ELSE 8,
             options |-> options] :
                type \in {1, 6, 0}, ttl \in {0, 262143}, options \in OptionLists}
Announcement(reboot, entries) ==
    [session |-> 1, reboot |-> reboot, unicast |-> FALSE, entries |-> entries]
PacketsSent == [sequence : {0, 70}, timestamp : {4099}, frames : Batches]
CallsSent == [service : {0, 4095}, method : {1, 2049}, client : {65}, session : {1},
              version : {3}, type : {0, 1, 2, 32, 33}, code : {0, 9},
              payload : {<<>>, <<63, 1, 2>>}]
AnnouncementsSent == {Announcement(reboot, <<>>) : reboot \in BOOLEAN}
    \cup {Announcement(TRUE, <<e>>) : e \in Entries}
    \cup {Announcement(TRUE, <<d, e>>) : d, e \in Entries}

\* Four keys, two in a leaf: a root that becomes internal and splits again.
Tree == INSTANCE BTreePages WITH Keys <- 1 .. 4, LeafMax <- 2, InternalMax <- 4, MaxPages <- 8,
           pages <- s1, root <- s2, full <- s3, stored <- s4

-----------------------------------------------------------------------------
DataInit ==
    \/ FormatsInit
    \/ Is("tree") /\ Tree!TreeInit /\ Unused(5)

DataNext ==
    \/ FormatsNext
    \/ Is("tree") /\ Tree!TreeNext /\ StayUnused(5)

-----------------------------------------------------------------------------
(***************************************************************************)
(* A property, besides those of Formats.                                   *)
(***************************************************************************)
\* Splits and merges lose no key (internal_page.hpp, leaf_page.hpp, bplus_tree.hpp).
EveryKeyIsFound == Is("tree") => Tree!EveryKeyIsFound /\ Tree!ScanInOrder
=============================================================================
