---------------------------- MODULE MCGooseLink ----------------------------
(***************************************************************************)
(* Instances of the GOOSE link for TLC: data sets and subscriber lists.    *)
(***************************************************************************)
EXTENDS GooseLink

Integer(len, v) == [tag |-> "integer", len |-> len, val |-> v]
Bool(v) == [tag |-> "boolean", len |-> 1, val |-> v]
Struct(shape, v) == [tag |-> "structure", len |-> shape, val |-> v]
AccessError == [tag |-> "reserved", len |-> 1, val |-> 0]
MmsString == [tag |-> "unknown", len |-> 1, val |-> 0]

\* Two layouts: an integer and a boolean, then a boolean and a structure.  The
\* encoding of the integer grows with its value; a value may be unavailable
\* (data access error) or of a type the receiver does not know.
MCDatas == <<
    {<<Integer(1, 1), Bool(1)>>, <<Integer(4, 2), AccessError>>, <<Integer(1, 3), MmsString>>},
    {<<Bool(1), Struct(1, 1)>>} >>

\* 64-bit integers: the second value needs six octets.
MCDatas64 == << {<<Integer(1, 1)>>, <<Integer(6, 2)>>} >>

\* The hypothesis under which FreshAccepted is proved; 64-bit integers do not meet it.
ASSUME Layouts == (\A c \in 1 .. 2 : OneLayout(MCDatas[c])) /\ ~OneLayout(MCDatas64[1])

Sub(ref, slots, id, observer) == GooseSubscriber_create(ref, slots, id, FALSE, observer)

\* The data set of the first layout as an application allocates it.
AppSlots == << [type |-> "integer", max |-> 5, val |-> 0], [type |-> "boolean", max |-> 1, val |-> 0] >>

\* Subscribers that learn or are given their data set, one and two publishers,
\* an observer with either kind of data set, one in front of another subscriber.
MCSubscriberLists ==
    { << Sub("a", <<>>, AnyAppId, FALSE) >>,
      << Sub("b", <<>>, AnyAppId, FALSE), Sub("a", AppSlots, 1, FALSE) >>,
      << Sub("", AppSlots, AnyAppId, TRUE), Sub("a", <<>>, AnyAppId, FALSE) >>,
      << Sub("", <<>>, AnyAppId, TRUE) >> }

MCOneSubscriber == { << Sub("a", <<>>, AnyAppId, FALSE) >> }

MCAppIdSubscriber == { << Sub("a", <<>>, 1, FALSE) >> }
=============================================================================
