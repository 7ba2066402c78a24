----------------------------- MODULE MCFatPartition -----------------------------
(***************************************************************************)
(* FatPartition with three names: "user" and "users" have one 8.3 name,    *)
(* "meta" has another.                                                     *)
(***************************************************************************)
EXTENDS FatPartition, SequencesExt

MCShort == [n \in Names |-> CASE n = "meta" -> [letter |-> "m", rest |-> "eta"]
                              [] OTHER -> [letter |-> "u", rest |-> "ser"]]

(***************************************************************************)
(* Files one behind the other, a deleted slot before those in "stale", no  *)
(* NUL behind the long names in "unread", and a directory with just as     *)
(* many clusters as its slots fill if it has no "room" for an end mark.    *)
(***************************************************************************)
Before(sizes, order, i) == FoldLeft(LAMBDA n, name : n + sizes[name], 0, SubSeq(order, 1, i - 1))

Image(order, sizes, stale, unread, room) ==
  LET number == Cardinality(stale) + 2 * Len(order)
      dirClusters == IF room \/ number % PerCluster # 0 THEN number \div PerCluster + 1
                     ELSE number \div PerCluster
      first(i) == Root + dirClusters + Before(sizes, order, i)
      part(i)  == {first(i) + k - 1 : k \in 1..sizes[order[i]]}
      owner(c) == {i \in 1..Len(order) : c \in part(i)}
      last(c)  == c = Root + dirClusters - 1 \/
                  \E i \in owner(c) : c = first(i) + sizes[order[i]] - 1
      used     == Root + dirClusters + Before(sizes, order, Len(order) + 1)
  IN  [fat  |-> [c \in Entries |-> IF c >= used THEN 0 ELSE IF last(c) THEN EOC ELSE c + 1],
       free |-> LastCluster + 1 - used,
       dir  |-> FlattenSeq([i \in 1..Len(order) |->
                  (IF order[i] \in stale THEN <<DeletedSlot(Numbered(order[i], 0))>> ELSE <<>>) \o
                  <<LongSlot, FileSlot(order[i], order[i] \notin unread, Numbered(order[i], 0),
                                       IF sizes[order[i]] = 0 THEN 0 ELSE first(i),
                                       sizes[order[i]])>>]),
       data |-> [c \in Entries |->
                  IF owner(c) = {} THEN <<>>
                  ELSE LET i == CHOOSE i \in owner(c) : TRUE IN <<order[i], c - first(i) + 1, 1>>],
       failed |-> FALSE]

MCImages ==
  {Image(order, [user |-> size, meta |-> 1], stale, unread, room) :
     order \in {<<"user">>, <<"meta", "user">>}, size \in {0, 2},
     stale \in SUBSET {"user"}, unread \in SUBSET {"user"}, room \in BOOLEAN}
===============================================================================
