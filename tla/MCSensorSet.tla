----------------------------- MODULE MCSensorSet -----------------------------
(***************************************************************************)
(* Instances of SensorSet for TLC: five sensor names, so that two entries  *)
(* per page give up to three pages, the last of them full or not, and more *)
(* groups than group ids.                                                  *)
(***************************************************************************)
EXTENDS SensorSet

Entry(n, g, s) == [name |-> n, group |-> g, size |-> s, valid |-> TRUE]

\* An entry without a data type.
Untyped(n) == [name |-> n, group |-> "", size |-> 1, valid |-> FALSE]

Pool == {Entry(1, "a", 1), Entry(2, "", 2), Entry(3, "b", 1),
         Entry(3, "a", 2), Entry(4, "c", 1)}

Texts == {<<>>, <<Entry(5, "c", 1), Entry(3, "b", 2)>>,
          <<Entry(2, "a", 1), Entry(2, "b", 2), Untyped(5), Entry(1, "", 4)>>}
=============================================================================
