----------------------------- MODULE Publication -----------------------------
(***************************************************************************)
(* What the daemon promises the management controller about one run: it    *)
(* learns the items First..Last (basic information, description pages,     *)
(* sensor data) one by one and in this order.                              *)
(***************************************************************************)
EXTENDS Integers

CONSTANTS First, Last

VARIABLE known

Items == First..Last

Init == known = {}

\* The next item is learned once all the earlier ones are known.
Learn(i) ==
    /\ known = {j \in Items : j < i}
    /\ known' = known \cup {i}

Next == \E i \in Items : Learn(i)

Spec == Init /\ [][Next]_known
=============================================================================
