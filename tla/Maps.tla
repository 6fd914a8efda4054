-------------------------------- MODULE Maps --------------------------------
(***************************************************************************)
(* std::map as a function whose domain is the set of its keys.             *)
(***************************************************************************)

\* m[k] = v: the value of a key that is there is replaced.
Put(m, k, v) == [x \in DOMAIN m \cup {k} |-> IF x = k THEN v ELSE m[x]]

\* m.insert of the pairs of another map: a key that is there keeps its value.
Insert(m, more) ==
    [x \in DOMAIN m \cup DOMAIN more |-> IF x \in DOMAIN m THEN m[x] ELSE more[x]]

\* m.erase of every key in ks
Erase(m, ks) == [x \in DOMAIN m \ ks |-> m[x]]
=============================================================================
