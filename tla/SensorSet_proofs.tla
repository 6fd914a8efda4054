-------------------------- MODULE SensorSet_proofs --------------------------
(***************************************************************************)
(* Proofs about SensorSet: for every number of configured, provided and    *)
(* JSON sensors that has room in 254 pages, in every order of telnet       *)
(* commands, description pages and data messages.                          *)
(***************************************************************************)
EXTENDS SensorSet, Paging_proofs, FiniteSetTheorems, SequenceTheorems

-----------------------------------------------------------------------------
(* The order of the map.                                                   *)

\* How many names come before another one tells them apart.
LEMMA Ranks ==
    ASSUME NEW S \in SUBSET Nat, IsFiniteSet(S)
    PROVE  LET rank == [n \in S |-> Cardinality({m \in S : m < n})]
               c == Cardinality(S)
           IN  /\ c \in Nat
               /\ rank \in [S -> 0..(c - 1)]
               /\ \A m, n \in S : m < n => rank[m] < rank[n]
               /\ \A k \in 0..(c - 1) : \E n \in S : rank[n] = k
  <1> DEFINE Below(n) == {m \in S : m < n}
             rank == [n \in S |-> Cardinality(Below(n))]
             c == Cardinality(S)
  <1>1. c \in Nat
    BY FS_CardinalityType
  <1>2. \A n \in S : IsFiniteSet(Below(n)) /\ Cardinality(Below(n)) \in Nat
    <2> TAKE n \in S
    <2>1. Below(n) \in SUBSET S
      OBVIOUS
    <2>2. IsFiniteSet(Below(n))
      BY <2>1, FS_Subset
    <2> HIDE DEF Below
    <2> QED BY <2>2, FS_CardinalityType
  <1>3. \A m, n \in S : m < n => Cardinality(Below(m)) < Cardinality(Below(n))
    <2> TAKE m, n \in S
    <2> HAVE m < n
    <2>1. m \notin Below(m)
      OBVIOUS
    <2>2. (Below(m) \cup {m}) \in SUBSET Below(n)
      <3>1. \A x \in S : x < m => x < n
        OBVIOUS
      <3> QED BY <3>1
    <2> HIDE DEF Below
    <2>3. Cardinality(Below(m) \cup {m}) = Cardinality(Below(m)) + 1
      BY <1>2, <2>1, FS_AddElement
    <2>4. Cardinality(Below(m) \cup {m}) <= Cardinality(Below(n))
      BY <1>2, <2>2, FS_Subset
    <2> QED BY <1>2, <2>3, <2>4
  <1>4. \A n \in S : Cardinality(Below(n)) <= c - 1
    <2> TAKE n \in S
    <2>1. Below(n) \in SUBSET (S \ {n})
      OBVIOUS
    <2>2. IsFiniteSet(S \ {n}) /\ Cardinality(S \ {n}) = c - 1
      BY FS_RemoveElement
    <2> HIDE DEF Below, c
    <2> QED BY <2>1, <2>2, FS_Subset
  <1>5. rank \in [S -> 0..(c - 1)]
    <2> HIDE DEF Below, c
    <2> QED BY <1>1, <1>2, <1>4
  <1>6. \A m, n \in S : m < n => rank[m] < rank[n]
    <2> HIDE DEF Below
    <2> QED BY <1>3
  <1> HIDE DEF rank, c
  <1>7. rank \in Injection(S, 0..(c - 1))
    <2>1. \A m, n \in S : rank[m] = rank[n] => m = n
      <3> TAKE m, n \in S
      <3>1. m \in Nat /\ n \in Nat /\ rank[m] \in Int /\ rank[n] \in Int
        BY <1>1, <1>5
      <3>2. m < n \/ n < m \/ m = n
        BY <3>1
      <3> QED BY <1>6, <3>1, <3>2
    <2> QED BY <1>5, <2>1 DEF Injection, IsInjective
  <1>8. IsFiniteSet(0..(c - 1)) /\ Cardinality(0..(c - 1)) = c
    <2>1. 0 \in Int /\ c - 1 \in Int
      BY <1>1
    <2>2. /\ IsFiniteSet(0..(c - 1))
          /\ Cardinality(0..(c - 1)) = IF 0 > c - 1 THEN 0 ELSE (c - 1) - 0 + 1
      BY <2>1, FS_Interval
    <2> QED BY <1>1, <2>2
  <1>9. rank \in Surjection(S, 0..(c - 1))
    BY <1>7, <1>8, FS_Injection DEF c
  <1>10. \A k \in 0..(c - 1) : \E n \in S : rank[n] = k
    BY <1>9 DEF Surjection
  <1> QED BY <1>1, <1>5, <1>6, <1>10 DEF rank, c

\* Sorted lists every name once, the smaller ones first.
LEMMA SortedNames ==
    ASSUME NEW S \in SUBSET Nat, IsFiniteSet(S)
    PROVE  /\ Cardinality(S) \in Nat
           /\ Sorted(S) \in Seq(S) /\ Len(Sorted(S)) = Cardinality(S)
           /\ \A i, j \in 1..Len(Sorted(S)) : i < j => Sorted(S)[i] < Sorted(S)[j]
           /\ \A n \in S : \E i \in 1..Len(Sorted(S)) : Sorted(S)[i] = n
  <1> DEFINE rank == [n \in S |-> Cardinality({m \in S : m < n})]
             c == Cardinality(S)
             f == Sorted(S)
  <1>1. /\ c \in Nat
        /\ rank \in [S -> 0..(c - 1)]
        /\ \A m, n \in S : m < n => rank[m] < rank[n]
        /\ \A k \in 0..(c - 1) : \E n \in S : rank[n] = k
    BY Ranks
  <1>2. f = [i \in 1..c |-> CHOOSE n \in S : Cardinality({m \in S : m < n}) = i - 1]
    BY DEF Sorted
  <1>0. \A n \in S : rank[n] = Cardinality({m \in S : m < n})
    OBVIOUS
  <1> HIDE DEF rank, c, f
  <1>3. \A i \in 1..c : f[i] \in S /\ rank[f[i]] = i - 1
    <2> TAKE i \in 1..c
    <2>1. i - 1 \in 0..(c - 1)
      BY <1>1
    <2>2. \E n \in S : Cardinality({m \in S : m < n}) = i - 1
      BY <1>0, <1>1, <2>1
    <2>3. f[i] = CHOOSE n \in S : Cardinality({m \in S : m < n}) = i - 1
      BY <1>2
    <2>4. f[i] \in S /\ Cardinality({m \in S : m < f[i]}) = i - 1
      BY <2>2, <2>3, Zenon
    <2> QED BY <1>0, <2>4
  <1>4. f \in Seq(S) /\ Len(f) = c
    <2>1. f \in [1..c -> S]
      BY <1>2, <1>3
    <2> QED BY <1>1, <2>1
  <1>5. ASSUME NEW i \in 1..c, NEW j \in 1..c, i < j
        PROVE  f[i] < f[j]
    <2>0. i - 1 < j - 1
      BY <1>1, <1>5
    <2>1. f[i] \in Nat /\ f[j] \in Nat /\ rank[f[i]] < rank[f[j]]
      BY <1>3, <2>0
    <2>2. CASE f[i] = f[j]
      BY <1>1, <1>3, <2>1, <2>2
    <2>3. CASE f[j] < f[i]
      <3>1. rank[f[j]] < rank[f[i]]
        BY <1>1, <1>3, <2>3
      <3> QED BY <1>1, <1>3, <2>1, <3>1
    <2> QED BY <2>1, <2>2, <2>3
  <1>6. ASSUME NEW n \in S
        PROVE  \E i \in 1..c : f[i] = n
    <2> DEFINE k == rank[n]
               i == k + 1
    <2>0. k \in 0..(c - 1) /\ k \in Int
      BY <1>1
    <2> HIDE DEF k
    <2>1. i \in 1..c /\ k = i - 1
      BY <1>1, <2>0
    <2> HIDE DEF i
    <2>2. f[i] \in S /\ rank[f[i]] = rank[n]
      BY <1>3, <2>1 DEF k
    <2>3. f[i] = n
      <3>1. f[i] \in Nat /\ n \in Nat /\ rank[n] \in Int
        BY <2>0, <2>2 DEF k
      <3>2. f[i] < n \/ n < f[i] \/ f[i] = n
        BY <3>1
      <3> QED BY <1>1, <2>2, <3>1, <3>2
    <2> QED BY <2>1, <2>3
  <1> QED BY <1>1, <1>4, <1>5, <1>6 DEF f, c

-----------------------------------------------------------------------------
(* getSensors.                                                             *)

JSONSensorsOf(group, desc) == {JSONSensor(group, desc, i) : i \in 1..Len(desc)}

\* The sensors found in the first entries.
NextParsed(group, desc, found, i) ==
    IF desc[i].valid THEN Append(found, JSONSensor(group, desc, i)) ELSE found

IsParse(t, group, desc) ==
    /\ t[0] = <<>>
    /\ \A i \in 1..Len(desc) : t[i] = NextParsed(group, desc, t[i - 1], i)
    /\ \A i \in 0..Len(desc) : t[i] \in Seq(JSONSensorsOf(group, desc))

\* An entry adds one sensor or none.
LEMMA EntryParsed ==
    ASSUME NEW group, NEW desc \in Seq(Entries), NEW i \in 1..Len(desc),
           NEW found \in Seq(JSONSensorsOf(group, desc))
    PROVE  NextParsed(group, desc, found, i) \in Seq(JSONSensorsOf(group, desc))
  <1>1. JSONSensor(group, desc, i) \in JSONSensorsOf(group, desc)
    BY DEF JSONSensorsOf
  <1>2. Append(found, JSONSensor(group, desc, i)) \in Seq(JSONSensorsOf(group, desc))
    BY <1>1, AppendProperties
  <1> QED BY <1>2 DEF NextParsed

LEMMA ParseRun ==
    ASSUME NEW group, NEW desc \in Seq(Entries)
    PROVE  \E t : IsParse(t, group, desc) /\ Parse(group, desc) = t[Len(desc)]
  <1> DEFINE n == Len(desc)
             R == Seq(JSONSensorsOf(group, desc))
             F(found, i) == NextParsed(group, desc, found, i)
             step == [i \in 1..n |-> [s \in R |-> F(s, i)]]
             Eq(t) == t = [i \in 0..n |-> IF i = 0 THEN <<>>
                              ELSE IF desc[i].valid
                                   THEN Append(t[i - 1], JSONSensor(group, desc, i))
                              ELSE t[i - 1]]
  <1>1. n \in Nat /\ <<>> \in R
    OBVIOUS
  <1>2. \A i \in 1..n : \A s \in R : F(s, i) \in R
    BY EntryParsed
  <1>3. step \in [1..n -> [R -> R]]
    <2> HIDE DEF n, R, F
    <2> QED BY <1>2
  <1>4. PICK g : IsRun(g, n, R, <<>>, step)
    <2> HIDE DEF n, R, step
    <2> QED BY <1>1, <1>3, RecursionExists
  <1>5. g \in [0..n -> R] /\ g[0] = <<>>
    BY <1>4 DEF IsRun
  <1>6. \A i \in 1..n : g[i] = F(g[i - 1], i)
    <2> TAKE i \in 1..n
    <2>1. i - 1 \in 0..n
      <3> HIDE DEF n
      <3> QED BY <1>1
    <2>2. g[i - 1] \in R
      <3> HIDE DEF n, R
      <3> QED BY <1>5, <2>1
    <2>3. step[i][g[i - 1]] = F(g[i - 1], i)
      <3> HIDE DEF F, R, n
      <3> QED BY <2>2
    <2> QED BY <1>4, <2>3 DEF IsRun
  <1>7. \A t : Eq(t) <=> t = [i \in 0..n |-> IF i = 0 THEN <<>> ELSE F(t[i - 1], i)]
    BY Zenon DEF NextParsed
  <1>8. Eq(g)
    <2>1. ASSUME NEW i \in 0..n
          PROVE  g[i] = IF i = 0 THEN <<>> ELSE F(g[i - 1], i)
      <3>1. i = 0 \/ (i # 0 /\ i \in 1..n)
        <4> HIDE DEF n
        <4> QED BY <1>1
      <3> HIDE DEF F, n
      <3> QED BY <1>5, <1>6, <3>1
    <2>2. g = [i \in 0..n |-> g[i]]
      BY <1>5
    <2>3. g = [i \in 0..n |-> IF i = 0 THEN <<>> ELSE F(g[i - 1], i)]
      <3> HIDE DEF F, n
      <3> QED BY <2>1, <2>2, Zenon
    <2> QED BY <1>7, <2>3
  <1> DEFINE t == CHOOSE f : Eq(f)
  <1>9. Eq(t)
    <2> HIDE DEF Eq
    <2> QED BY <1>8, Zenon
  <1>10. Parse(group, desc) = t[n]
    BY DEF Parse
  <1> HIDE DEF t
  <1>11. t = [i \in 0..n |-> IF i = 0 THEN <<>> ELSE F(t[i - 1], i)]
    BY <1>7, <1>9, Zenon
  <1>12. t[0] = <<>> /\ \A i \in 1..n : t[i] = F(t[i - 1], i)
    <2> HIDE DEF n, F
    <2>1. 0 \in 0..n /\ \A i \in 1..n : i \in 0..n /\ i # 0
      BY <1>1
    <2> QED BY <1>11, <2>1
  <1> DEFINE G == {i \in Nat : i <= n => t[i] \in R}
  <1>13. \A i \in Nat : i \in G
    <2>1. 0 \in G
      BY <1>1, <1>12
    <2>2. ASSUME NEW i \in Nat, i \in G
          PROVE  i + 1 \in G
      <3> HIDE DEF n, R, F
      <3> SUFFICES ASSUME i + 1 <= n PROVE t[i + 1] \in R
        OBVIOUS
      <3>1. i + 1 \in 1..n /\ (i + 1) - 1 = i /\ t[i] \in R
        BY <1>1, <2>2
      <3>2. t[i + 1] = F(t[i], i + 1)
        BY <1>12, <3>1
      <3> QED BY <1>2, <3>1, <3>2
    <2> HIDE DEF G
    <2> QED BY <2>1, <2>2, SetInduction
  <1>14. \A i \in 0..n : t[i] \in R
    <2> HIDE DEF n, R
    <2> QED BY <1>1, <1>13
  <1>15. IsParse(t, group, desc)
    BY <1>12, <1>14 DEF IsParse
  <1> QED BY <1>10, <1>15

LEMMA Appended ==
    ASSUME NEW S, NEW a \in Seq(S), NEW s \in S, NEW b, b = Append(a, s)
    PROVE  /\ Len(b) = Len(a) + 1 /\ Len(a) \in Nat
           /\ \A k \in 1..Len(a) : b[k] = a[k]
           /\ b[Len(a) + 1] = s
  OBVIOUS

LEMMA SensorIs ==
    ASSUME NEW group, NEW desc \in Seq(Entries), NEW i \in 1..Len(desc)
    PROVE  LET s == JSONSensor(group, desc, i)
           IN  /\ s.name = desc[i].name /\ s.size = desc[i].size
               /\ s.json = group /\ s.field = i
               /\ s.shifted <=> \E j \in 1..(i - 1) : ~desc[j].valid
  BY DEF JSONSensor

(***************************************************************************)
(* As long as no entry was invalid, there are as many sensors as entries,  *)
(* so that a sensor that is not shifted is at the place of its entry.      *)
(***************************************************************************)
LEMMA Parsed ==
    ASSUME NEW group, NEW desc \in Seq(Entries)
    PROVE  LET p == Parse(group, desc)
           IN  /\ p \in Seq(JSONSensorsOf(group, desc))
               /\ \A k \in 1..Len(p) : ~p[k].shifted => p[k].field = k
               /\ (\A i \in 1..Len(desc) : ~desc[i].valid) => p = <<>>
  <1> DEFINE n == Len(desc)
             J == JSONSensorsOf(group, desc)
  <1>1. n \in Nat
    OBVIOUS
  <1>2. PICK t : IsParse(t, group, desc) /\ Parse(group, desc) = t[n]
    BY ParseRun
  <1>3. \A i \in 0..n : t[i] \in Seq(J)
    BY <1>2 DEF IsParse
  <1>4. t[0] = <<>> /\ \A i \in 1..n : t[i] = NextParsed(group, desc, t[i - 1], i)
    BY <1>2 DEF IsParse
  <1> DEFINE Counted(i) == (\A j \in 1..i : desc[j].valid) => Len(t[i]) = i
             Placed(i) == \A k \in 1..Len(t[i]) :
                             ~t[i][k].shifted => t[i][k].field = k
             None(i) == (\A j \in 1..i : ~desc[j].valid) => t[i] = <<>>
             G == {i \in Nat : i <= n => Counted(i) /\ Placed(i) /\ None(i)}
  <1>5. 0 \in G
    <2>1. Len(t[0]) = 0
      BY <1>4
    <2>2. Counted(0) /\ Placed(0) /\ None(0)
      BY <1>4, <2>1
    <2> QED BY <2>2
  <1>6. ASSUME NEW i \in Nat, i \in G
        PROVE  i + 1 \in G
    <2> SUFFICES ASSUME i + 1 <= n
                 PROVE  Counted(i + 1) /\ Placed(i + 1) /\ None(i + 1)
      OBVIOUS
    <2> DEFINE s == JSONSensor(group, desc, i + 1)
               a == t[i]
               b == t[i + 1]
    <2>1. i \in 0..n /\ i + 1 \in 1..n /\ (i + 1) - 1 = i /\ i <= n
      BY <1>1
    <2>2. Counted(i) /\ Placed(i) /\ None(i)
      BY <1>6, <2>1
    <2>3. a \in Seq(J) /\ b = NextParsed(group, desc, a, i + 1)
      BY <1>3, <1>4, <2>1
    <2>4. CASE desc[i + 1].valid
      <3>1. b = Append(a, s)
        BY <2>3, <2>4 DEF NextParsed
      <3>2. s \in J
        BY <2>1 DEF JSONSensorsOf
      <3>3. /\ Len(b) = Len(a) + 1 /\ Len(a) \in Nat
            /\ \A k \in 1..Len(a) : b[k] = a[k]
            /\ b[Len(a) + 1] = s
        <4> HIDE DEF a, b, s, J
        <4> QED BY <2>3, <3>1, <3>2, Appended, Zenon
      <3>4. s.field = i + 1 /\ (s.shifted <=> \E j \in 1..i : ~desc[j].valid)
        BY <2>1, SensorIs
      <3>5. Counted(i + 1)
        <4> SUFFICES ASSUME \A j \in 1..(i + 1) : desc[j].valid
                     PROVE  Len(b) = i + 1
          OBVIOUS
        <4>1. \A j \in 1..i : desc[j].valid
          OBVIOUS
        <4>2. Len(a) = i
          BY <2>2, <4>1
        <4> HIDE DEF a, b
        <4> QED BY <3>3, <4>2
      <3>6. Placed(i + 1)
        <4> SUFFICES ASSUME NEW k \in 1..Len(b), ~b[k].shifted
                     PROVE  b[k].field = k
          OBVIOUS
        <4>1. CASE k \in 1..Len(a)
          BY <2>2, <3>3, <4>1
        <4>2. CASE k = Len(a) + 1
          <5>1. b[k] = s
            BY <3>3, <4>2
          <5>2. \A j \in 1..i : desc[j].valid
            <6> HIDE DEF s, a, b
            <6> QED BY <3>4, <5>1
          <5>3. Len(a) = i
            BY <2>2, <5>2
          <5> HIDE DEF s, a, b
          <5> QED BY <3>4, <4>2, <5>1, <5>3
        <4>3. k \in 1..Len(a) \/ k = Len(a) + 1
          <5> HIDE DEF a, b
          <5> QED BY <3>3
        <4> QED BY <4>1, <4>2, <4>3
      <3>7. None(i + 1)
        BY <2>4
      <3> QED BY <3>5, <3>6, <3>7
    <2>5. CASE ~desc[i + 1].valid
      <3>1. b = a
        BY <2>3, <2>5 DEF NextParsed
      <3>2. Counted(i + 1)
        BY <2>5
      <3>3. Placed(i + 1)
        BY <2>2, <3>1
      <3>4. None(i + 1)
        <4> SUFFICES ASSUME \A j \in 1..(i + 1) : ~desc[j].valid
                     PROVE  b = <<>>
          OBVIOUS
        <4>1. \A j \in 1..i : ~desc[j].valid
          OBVIOUS
        <4> QED BY <2>2, <3>1, <4>1
      <3> QED BY <3>2, <3>3, <3>4
    <2> QED BY <2>4, <2>5
  <1>7. n \in G
    <2> HIDE DEF G, n
    <2> QED BY <1>1, <1>5, <1>6, SetInduction
  <1>8. Placed(n) /\ None(n)
    BY <1>1, <1>7
  <1>9. t[n] \in Seq(J)
    BY <1>1, <1>3
  <1> QED BY <1>2, <1>8, <1>9

-----------------------------------------------------------------------------
(* Group ids.                                                              *)

IdMaps == UNION {[D -> 1..255] : D \in SUBSET STRING}

\* The ids handed out so far are 1, 2, ... without repetition.
IsIds(known) ==
    /\ known \in IdMaps
    /\ IsFiniteSet(DOMAIN known)
    /\ Cardinality(DOMAIN known) <= GroupLimit
    /\ NoGroup \notin DOMAIN known
    /\ \A g \in DOMAIN known : known[g] <= Cardinality(DOMAIN known)
    /\ \A g, h \in DOMAIN known : known[g] = known[h] => g = h

\* What an id in the description says about a group, for good: a group that
\* was refused an id will not get one later.
Stated(known, g, id) ==
    IF id # 0 THEN g \in DOMAIN known /\ known[g] = id
    ELSE \/ g = NoGroup
         \/ g \notin DOMAIN known /\ Cardinality(DOMAIN known) = GroupLimit

\* What was stated with the ids of one map is still true with another one.
Keeps(known, later) ==
    \A g, id : Stated(known, g, id) => Stated(later, g, id)

LEMMA IdTypes ==
    ASSUME NEW known, IsIds(known)
    PROVE  /\ DOMAIN known \subseteq STRING
           /\ \A g \in DOMAIN known : known[g] \in 1..255
           /\ Cardinality(DOMAIN known) \in Nat
  <1>1. Cardinality(DOMAIN known) \in Nat
    BY FS_CardinalityType DEF IsIds
  <1>2. PICK D \in SUBSET STRING : known \in [D -> 1..255]
    BY DEF IsIds, IdMaps
  <1> QED BY <1>1, <1>2

\* A new group gets the next id.
LEMMA NewId ==
    ASSUME NEW known, IsIds(known), NEW g \in STRING, g # NoGroup,
           g \notin DOMAIN known, Cardinality(DOMAIN known) < GroupLimit
    PROVE  LET id == Cardinality(DOMAIN known) + 1
               later == Put(known, g, id)
           IN  /\ id \in 1..255
               /\ IsIds(later) /\ Stated(later, g, id) /\ Keeps(known, later)
  <1> DEFINE D == DOMAIN known
             c == Cardinality(D)
             id == c + 1
             later == Put(known, g, id)
             E == D \cup {g}
  <1>1. /\ D \subseteq STRING /\ c \in Nat /\ IsFiniteSet(D)
        /\ \A h \in D : known[h] \in 1..255 /\ known[h] <= c
        /\ GroupLimit \in 1..255
    BY IdTypes, SensorAssumption DEF IsIds
  <1>2. id \in 1..255 /\ id <= GroupLimit
    <2> HIDE DEF c
    <2> QED BY <1>1 DEF c
  <1>3. DOMAIN later = E /\ later[g] = id /\ \A h \in D : later[h] = known[h]
    <2> HIDE DEF id
    <2> QED BY DEF Put
  <1>4. IsFiniteSet(E) /\ Cardinality(E) = id
    BY <1>1, FS_AddElement
  <1>5. later \in IdMaps
    <2>1. later \in [E -> 1..255]
      <3>1. later = [x \in E |-> later[x]]
        <4> HIDE DEF id
        <4> QED BY DEF Put
      <3>2. \A x \in E : later[x] \in 1..255
        <4> HIDE DEF id, later, c
        <4> QED BY <1>1, <1>2, <1>3
      <3> HIDE DEF later, E
      <3> QED BY <3>1, <3>2
    <2>2. E \in SUBSET STRING
      BY <1>1
    <2> HIDE DEF later, E
    <2> QED BY <2>1, <2>2 DEF IdMaps
  <1>6. \A h \in E : later[h] <= id
    <2> TAKE h \in E
    <2>1. CASE h = g
      <3> HIDE DEF later, c
      <3> QED BY <1>1, <1>3, <2>1
    <2>2. CASE h \in D
      <3>1. later[h] = known[h] /\ known[h] \in 1..255 /\ known[h] <= c
        BY <1>1, <1>3, <2>2
      <3> HIDE DEF later, c
      <3> QED BY <1>1, <3>1
    <2> QED BY <2>1, <2>2
  <1>7. \A h, k \in E : later[h] = later[k] => h = k
    <2> TAKE h, k \in E
    <2> HAVE later[h] = later[k]
    <2>1. \A x \in D : later[x] # id
      <3> TAKE x \in D
      <3>1. later[x] = known[x] /\ known[x] \in 1..255 /\ known[x] <= c
        BY <1>1, <1>3
      <3> HIDE DEF later, c
      <3> QED BY <1>1, <3>1
    <2> HIDE DEF later, id
    <2> QED BY <1>3, <2>1 DEF IsIds
  <1>8. NoGroup \notin E
    BY DEF IsIds
  <1>9. IsIds(later)
    <2> HIDE DEF later, id, E
    <2> QED BY <1>2, <1>3, <1>4, <1>5, <1>6, <1>7, <1>8 DEF IsIds
  <1>10. Stated(later, g, id)
    <2>1. id # 0
      BY <1>2
    <2> HIDE DEF later, id
    <2> QED BY <1>3, <2>1 DEF Stated
  <1>11. Keeps(known, later)
    <2> SUFFICES ASSUME NEW h, NEW k, Stated(known, h, k)
                 PROVE  Stated(later, h, k)
      BY DEF Keeps
    <2>1. c # GroupLimit
      <3> HIDE DEF c
      <3> QED BY <1>1 DEF c
    <2> HIDE DEF later, id
    <2> QED BY <1>3, <2>1 DEF Stated
  <1> QED BY <1>2, <1>9, <1>10, <1>11

\* getGroupId states something true, and whatever was stated stays true.
LEMMA IdGiven ==
    ASSUME NEW known, IsIds(known), NEW g \in STRING
    PROVE  LET r == GetGroupId(known, g)
           IN  /\ r.id \in 0..255
               /\ IsIds(r.known) /\ Stated(r.known, g, r.id)
               /\ Keeps(known, r.known)
  <1> DEFINE r == GetGroupId(known, g)
             c == Cardinality(DOMAIN known)
  <1>1. Keeps(known, known)
    BY DEF Keeps
  <1>2. c \in Nat /\ GroupLimit \in Nat /\ c <= GroupLimit
    <2>1. c \in Nat
      BY IdTypes
    <2>2. c <= GroupLimit
      BY DEF IsIds
    <2>3. GroupLimit \in Nat
      BY SensorAssumption
    <2> QED BY <2>1, <2>2, <2>3
  <1>3. CASE g = NoGroup
    <2>1. r.id = 0 /\ r.known = known
      BY <1>3 DEF GetGroupId
    <2> QED BY <1>1, <1>3, <2>1 DEF Stated
  <1>4. CASE g # NoGroup /\ g \in DOMAIN known
    <2>1. r.id = known[g] /\ r.known = known
      BY <1>4 DEF GetGroupId
    <2> DEFINE k == known[g]
    <2>2. k \in 1..255
      BY <1>4, IdTypes
    <2>3. k # 0 /\ k \in 0..255
      <3> HIDE DEF k
      <3> QED BY <2>2
    <2> QED BY <1>1, <1>4, <2>1, <2>3 DEF Stated
  <1>5. CASE g # NoGroup /\ g \notin DOMAIN known /\ c >= GroupLimit
    <2>1. r.id = 0 /\ r.known = known
      BY <1>5 DEF GetGroupId
    <2>2. c = GroupLimit
      <3> HIDE DEF c
      <3> QED BY <1>2, <1>5
    <2> QED BY <1>1, <1>5, <2>1, <2>2 DEF Stated
  <1>6. CASE g # NoGroup /\ g \notin DOMAIN known /\ ~(c >= GroupLimit)
    <2> DEFINE id == c + 1
               later == Put(known, g, id)
    <2>1. r = [id |-> id, known |-> later]
      BY <1>6 DEF GetGroupId
    <2>2. r.id = id /\ r.known = later
      <3> HIDE DEF id, later, r
      <3> QED BY <2>1
    <2>3. c < GroupLimit
      <3> HIDE DEF c
      <3> QED BY <1>2, <1>6
    <2>4. /\ id \in 1..255
          /\ IsIds(later) /\ Stated(later, g, id) /\ Keeps(known, later)
      BY <1>6, <2>3, NewId
    <2>5. id \in 0..255
      <3> HIDE DEF id
      <3> QED BY <2>4
    <2> HIDE DEF id, later
    <2> QED BY <2>2, <2>4, <2>5
  <1> QED BY <1>3, <1>4, <1>5, <1>6

-----------------------------------------------------------------------------
(* The lines of a description page.                                        *)

\* The sensors are known by their names and have a size and a group.
SensorMap(m) ==
    /\ m = [n \in DOMAIN m |-> m[n]]
    /\ DOMAIN m \subseteq SensorNames
    /\ \A n \in DOMAIN m : m[n].size \in 1..255 /\ m[n].group \in STRING

MapInv == SensorMap(mSensorMap)

Rows == [name : Nat, size : 1..255, group : 0..255]

Accs == [known : {f \in IdMaps : IsIds(f)}, lines : Seq(Rows)]

\* A line says what is in the map, with an id from the groups known.
Says(row, name, known) ==
    /\ row.name = name
    /\ row.size = mSensorMap[name].size
    /\ Stated(known, mSensorMap[name].group, row.group)

IsTold(t, names) ==
    /\ t[0] = [known |-> mKnownGroups, lines |-> <<>>]
    /\ \A i \in 1..Len(names) : t[i] = Describe(t[i - 1], names[i])
    /\ \A i \in 0..Len(names) : t[i] \in Accs

LEMMA NamesAreNumbers ==
    /\ SensorNames \subseteq Nat /\ IsFiniteSet(SensorNames)
    /\ Cardinality(SensorNames) \in Nat
    /\ Cardinality(SensorNames) <= 254 * PerPage
  <1>1. {s.name : s \in Sensors} \subseteq Nat
    <2>1. \A s \in Sensors : s.name \in Nat
      BY SensorAssumption DEF Entries
    <2> QED BY <2>1
  <1>2. UNION {{d[i].name : i \in DOMAIN d} : d \in Descriptions} \subseteq Nat
    <2>1. ASSUME NEW d \in Descriptions, NEW i \in DOMAIN d
          PROVE  d[i].name \in Nat
      <3>1. d \in Seq(Entries)
        BY SensorAssumption
      <3>2. d[i] \in Entries
        BY <3>1
      <3> QED BY <3>2 DEF Entries
    <2> QED BY <2>1
  <1>3. SensorNames \subseteq Nat /\ IsFiniteSet(SensorNames)
    BY <1>1, <1>2, SensorAssumption DEF SensorNames
  <1> DEFINE c == Cardinality(SensorNames)
  <1>4. c \in Nat /\ c <= 254 * PerPage /\ PerPage \in 1..255
    BY <1>3, FS_CardinalityType, SensorAssumption, PerPageFits
  <1> HIDE DEF c
  <1> QED BY <1>3, <1>4 DEF c

\* One more line.
LEMMA Described ==
    ASSUME MapInv, NEW acc \in Accs, NEW name \in DOMAIN mSensorMap
    PROVE  LET d == Describe(acc, name)
               n == Len(acc.lines)
           IN  /\ d \in Accs /\ Keeps(acc.known, d.known)
               /\ n \in Nat /\ Len(d.lines) = n + 1
               /\ \A k \in 1..n : d.lines[k] = acc.lines[k]
               /\ Says(d.lines[n + 1], name, d.known)
  <1> DEFINE s == mSensorMap[name]
             g == GetGroupId(acc.known, s.group)
             row == [name |-> name, size |-> s.size, group |-> g.id]
             d == Describe(acc, name)
             n == Len(acc.lines)
  <1>1. acc.known \in IdMaps /\ IsIds(acc.known) /\ acc.lines \in Seq(Rows)
    BY DEF Accs
  <1>2. s.size \in 1..255 /\ s.group \in STRING /\ name \in Nat
    BY NamesAreNumbers DEF MapInv, SensorMap
  <1>3. /\ g.id \in 0..255
        /\ IsIds(g.known) /\ Stated(g.known, s.group, g.id)
        /\ Keeps(acc.known, g.known)
    BY <1>1, <1>2, IdGiven
  <1>4. g.known \in IdMaps
    BY <1>3 DEF IsIds
  <1>5. d.known = g.known /\ d.lines = Append(acc.lines, row)
    BY DEF Describe
  <1>6. d = [known |-> g.known, lines |-> Append(acc.lines, row)]
    BY DEF Describe
  <1>7. row \in Rows /\ row.name = name /\ row.size = s.size /\ row.group = g.id
    <2> HIDE DEF s, g
    <2> QED BY <1>2, <1>3 DEF Rows
  <1>8. /\ n \in Nat /\ Len(Append(acc.lines, row)) = n + 1
        /\ Append(acc.lines, row) \in Seq(Rows)
        /\ \A k \in 1..n : Append(acc.lines, row)[k] = acc.lines[k]
        /\ Append(acc.lines, row)[n + 1] = row
    <2> HIDE DEF row
    <2> QED BY <1>1, <1>7, AppendProperties
  <1>9. d \in Accs
    <2> HIDE DEF d, g, row
    <2> QED BY <1>3, <1>4, <1>6, <1>8 DEF Accs
  <1>10. Says(row, name, g.known)
    <2> HIDE DEF row, g
    <2> QED BY <1>3, <1>7 DEF Says
  <1> HIDE DEF d, row
  <1> QED BY <1>3, <1>5, <1>8, <1>9, <1>10 DEF d

LEMMA ToldRun ==
    ASSUME MapInv, IsIds(mKnownGroups), NEW names \in Seq(DOMAIN mSensorMap)
    PROVE  \E t : IsTold(t, names) /\ Told(names) = t[Len(names)]
  <1> DEFINE n == Len(names)
             R == Accs
             z == [known |-> mKnownGroups, lines |-> <<>>]
             F(acc, i) == Describe(acc, names[i])
             step == [i \in 1..n |-> [s \in R |-> F(s, i)]]
             Eq(t) == t = [i \in 0..n |-> IF i = 0
                              THEN [known |-> mKnownGroups, lines |-> <<>>]
                              ELSE Describe(t[i - 1], names[i])]
  <1>0. \A i \in 1..n : names[i] \in DOMAIN mSensorMap
    OBVIOUS
  <1>1. n \in Nat /\ z \in R
    <2>1. n \in Nat
      OBVIOUS
    <2>2. mKnownGroups \in IdMaps
      BY DEF IsIds
    <2>3. z \in R
      BY <2>2 DEF Accs
    <2> QED BY <2>1, <2>3
  <1>2. \A i \in 1..n : \A s \in R : F(s, i) \in R
    BY <1>0, Described
  <1>3. step \in [1..n -> [R -> R]]
    <2> HIDE DEF n, R, F
    <2> QED BY <1>2
  <1>4. PICK g : IsRun(g, n, R, z, step)
    <2> HIDE DEF n, R, step, z
    <2> QED BY <1>1, <1>3, RecursionExists
  <1>5. g \in [0..n -> R] /\ g[0] = z
    BY <1>4 DEF IsRun
  <1>6. \A i \in 1..n : g[i] = F(g[i - 1], i)
    <2> TAKE i \in 1..n
    <2>1. i - 1 \in 0..n
      <3> HIDE DEF n
      <3> QED BY <1>1
    <2>2. g[i - 1] \in R
      <3> HIDE DEF n, R
      <3> QED BY <1>5, <2>1
    <2>3. step[i][g[i - 1]] = F(g[i - 1], i)
      <3> HIDE DEF F, R, n
      <3> QED BY <2>2
    <2> QED BY <1>4, <2>3 DEF IsRun
  <1>7. \A t : Eq(t) <=> t = [i \in 0..n |-> IF i = 0 THEN z ELSE F(t[i - 1], i)]
    BY Zenon
  <1>8. Eq(g)
    <2>1. ASSUME NEW i \in 0..n
          PROVE  g[i] = IF i = 0 THEN z ELSE F(g[i - 1], i)
      <3>1. i = 0 \/ (i # 0 /\ i \in 1..n)
        <4> HIDE DEF n
        <4> QED BY <1>1
      <3> HIDE DEF F, n, z
      <3> QED BY <1>5, <1>6, <3>1
    <2>2. g = [i \in 0..n |-> g[i]]
      BY <1>5
    <2>3. g = [i \in 0..n |-> IF i = 0 THEN z ELSE F(g[i - 1], i)]
      <3> HIDE DEF F, n, z
      <3> QED BY <2>1, <2>2, Zenon
    <2> QED BY <1>7, <2>3
  <1> DEFINE t == CHOOSE f : Eq(f)
  <1>9. Eq(t)
    <2> HIDE DEF Eq
    <2> QED BY <1>8, Zenon
  <1>10. Told(names) = t[n]
    BY DEF Told
  <1> HIDE DEF t
  <1>11. t = [i \in 0..n |-> IF i = 0 THEN z ELSE F(t[i - 1], i)]
    BY <1>7, <1>9, Zenon
  <1>12. t[0] = z /\ \A i \in 1..n : t[i] = F(t[i - 1], i)
    <2> HIDE DEF n, F, z
    <2>1. 0 \in 0..n /\ \A i \in 1..n : i \in 0..n /\ i # 0
      BY <1>1
    <2> QED BY <1>11, <2>1
  <1> DEFINE G == {i \in Nat : i <= n => t[i] \in R}
  <1>13. \A i \in Nat : i \in G
    <2>1. 0 \in G
      <3> HIDE DEF z, R, n
      <3> QED BY <1>1, <1>12
    <2>2. ASSUME NEW i \in Nat, i \in G
          PROVE  i + 1 \in G
      <3> HIDE DEF n, R, F
      <3> SUFFICES ASSUME i + 1 <= n PROVE t[i + 1] \in R
        OBVIOUS
      <3>1. i + 1 \in 1..n /\ (i + 1) - 1 = i /\ t[i] \in R
        BY <1>1, <2>2
      <3>2. t[i + 1] = F(t[i], i + 1)
        BY <1>12, <3>1
      <3> QED BY <1>2, <3>1, <3>2
    <2> HIDE DEF G
    <2> QED BY <2>1, <2>2, SetInduction
  <1>14. \A i \in 0..n : t[i] \in R
    <2> HIDE DEF n, R
    <2> QED BY <1>1, <1>13
  <1>15. IsTold(t, names)
    BY <1>12, <1>14 DEF IsTold
  <1> QED BY <1>10, <1>15

LEMMA SaysKept ==
    ASSUME NEW row, NEW name, NEW known, NEW later,
           Says(row, name, known), Keeps(known, later)
    PROVE  Says(row, name, later)
  BY DEF Says, Keeps

LEMMA KeepsBoth ==
    ASSUME NEW f, NEW g, NEW h, Keeps(f, g), Keeps(g, h)
    PROVE  Keeps(f, h)
  BY DEF Keeps

\* A page has one line for each of its sensors, and what earlier pages
\* said about groups stays true.
LEMMA ToldIs ==
    ASSUME MapInv, IsIds(mKnownGroups), NEW names \in Seq(DOMAIN mSensorMap)
    PROVE  LET r == Told(names)
           IN  /\ IsIds(r.known) /\ Keeps(mKnownGroups, r.known)
               /\ r.lines \in Seq(Rows) /\ Len(r.lines) = Len(names)
               /\ \A k \in 1..Len(names) : Says(r.lines[k], names[k], r.known)
  <1> DEFINE n == Len(names)
  <1>1. n \in Nat /\ \A i \in 1..n : names[i] \in DOMAIN mSensorMap
    OBVIOUS
  <1>2. PICK t : IsTold(t, names) /\ Told(names) = t[n]
    BY ToldRun
  <1>3. \A i \in 0..n : t[i] \in Accs
    BY <1>2 DEF IsTold
  <1>4. /\ t[0].known = mKnownGroups /\ t[0].lines = <<>>
        /\ \A i \in 1..n : t[i] = Describe(t[i - 1], names[i])
    BY <1>2 DEF IsTold
  <1> DEFINE Kept(i) == Keeps(mKnownGroups, t[i].known)
             Long(i) == Len(t[i].lines) = i
             Right(i) == \A k \in 1..i : Says(t[i].lines[k], names[k], t[i].known)
             G == {i \in Nat : i <= n => Kept(i) /\ Long(i) /\ Right(i)}
  <1>5. 0 \in G
    <2>1. Kept(0)
      BY <1>4 DEF Keeps
    <2>2. Long(0)
      BY <1>4
    <2>3. Right(0)
      OBVIOUS
    <2> QED BY <2>1, <2>2, <2>3
  <1>6. ASSUME NEW i \in Nat, i \in G
        PROVE  i + 1 \in G
    <2> SUFFICES ASSUME i + 1 <= n
                 PROVE  Kept(i + 1) /\ Long(i + 1) /\ Right(i + 1)
      OBVIOUS
    <2> DEFINE a == t[i]
               d == t[i + 1]
    <2>1. i \in 0..n /\ i + 1 \in 1..n /\ (i + 1) - 1 = i /\ i <= n
      <3> HIDE DEF n
      <3> QED BY <1>1
    <2>2. Kept(i) /\ Long(i) /\ Right(i)
      BY <1>6, <2>1
    <2>3. a \in Accs /\ names[i + 1] \in DOMAIN mSensorMap
      BY <1>1, <1>3, <2>1
    <2>4. d = Describe(a, names[i + 1])
      BY <1>4, <2>1
    <2>5. /\ Keeps(a.known, d.known)
          /\ Len(d.lines) = Len(a.lines) + 1
          /\ \A k \in 1..Len(a.lines) : d.lines[k] = a.lines[k]
          /\ Says(d.lines[Len(a.lines) + 1], names[i + 1], d.known)
      <3> HIDE DEF a, d, n
      <3> QED BY <2>3, <2>4, Described
    <2>6. Len(a.lines) = i
      BY <2>2
    <2>7. Kept(i + 1)
      BY <2>2, <2>5, KeepsBoth
    <2>8. Long(i + 1)
      BY <2>5, <2>6
    <2>9. Right(i + 1)
      <3> SUFFICES ASSUME NEW k \in 1..(i + 1)
                   PROVE  Says(d.lines[k], names[k], d.known)
        OBVIOUS
      <3>1. CASE k \in 1..i
        <4>1. Says(a.lines[k], names[k], a.known)
          BY <2>2, <3>1
        <4>2. Says(a.lines[k], names[k], d.known)
          BY <2>5, <4>1, SaysKept
        <4>3. d.lines[k] = a.lines[k]
          BY <2>5, <2>6, <3>1
        <4> QED BY <4>2, <4>3
      <3>2. CASE k = i + 1
        BY <2>5, <2>6, <3>2
      <3> QED BY <3>1, <3>2
    <2> QED BY <2>7, <2>8, <2>9
  <1>7. n \in G
    <2> HIDE DEF G, n
    <2> QED BY <1>1, <1>5, <1>6, SetInduction
  <1>8. Kept(n) /\ Long(n) /\ Right(n)
    BY <1>1, <1>7
  <1>9. t[n] \in Accs
    BY <1>1, <1>3
  <1>10. IsIds(t[n].known) /\ t[n].lines \in Seq(Rows)
    <2> DEFINE a == t[n]
    <2>1. a \in Accs
      BY <1>9
    <2> HIDE DEF a
    <2>2. IsIds(a.known) /\ a.lines \in Seq(Rows)
      BY <2>1 DEF Accs
    <2> QED BY <2>2 DEF a
  <1> QED BY <1>2, <1>8, <1>10

-----------------------------------------------------------------------------
(* The inductive invariant.                                                *)

Phases == {"manual", "providers", "json", "run", "cleared"}

States == {"BasicInformation", "MonitoringDescription", "MonitoringData"}

Places == {"idle", "basic", "page", "advance", "turn", "turned"}

(***************************************************************************)
(* Nothing is described before the constructor has ended; from then on the *)
(* buffer has the size of the sensors.                                     *)
(***************************************************************************)
PhaseInv ==
    /\ phase \in Phases
    /\ mState \in States /\ at \in Places
    /\ mCurrentPage \in Nat
    /\ phase # "run" => at = "idle" /\ table = <<>>
    /\ phase \notin {"run", "cleared"} =>
          /\ mState = "BasicInformation" /\ mCurrentPage = 1
          /\ message = <<>>
    /\ phase = "run" => mSize = SizeOf(mSensorMap)

\* The table says of sensors of the map what is in the map.
RowsInv ==
    /\ table \in Seq(Rows)
    /\ \A i \in 1..Len(table) : /\ table[i].name \in DOMAIN mSensorMap
                                 /\ Says(table[i], table[i].name, mKnownGroups)

\* The table holds the first n sensors of the map.
FirstOf(n) ==
    /\ Len(table) = n
    /\ \A i \in 1..n : table[i].name = Order[i]

\* The number of sensors on the pages up to p.
EndOf(p) ==
    IF p + 1 > PageCount(Len(Order)) THEN Len(Order) ELSE StartingSensor(p + 1)

(***************************************************************************)
(* The table ends with the page that was counted last.  A reset may set    *)
(* mCurrentPage to 1 anywhere; the table starts over then, except when the *)
(* page just described is still to be counted.                             *)
(***************************************************************************)
PageInv ==
    phase = "run" =>
        /\ mCurrentPage \in 1..(PageCount(Len(Order)) + 1)
        /\ at # "turn" => mCurrentPage \in 1..PageCount(Len(Order))
        /\ at \in {"advance", "turn"} => maxPages = PageCount(Len(Order))
        /\ at = "turned" => mCurrentPage = 1
        /\ mState = "MonitoringData" => at = "idle"

TableInv ==
    (phase = "run" /\ ~skewed) =>
        /\ at = "advance" => FirstOf(EndOf(mCurrentPage))
        /\ at # "advance" /\ mCurrentPage # 1 => FirstOf(EndOf(mCurrentPage - 1))
        /\ at = "turned" \/ mState = "MonitoringData" => FirstOf(Len(Order))

\* A message is laid out in the order of the map.
MessageInv ==
    (phase = "run" /\ message # <<>>) =>
        message = [i \in DOMAIN Order |->
                      [name |-> Order[i], size |-> mSensorMap[Order[i]].size]]

\* A JSON sensor that is not shifted is at the place of its field.
ParsersInv ==
    \A g \in DOMAIN mJSONSensorsParsers :
        /\ \E J : mJSONSensorsParsers[g] \in Seq(J)
        /\ \A k \in DOMAIN mJSONSensorsParsers[g] :
              LET s == mJSONSensorsParsers[g][k] IN
              s.json = g /\ (~s.shifted => s.field = k)

ValuesInv ==
    \A s \in DOMAIN values :
        /\ s.json \in DOMAIN mJSONSensorsParsers
        /\ \E k \in DOMAIN mJSONSensorsParsers[s.json] :
              mJSONSensorsParsers[s.json][k] = s
        /\ ~s.shifted => values[s] \in {0, s.field}

SensorInv ==
    /\ MapInv /\ PhaseInv /\ IsIds(mKnownGroups) /\ RowsInv /\ PageInv
    /\ TableInv /\ MessageInv /\ ParsersInv /\ ValuesInv

-----------------------------------------------------------------------------
(* What the steps do to the map, the order and the parsers.                *)

\* The order of a map, and how many sensors it can have.
LEMMA OrderOf ==
    ASSUME NEW S \in SUBSET SensorNames
    PROVE  /\ Sorted(S) \in Seq(S) /\ Len(Sorted(S)) \in Nat
           /\ Len(Sorted(S)) <= 254 * PerPage
           /\ \A i, j \in 1..Len(Sorted(S)) : i < j => Sorted(S)[i] < Sorted(S)[j]
           /\ \A n \in S : \E i \in 1..Len(Sorted(S)) : Sorted(S)[i] = n
  <1>1. S \in SUBSET Nat /\ IsFiniteSet(S)
    BY NamesAreNumbers, FS_Subset
  <1>2. Cardinality(S) <= Cardinality(SensorNames)
    BY NamesAreNumbers, FS_Subset
  <1> DEFINE c == Cardinality(S)
             f == Sorted(S)
  <1>3. /\ c \in Nat /\ f \in Seq(S) /\ Len(f) = c
        /\ \A i, j \in 1..Len(f) : i < j => f[i] < f[j]
        /\ \A n \in S : \E i \in 1..Len(f) : f[i] = n
    BY <1>1, SortedNames
  <1>4. c <= 254 * PerPage
    <2>1. PerPage \in Nat
      BY PerPageFits
    <2> HIDE DEF c
    <2> QED BY <1>2, <1>3, <2>1, NamesAreNumbers DEF c
  <1> HIDE DEF c, f
  <1>5. Len(f) \in Nat /\ Len(f) <= 254 * PerPage
    BY <1>3, <1>4
  <1> QED BY <1>3, <1>5 DEF f

LEMMA NoSensors == SensorMap(<<>>)
  BY DEF SensorMap

LEMMA SensorPut ==
    ASSUME NEW m, SensorMap(m), NEW s \in Sensors
    PROVE  SensorMap(Put(m, s.name, s))
  <1> DEFINE later == Put(m, s.name, s)
  <1>1. s.name \in SensorNames
    BY DEF SensorNames
  <1>2. s.size \in 1..255 /\ s.group \in STRING
    BY SensorAssumption DEF Entries
  <1>3. /\ DOMAIN later = DOMAIN m \cup {s.name}
        /\ later = [x \in DOMAIN later |-> later[x]]
        /\ later[s.name] = s
        /\ \A x \in DOMAIN m : x # s.name => later[x] = m[x]
    BY DEF Put
  <1> HIDE DEF later
  <1>4. SensorMap(later)
    BY <1>1, <1>2, <1>3 DEF SensorMap
  <1> QED BY <1>4 DEF later

LEMMA SensorsInserted ==
    ASSUME NEW m, SensorMap(m), NEW more, SensorMap(more)
    PROVE  SensorMap(Insert(m, more))
  <1> DEFINE later == Insert(m, more)
  <1>1. /\ DOMAIN later = DOMAIN m \cup DOMAIN more
        /\ later = [x \in DOMAIN later |-> later[x]]
        /\ \A x \in DOMAIN later : later[x] = IF x \in DOMAIN m THEN m[x] ELSE more[x]
    BY DEF Insert
  <1> HIDE DEF later
  <1>2. SensorMap(later)
    BY <1>1 DEF SensorMap
  <1> QED BY <1>2 DEF later

\* The first sensor of each name is there.
LEMMA FirstOfName ==
    ASSUME NEW J, NEW p \in Seq(J), NEW k \in 1..Len(p)
    PROVE  \E i \in DOMAIN p : /\ p[i].name = p[k].name
                               /\ \A j \in 1..(i - 1) : p[j].name # p[k].name
  <1> DEFINE n == p[k].name
             First(i) == p[i].name = n /\ \A j \in 1..(i - 1) : p[j].name # n
             G == {i \in Nat : i <= Len(p) => \A j \in 1..i : p[j].name # n}
  <1>1. Len(p) \in Nat /\ DOMAIN p = 1..Len(p)
    OBVIOUS
  <1> SUFFICES ASSUME \A i \in 1..Len(p) : ~First(i) PROVE FALSE
    BY <1>1
  <1>2. 0 \in G
    OBVIOUS
  <1>3. ASSUME NEW i \in Nat, i \in G
        PROVE  i + 1 \in G
    <2> SUFFICES ASSUME i + 1 <= Len(p) PROVE \A j \in 1..(i + 1) : p[j].name # n
      OBVIOUS
    <2>1. i + 1 \in 1..Len(p) /\ (i + 1) - 1 = i /\ i <= Len(p)
      BY <1>1
    <2> HIDE DEF n
    <2>2. \A j \in 1..i : p[j].name # n
      BY <1>3, <2>1
    <2>3. p[i + 1].name # n
      BY <2>1, <2>2
    <2> QED BY <2>2, <2>3
  <1>4. Len(p) \in G
    <2> HIDE DEF G
    <2> QED BY <1>1, <1>2, <1>3, SetInduction
  <1> QED BY <1>1, <1>4

\* The sensors of a description as a map.
LEMMA ParsedByName ==
    ASSUME NEW group, NEW desc \in Descriptions
    PROVE  SensorMap(ByName(Parse(group, desc)))
  <1> DEFINE p == Parse(group, desc)
             J == JSONSensorsOf(group, desc)
             m == ByName(p)
  <1>1. desc \in Seq(Entries)
    BY SensorAssumption
  <1>2. p \in Seq(J)
    BY <1>1, Parsed
  <1>3. \A s \in J : /\ s.name \in SensorNames /\ s.size \in 1..255
                     /\ s.group \in STRING
    <2> SUFFICES ASSUME NEW i \in 1..Len(desc)
                 PROVE  LET s == JSONSensor(group, desc, i)
                        IN  /\ s.name \in SensorNames /\ s.size \in 1..255
                            /\ s.group \in STRING
      BY DEF JSONSensorsOf
    <2>1. desc[i] \in Entries /\ i \in DOMAIN desc
      BY <1>1
    <2>2. desc[i].size \in 1..255 /\ desc[i].group \in STRING
      BY <2>1 DEF Entries
    <2>3. desc[i].name \in SensorNames
      BY <2>1 DEF SensorNames
    <2> QED BY <2>2, <2>3 DEF JSONSensor
  <1> HIDE DEF p, J
  <1>4. /\ m = [x \in DOMAIN m |-> m[x]]
        /\ DOMAIN m = {p[i].name : i \in DOMAIN p}
        /\ \A x \in DOMAIN m : m[x] = p[CHOOSE i \in DOMAIN p :
                                        /\ p[i].name = x
                                        /\ \A j \in 1..(i - 1) : p[j].name # x]
    BY DEF ByName
  <1> HIDE DEF m
  <1>5. \A i \in DOMAIN p : p[i] \in J
    BY <1>2
  <1>6. \A x \in DOMAIN m : m[x] \in J
    <2> TAKE x \in DOMAIN m
    <2>1. PICK k \in DOMAIN p : p[k].name = x
      BY <1>4
    <2>2. k \in 1..Len(p)
      BY <1>2
    <2>3. \E i \in DOMAIN p : /\ p[i].name = x
                              /\ \A j \in 1..(i - 1) : p[j].name # x
      BY <1>2, <2>1, <2>2, FirstOfName
    <2> DEFINE First(i) == p[i].name = x /\ \A j \in 1..(i - 1) : p[j].name # x
               i == CHOOSE i \in DOMAIN p : First(i)
    <2>4. m[x] = p[i]
      BY <1>4
    <2>5. i \in DOMAIN p
      <3>1. \E q \in DOMAIN p : First(q)
        BY <2>3
      <3> HIDE DEF First
      <3> QED BY <3>1, Zenon
    <2> HIDE DEF i
    <2> QED BY <1>5, <2>4, <2>5
  <1>7. DOMAIN m \subseteq SensorNames
    BY <1>3, <1>4, <1>5
  <1>8. SensorMap(m)
    BY <1>3, <1>4, <1>6, <1>7 DEF SensorMap
  <1> QED BY <1>8 DEF m, p

\* A telnet line adds a group without sensors.
LEMMA NothingParsed ==
    ASSUME NEW group, NEW desc \in Descriptions
    PROVE  /\ Lowered(desc) \in Seq(Entries)
           /\ Parse(group, Lowered(desc)) = <<>>
  <1> DEFINE low == Lowered(desc)
  <1>1. desc \in Seq(Entries)
    BY SensorAssumption
  <1>2. /\ DOMAIN desc = 1..Len(desc) /\ Len(desc) \in Nat
        /\ \A i \in DOMAIN desc : desc[i] \in Entries
    BY <1>1
  <1>3. /\ low = [i \in 1..Len(desc) |-> low[i]]
        /\ \A i \in 1..Len(desc) : low[i] = [desc[i] EXCEPT !.valid = FALSE]
    BY <1>2 DEF Lowered
  <1> HIDE DEF low
  <1>4. \A i \in 1..Len(desc) : low[i] \in Entries /\ ~low[i].valid
    <2> TAKE i \in 1..Len(desc)
    <2> DEFINE e == desc[i]
    <2>1. e \in Entries
      BY <1>2
    <2> HIDE DEF e
    <2>2. [e EXCEPT !.valid = FALSE] \in Entries
      BY <2>1 DEF Entries
    <2>3. ~[e EXCEPT !.valid = FALSE].valid
      BY <2>1 DEF Entries
    <2> QED BY <1>3, <2>2, <2>3 DEF e
  <1>5. low \in Seq(Entries) /\ Len(low) = Len(desc)
    <2>1. low \in [1..Len(desc) -> Entries]
      BY <1>3, <1>4
    <2> QED BY <1>2, <2>1
  <1>6. Parse(group, low) = <<>>
    BY <1>4, <1>5, Parsed
  <1> QED BY <1>5, <1>6 DEF low

\* Inserting the sensors of such a group leaves the map as it is.
LEMMA MapUnchanged ==
    ASSUME NEW m, m = [n \in DOMAIN m |-> m[n]]
    PROVE  Insert(m, ByName(<<>>)) = m
  <1>1. DOMAIN ByName(<<>>) = {}
    BY DEF ByName
  <1> DEFINE later == Insert(m, ByName(<<>>))
  <1>2. /\ DOMAIN later = DOMAIN m
        /\ later = [x \in DOMAIN later |-> later[x]]
        /\ \A x \in DOMAIN m : later[x] = m[x]
    BY <1>1 DEF Insert
  <1> HIDE DEF later
  <1>3. later = m
    BY <1>2
  <1> QED BY <1>3 DEF later

\* A new group keeps the sensors of the parsers at the places of their fields.
LEMMA ParserAdded ==
    ASSUME ParsersInv, ValuesInv, NEW group, NEW desc \in Seq(Entries),
           AddJSONSensorProvider(group, desc)
    PROVE  ParsersInv' /\ ValuesInv'
  <1> DEFINE p == Parse(group, desc)
             J == JSONSensorsOf(group, desc)
             M == mJSONSensorsParsers
             new == [s \in ToSet(p) |-> 0]
  <1>1. /\ group \notin DOMAIN M
        /\ M' = Put(M, group, p)
        /\ values' = Insert(values, new)
    BY DEF AddJSONSensorProvider
  <1>2. p \in Seq(J) /\ \A k \in 1..Len(p) : ~p[k].shifted => p[k].field = k
    BY Parsed
  <1>3. \A s \in J : s.json = group
    BY SensorIs DEF JSONSensorsOf
  <1> HIDE DEF p, J
  <1>4. DOMAIN p = 1..Len(p) /\ \A k \in DOMAIN p : p[k] \in J
    BY <1>2
  <1>5. /\ DOMAIN M' = DOMAIN M \cup {group} /\ M'[group] = p
        /\ \A g \in DOMAIN M : M'[g] = M[g]
    BY <1>1 DEF Put
  <1>6. ToSet(p) = {p[k] : k \in DOMAIN p}
    BY DEF ToSet
  <1>7. /\ DOMAIN values' = DOMAIN values \cup ToSet(p)
        /\ \A s \in DOMAIN values : values'[s] = values[s]
        /\ \A s \in ToSet(p) : s \notin DOMAIN values => values'[s] = 0
    BY <1>1 DEF Insert
  <1>8. ParsersInv'
    <2> SUFFICES ASSUME NEW g \in DOMAIN M'
                 PROVE  /\ \E K : M'[g] \in Seq(K)
                        /\ \A k \in DOMAIN M'[g] :
                              /\ M'[g][k].json = g
                              /\ ~M'[g][k].shifted => M'[g][k].field = k
      BY DEF ParsersInv
    <2>1. CASE g = group
      BY <1>2, <1>3, <1>4, <1>5, <2>1
    <2>2. CASE g \in DOMAIN M
      BY <1>5, <2>2 DEF ParsersInv
    <2> QED BY <1>5, <2>1, <2>2
  <1>9. ValuesInv'
    <2> SUFFICES ASSUME NEW s \in DOMAIN values'
                 PROVE  /\ s.json \in DOMAIN M'
                        /\ \E k \in DOMAIN M'[s.json] : M'[s.json][k] = s
                        /\ ~s.shifted => values'[s] \in {0, s.field}
      BY DEF ValuesInv
    <2>1. CASE s \in DOMAIN values
      BY <1>5, <1>7, <2>1 DEF ValuesInv
    <2>2. CASE s \notin DOMAIN values
      <3>1. s \in ToSet(p) /\ values'[s] = 0
        BY <1>7, <2>2
      <3>2. PICK k \in DOMAIN p : p[k] = s
        BY <1>6, <3>1
      <3>3. s.json = group
        BY <1>3, <1>4, <3>2
      <3> QED BY <1>5, <3>1, <3>2, <3>3
    <2> QED BY <2>1, <2>2
  <1> QED BY <1>8, <1>9

\* The pages can be counted in a uint8_t with one to spare.
LEMMA PageCountRange ==
    ASSUME NEW count \in Nat, count <= 254 * PerPage
    PROVE  PageCount(count) \in 1..254 /\ StartingSensor(1) = 0
  <1> DEFINE w == PerPage
             m == count \div w
             r == count % w
             last == PageCount(count)
  <1>1. w \in 1..255
    BY PerPageFits
  <1>2. StartingSensor(1) = (1 - 1) * w
    BY StartsExact
  <1>3. CASE count = 0
    <2>1. (w - 1) \div w = 0
      <3>1. w - 1 \in Nat /\ w \in Nat \ {0} /\ w - 1 < w /\ w - 1 = w * 0 + (w - 1)
        BY <1>1
      <3> HIDE DEF w
      <3> QED BY <3>1, DivisionUnique
    <2>2. count + w - 1 = w - 1
      BY <1>1, <1>3
    <2>3. last = IF 0 % 256 < 1 THEN 1 ELSE 0 % 256
      BY <2>1, <2>2 DEF PageCount
    <2> HIDE DEF last, w
    <2> QED BY <1>1, <1>2, <2>3 DEF last
  <1>4. CASE count # 0
    <2>0. count <= 255 * w /\ count \in Nat \ {0}
      BY <1>1, <1>4
    <2>1. /\ m \in 0..255
          /\ r = 0 => last = m /\ m > 0
          /\ r # 0 => last = m + 1
      BY <2>0, PageCountExact
    <2>2. r \in Nat /\ count = w * m + r
      <3>1. w \in Nat \ {0}
        BY <1>1
      <3> QED BY <3>1, Division
    <2> HIDE DEF m, r, last, w
    <2>3. w * m + r <= 254 * w
      BY <2>2 DEF w
    <2>4. m > 253 => m = 254 /\ r = 0
      <3> SUFFICES ASSUME m > 253 PROVE m = 254 /\ r = 0
        OBVIOUS
      <3>1. CASE m > 254
        <4>1. 255 * w <= m * w
          BY <1>1, <2>1, <3>1, TimesMonotonic
        <4> QED BY <1>1, <2>1, <2>2, <2>3, <4>1
      <3>2. CASE m = 254
        BY <1>1, <2>2, <2>3, <3>2
      <3> QED BY <2>1, <3>1, <3>2
    <2>5. last \in 1..254
      BY <2>1, <2>2, <2>4
    <2> QED BY <1>1, <1>2, <2>5 DEF last, w
  <1> QED BY <1>3, <1>4

\* A page lies within the sensors, and ends where the next one begins or, the
\* last one, with the last sensor.
LEMMA PageEnds ==
    ASSUME NEW count \in Nat, count <= 254 * PerPage,
           NEW p \in 1..PageCount(count)
    PROVE  LET a == StartingSensor(p)
               b == SensorsOnPage(count, p)
           IN  /\ a \in Nat /\ b \in Nat /\ a + b <= count
               /\ p + 1 > PageCount(count) => a + b = count
               /\ p + 1 <= PageCount(count) => a + b = StartingSensor(p + 1)
  <1> DEFINE w == PerPage
             last == PageCount(count)
             a == StartingSensor(p)
             b == SensorsOnPage(count, p)
             z == StartingSensor(last)
             l == SensorsOnPage(count, last)
  <1>1. w \in 1..255
    BY PerPageFits
  <1>2. last \in 1..254
    BY PageCountRange
  <1>3. Tiles(count)
    <2>1. count <= 255 * w
      BY <1>1
    <2> QED BY <2>1, PagesTile
  <1>4. /\ \A x \in 1..(last - 1) :
              StartingSensor(x + 1) = StartingSensor(x) + SensorsOnPage(count, x)
        /\ z + l = count
    BY <1>3 DEF Tiles
  <1> HIDE DEF last
  <1>5. p \in 1..256 /\ p <= last /\ p \in 1..last
    BY <1>2 DEF last
  <1>6. a = (p - 1) * w /\ z = (last - 1) * w
    BY <1>2, <1>5, StartsExact
  <1>7. \A k \in 1..last : SensorsOnPage(count, k) \in Nat
    <2>1. count % PerPage \in Nat
      <3>1. PerPage \in Nat \ {0}
        BY <1>1
      <3> QED BY <3>1, Division
    <2> QED BY <1>1, <2>1 DEF SensorsOnPage
  <1>8. p - 1 \in Nat /\ last - 1 \in Nat /\ p - 1 <= last - 1 /\ w \in Nat
    BY <1>1, <1>2, <1>5
  <1>9. a \in Nat /\ z \in Nat
    <2> HIDE DEF a, z, w
    <2>1. (p - 1) * w \in Nat /\ (last - 1) * w \in Nat
      BY <1>8
    <2> QED BY <1>6, <2>1
  <1>10. b \in Nat /\ l \in Nat
    BY <1>2, <1>5, <1>7
  <1> HIDE DEF a, b, z, l, w
  <1>11. CASE p = last
    <2>1. a = z /\ b = l
      BY <1>11 DEF a, b, z, l
    <2> QED BY <1>2, <1>4, <1>9, <1>10, <1>11, <2>1 DEF last, a, b
  <1>12. CASE p # last
    <2> DEFINE n == StartingSensor(p + 1)
    <2>1. p \in 1..(last - 1) /\ p + 1 \in 1..256 /\ p + 1 <= last
      BY <1>2, <1>5, <1>12
    <2>2. n = a + b
      BY <1>4, <2>1 DEF a, b
    <2>3. n = p * w
      <3>1. (p + 1) - 1 = p
        BY <1>5
      <3> QED BY <2>1, <3>1, StartsExact DEF w
    <2>4. p \in Nat /\ p <= last - 1
      BY <1>2, <2>1
    <2>5. p * w <= (last - 1) * w
      BY <1>8, <2>4, TimesMonotonic
    <2> HIDE DEF n
    <2>6. a + b <= z
      BY <1>6, <2>2, <2>3, <2>5
    <2>7. a + b <= count
      BY <1>4, <1>9, <1>10, <2>6
    <2> QED BY <1>9, <1>10, <2>1, <2>2, <2>7, <1>2, <1>5 DEF last, a, b, n
  <1> QED BY <1>11, <1>12

-----------------------------------------------------------------------------
(* The invariant holds in every state.                                     *)

LEMMA SensorInit == Init => SensorInv
  <1> SUFFICES ASSUME Init PROVE SensorInv
    OBVIOUS
  <1> USE DEF Init
  <1>1. MapInv
    BY NoSensors DEF MapInv
  <1>2. PhaseInv
    BY DEF PhaseInv, Phases, States, Places
  <1>3. IsIds(mKnownGroups)
    <2>1. mKnownGroups \in IdMaps
      <3>1. mKnownGroups \in [{} -> 1..255]
        OBVIOUS
      <3> QED BY <3>1 DEF IdMaps
    <2>2. DOMAIN mKnownGroups = {}
      OBVIOUS
    <2>3. IsFiniteSet({}) /\ Cardinality({}) = 0
      BY FS_EmptySet
    <2>4. 0 <= GroupLimit
      BY SensorAssumption
    <2> HIDE DEF Init
    <2> QED BY <2>1, <2>2, <2>3, <2>4 DEF IsIds
  <1>4. RowsInv
    <2>1. table \in Seq(Rows) /\ Len(table) = 0
      OBVIOUS
    <2> HIDE DEF Init
    <2> QED BY <2>1 DEF RowsInv
  <1>5. PageInv /\ TableInv /\ MessageInv
    BY DEF PageInv, TableInv, MessageInv
  <1>6. ParsersInv /\ ValuesInv
    BY DEF ParsersInv, ValuesInv
  <1> QED BY <1>1, <1>2, <1>3, <1>4, <1>5, <1>6 DEF SensorInv

\* While the constructor runs, nothing has been described.
LEMMA Building ==
    ASSUME SensorInv, MapInv', phase \notin {"run", "cleared"},
           UNCHANGED <<phase, mKnownGroups, loopVars>>
    PROVE  /\ PhaseInv' /\ IsIds(mKnownGroups)'
           /\ RowsInv' /\ PageInv' /\ TableInv' /\ MessageInv'
  <1>1. UNCHANGED <<phase, mKnownGroups, mState, mCurrentPage, at, table, message>>
    BY DEF loopVars
  <1>2. phase \in Phases /\ phase # "run" /\ phase # "cleared"
    BY DEF SensorInv, PhaseInv
  <1>3. message = <<>> /\ table = <<>>
    BY <1>2 DEF SensorInv, PhaseInv
  <1>4. PhaseInv'
    BY <1>1, <1>2 DEF SensorInv, PhaseInv
  <1>5. IsIds(mKnownGroups)'
    BY <1>1 DEF SensorInv, IsIds
  <1>6. RowsInv'
    <2>1. table' \in Seq(Rows) /\ Len(table') = 0
      BY <1>1, <1>3
    <2> QED BY <2>1 DEF RowsInv
  <1>7. PageInv' /\ TableInv' /\ MessageInv'
    BY <1>1, <1>2 DEF PageInv, TableInv, MessageInv
  <1> QED BY <1>4, <1>5, <1>6, <1>7

LEMMA ParsersUnchanged ==
    ASSUME SensorInv, UNCHANGED <<mJSONSensorsParsers, values>>
    PROVE  ParsersInv' /\ ValuesInv'
  BY DEF SensorInv, ParsersInv, ValuesInv

LEMMA ConfigureSensorKeeps ==
    ASSUME SensorInv, ConfigureSensor
    PROVE  SensorInv'
  <1>1. PICK s \in Sensors : mSensorMap' = Put(mSensorMap, s.name, s)
    BY DEF ConfigureSensor
  <1>2. MapInv'
    <2>1. SensorMap(mSensorMap)
      BY DEF SensorInv, MapInv
    <2>2. SensorMap(Put(mSensorMap, s.name, s))
      BY <2>1, SensorPut
    <2> QED BY <1>1, <2>2 DEF MapInv
  <1>3. /\ PhaseInv' /\ IsIds(mKnownGroups)' /\ RowsInv' /\ PageInv'
        /\ TableInv' /\ MessageInv'
    BY <1>2, Building DEF ConfigureSensor
  <1>4. ParsersInv' /\ ValuesInv'
    BY ParsersUnchanged DEF ConfigureSensor
  <1> QED BY <1>2, <1>3, <1>4 DEF SensorInv

LEMMA EnableProviderKeeps ==
    ASSUME SensorInv, EnableProvider
    PROVE  SensorInv'
  <1> DEFINE Two(s, t) == Put(Put(<<>>, t.name, t), s.name, s)
  <1>1. PICK s \in Sensors, t \in Sensors :
             mSensorMap' = Insert(mSensorMap, Two(s, t))
    BY DEF EnableProvider
  <1>2. MapInv'
    <2>1. SensorMap(mSensorMap)
      BY DEF SensorInv, MapInv
    <2>2. SensorMap(Put(<<>>, t.name, t))
      BY NoSensors, SensorPut
    <2>3. SensorMap(Two(s, t))
      BY <2>2, SensorPut
    <2> HIDE DEF Two
    <2>4. SensorMap(Insert(mSensorMap, Two(s, t)))
      BY <2>1, <2>3, SensorsInserted
    <2> QED BY <1>1, <2>4 DEF MapInv
  <1>3. /\ PhaseInv' /\ IsIds(mKnownGroups)' /\ RowsInv' /\ PageInv'
        /\ TableInv' /\ MessageInv'
    BY <1>2, Building DEF EnableProvider
  <1>4. ParsersInv' /\ ValuesInv'
    BY ParsersUnchanged DEF EnableProvider
  <1> QED BY <1>2, <1>3, <1>4 DEF SensorInv

LEMMA EnableJSONProviderKeeps ==
    ASSUME SensorInv, EnableJSONProvider
    PROVE  SensorInv'
  <1>1. PICK group \in PluginGroups, desc \in Descriptions :
             AddJSONSensorProvider(group, desc)
    BY DEF EnableJSONProvider
  <1>2. MapInv'
    <2>1. SensorMap(mSensorMap)
      BY DEF SensorInv, MapInv
    <2>2. SensorMap(ByName(Parse(group, desc)))
      BY ParsedByName
    <2>3. SensorMap(Insert(mSensorMap, ByName(Parse(group, desc))))
      BY <2>1, <2>2, SensorsInserted
    <2>4. mSensorMap' = Insert(mSensorMap, ByName(Parse(group, desc)))
      BY <1>1 DEF AddJSONSensorProvider
    <2> QED BY <2>3, <2>4 DEF MapInv
  <1>3. /\ PhaseInv' /\ IsIds(mKnownGroups)' /\ RowsInv' /\ PageInv'
        /\ TableInv' /\ MessageInv'
    BY <1>2, Building DEF EnableJSONProvider
  <1>4. ParsersInv' /\ ValuesInv'
    <2>1. desc \in Seq(Entries)
      BY SensorAssumption
    <2> QED BY <1>1, <2>1, ParserAdded DEF SensorInv
  <1> QED BY <1>2, <1>3, <1>4 DEF SensorInv

\* How many sensors and pages there are.
LEMMA PagesOfMap ==
    ASSUME MapInv
    PROVE  /\ Order \in Seq(DOMAIN mSensorMap) /\ Len(Order) \in Nat
           /\ Len(Order) <= 254 * PerPage
           /\ PageCount(Len(Order)) \in 1..254 /\ StartingSensor(1) = 0
  <1> DEFINE D == DOMAIN mSensorMap
             c == Len(Order)
  <1>1. Order = Sorted(D) /\ D \in SUBSET SensorNames
    BY DEF MapInv, SensorMap, Order
  <1>2. Order \in Seq(D) /\ c \in Nat /\ c <= 254 * PerPage
    BY <1>1, OrderOf
  <1> HIDE DEF c
  <1>3. PageCount(c) \in 1..254 /\ StartingSensor(1) = 0
    BY <1>2, PageCountRange
  <1> QED BY <1>2, <1>3 DEF c

LEMMA NextPhaseKeeps ==
    ASSUME SensorInv, NextPhase
    PROVE  SensorInv'
  <1>1. /\ mSensorMap' = mSensorMap /\ mKnownGroups' = mKnownGroups
        /\ UNCHANGED <<mState, mCurrentPage, at, table, message>>
    BY DEF NextPhase, loopVars
  <1>2. MapInv'
    BY <1>1 DEF SensorInv, MapInv
  <1>3. IsIds(mKnownGroups)'
    BY <1>1 DEF SensorInv, IsIds
  <1>4. ParsersInv' /\ ValuesInv'
    BY ParsersUnchanged DEF NextPhase
  <1>5. phase \notin {"run", "cleared"}
    BY DEF NextPhase
  <1>6. /\ mState = "BasicInformation" /\ mCurrentPage = 1 /\ at = "idle"
        /\ message = <<>> /\ table = <<>>
    BY <1>5 DEF SensorInv, PhaseInv
  <1>7. RowsInv'
    <2>1. table' \in Seq(Rows) /\ Len(table') = 0
      BY <1>1, <1>6
    <2> QED BY <2>1 DEF RowsInv
  <1>8. MessageInv' /\ TableInv'
    BY <1>1, <1>6 DEF MessageInv, TableInv
  <1>9. PageInv'
    <2> DEFINE m == PageCount(Len(Order))
    <2>1. m \in 1..254
      BY PagesOfMap DEF SensorInv
    <2> HIDE DEF m
    <2>2. 1 \in 1..m /\ 1 \in 1..(m + 1)
      BY <2>1
    <2>3. Order' = Order
      BY <1>1 DEF Order
    <2> QED BY <1>1, <1>6, <2>2, <2>3 DEF PageInv, m
  <1>10. PhaseInv'
    <2>1. phase' \in Phases /\ phase' # "cleared"
      BY DEF NextPhase, Phases
    <2>2. phase' = "run" => mSize' = SizeOf(mSensorMap')
      BY <1>1 DEF NextPhase
    <2> QED BY <1>1, <1>6, <2>1, <2>2 DEF PhaseInv, Phases, States, Places
  <1> QED BY <1>2, <1>3, <1>4, <1>7, <1>8, <1>9, <1>10 DEF SensorInv

\* The sensors of a page.
LEMMA PageOfOrder ==
    ASSUME MapInv, NEW p \in 1..PageCount(Len(Order))
    PROVE  LET a == StartingSensor(p)
               b == SensorsOnPage(Len(Order), p)
           IN  /\ a \in Nat /\ b \in Nat /\ a + b = EndOf(p)
               /\ p = 1 => a = 0
               /\ p # 1 => a = EndOf(p - 1)
               /\ OnPage(p) \in Seq(DOMAIN mSensorMap)
               /\ Len(OnPage(p)) = b
               /\ \A k \in 1..b : OnPage(p)[k] = Order[a + k]
  <1> DEFINE D == DOMAIN mSensorMap
             c == Len(Order)
             m == PageCount(c)
             a == StartingSensor(p)
             b == SensorsOnPage(c, p)
  <1>1. /\ Order \in Seq(D) /\ c \in Nat /\ c <= 254 * PerPage
        /\ m \in 1..254 /\ StartingSensor(1) = 0
    BY PagesOfMap
  <1>2. /\ a \in Nat /\ b \in Nat /\ a + b <= c
        /\ p + 1 > m => a + b = c
        /\ p + 1 <= m => a + b = StartingSensor(p + 1)
    <2> HIDE DEF c
    <2>1. p \in 1..PageCount(c)
      BY DEF c
    <2> QED BY <1>1, <2>1, PageEnds
  <1>3. p \in 1..254 /\ p <= m
    <2>1. p \in 1..m
      OBVIOUS
    <2> HIDE DEF m
    <2> QED BY <1>1, <2>1
  <1>4. EndOf(p) = IF p + 1 > m THEN c ELSE StartingSensor(p + 1)
    BY DEF EndOf
  <1>5. EndOf(p - 1) = IF (p - 1) + 1 > m THEN c ELSE StartingSensor((p - 1) + 1)
    BY DEF EndOf
  <1>6. OnPage(p) = SubSeq(Order, a + 1, a + b)
    BY DEF OnPage
  <1>7. EndOf(p - 1) = StartingSensor(p)
    <2>1. (p - 1) + 1 = p
      BY <1>3
    <2> HIDE DEF m, c
    <2> QED BY <1>1, <1>3, <1>5, <2>1
  <1>8. a + b = EndOf(p)
    <2> HIDE DEF m, c, a, b
    <2> QED BY <1>1, <1>2, <1>3, <1>4
  <1>9. p = 1 => a = 0
    BY <1>1
  <1>10. a = EndOf(p - 1)
    BY <1>7
  <1> HIDE DEF a, b, c, m
  <1>11. /\ OnPage(p) \in Seq(D) /\ Len(OnPage(p)) = b
         /\ \A k \in 1..b : OnPage(p)[k] = Order[a + k]
    <2> DEFINE q == SubSeq(Order, a + 1, a + b)
    <2>1. \A i \in (a + 1)..(a + b) : i \in 1..c
      BY <1>1, <1>2
    <2>2. \A i \in 1..c : Order[i] \in D
      BY <1>1 DEF c
    <2>3. q \in Seq(D) /\ Len(q) = b
      <3>1. q \in Seq(D)
        BY <1>1, <1>2, <2>1, <2>2
      <3>2. Len(q) = IF a + 1 <= a + b THEN (a + b) - (a + 1) + 1 ELSE 0
        BY <1>1, <1>2
      <3> QED BY <1>2, <3>1, <3>2
    <2>4. \A k \in 1..b : q[k] = Order[a + k]
      <3> TAKE k \in 1..b
      <3>1. q[k] = Order[(a + 1) + k - 1]
        BY <1>1, <1>2
      <3>2. (a + 1) + k - 1 = a + k
        BY <1>2
      <3> QED BY <3>1, <3>2
    <2> QED BY <1>6, <2>3, <2>4
  <1> QED BY <1>2, <1>8, <1>9, <1>10, <1>11 DEF a, b, c

\* A line of the table stays true when more groups are known.
LEMMA RowKept ==
    ASSUME NEW row, NEW later, row.name \in DOMAIN mSensorMap,
           Says(row, row.name, mKnownGroups), Keeps(mKnownGroups, later)
    PROVE  Says(row, row.name, later)
  BY SaysKept

LEMMA GetDescriptionPageKeeps ==
    ASSUME SensorInv, GetDescriptionPage
    PROVE  SensorInv'
  <1> DEFINE c == Len(Order)
             p == mCurrentPage
             a == StartingSensor(p)
             b == SensorsOnPage(c, p)
             names == OnPage(p)
             told == Told(names)
             rows == told.lines
             old == IF p = 1 THEN <<>> ELSE table
             n == Len(old)
  <1>1. /\ phase = "run" /\ at = "page" /\ at' = "advance"
        /\ mKnownGroups' = told.known
        /\ table' = IF p = 1 THEN rows ELSE table \o rows
        /\ maxPages' = PageCount(c)
        /\ skewed' = (skewed /\ p # 1)
        /\ UNCHANGED <<phase, mSensorMap, mSize, message, mState, mCurrentPage>>
    BY DEF GetDescriptionPage, SensorInv, PhaseInv
  <1>2. p \in 1..PageCount(c) /\ mState # "MonitoringData"
        /\ p \in 1..(PageCount(c) + 1)
    BY <1>1 DEF SensorInv, PageInv
  <1>3. /\ a \in Nat /\ b \in Nat /\ a + b = EndOf(p)
        /\ p = 1 => a = 0
        /\ p # 1 => a = EndOf(p - 1)
        /\ names \in Seq(DOMAIN mSensorMap) /\ Len(names) = b
        /\ \A k \in 1..b : names[k] = Order[a + k]
    BY <1>2, PageOfOrder DEF SensorInv
  <1>4. /\ IsIds(told.known) /\ Keeps(mKnownGroups, told.known)
        /\ rows \in Seq(Rows) /\ Len(rows) = b
        /\ \A k \in 1..b : Says(rows[k], names[k], told.known)
    <2>1. MapInv /\ IsIds(mKnownGroups)
      BY DEF SensorInv
    <2> HIDE DEF names
    <2> QED BY <1>3, <2>1, ToldIs
  <1>5. Order' = Order
    BY <1>1 DEF Order
  <1>6. /\ old \in Seq(Rows) /\ n \in Nat
        /\ \A i \in 1..n : /\ old[i].name \in DOMAIN mSensorMap
                           /\ Says(old[i], old[i].name, mKnownGroups)
    <2>1. CASE p = 1
      BY <2>1
    <2>2. CASE p # 1
      <3>1. old = table
        BY <2>2
      <3> QED BY <3>1 DEF SensorInv, RowsInv
    <2> QED BY <2>1, <2>2
  <1> HIDE DEF a, b, names, told, rows
  <1>7. table' = old \o rows
    <2>1. CASE p = 1
      <3>1. <<>> \o rows = rows
        BY <1>4
      <3> QED BY <1>1, <2>1, <3>1
    <2>2. CASE p # 1
      BY <1>1, <2>2
    <2> QED BY <2>1, <2>2
  <1>8. /\ ~skewed' => n = a /\ \A i \in 1..a : old[i].name = Order[i]
    <2> SUFFICES ASSUME ~skewed'
                 PROVE  n = a /\ \A i \in 1..a : old[i].name = Order[i]
      OBVIOUS
    <2>1. CASE p = 1
      BY <1>3, <2>1
    <2>2. CASE p # 1
      <3>1. ~skewed /\ at # "advance" /\ mCurrentPage # 1
        BY <1>1, <2>2
      <3>2. FirstOf(EndOf(mCurrentPage - 1))
        BY <1>1, <3>1 DEF SensorInv, TableInv
      <3>3. FirstOf(a)
        BY <1>3, <2>2, <3>2
      <3> QED BY <2>2, <3>3 DEF FirstOf
    <2> QED BY <2>1, <2>2
  <1> HIDE DEF old, n
  <1>9. /\ table' \in Seq(Rows) /\ Len(table') = n + b
        /\ \A i \in 1..n : table'[i] = old[i]
        /\ \A i \in 1..b : table'[n + i] = rows[i]
    <2>1. table' \in Seq(Rows) /\ Len(table') = Len(old) + Len(rows)
      BY <1>4, <1>6, <1>7, ConcatProperties
    <2>2. \A i \in 1..Len(table') : table'[i] = IF i <= Len(old) THEN old[i]
                                                ELSE rows[i - Len(old)]
      BY <1>4, <1>6, <1>7, <2>1, ConcatProperties
    <2>3. Len(table') = n + b /\ Len(old) = n
      BY <1>4, <2>1 DEF n
    <2>4. \A i \in 1..n : table'[i] = old[i]
      BY <1>3, <1>6, <2>2, <2>3
    <2>5. \A i \in 1..b : table'[n + i] = rows[i]
      <3> TAKE i \in 1..b
      <3>1. n + i \in 1..(n + b) /\ ~(n + i <= n) /\ (n + i) - n = i
        BY <1>3, <1>6
      <3> QED BY <2>2, <2>3, <3>1
    <2> QED BY <2>1, <2>3, <2>4, <2>5
  <1>10. \A i \in 1..(n + b) : i \in 1..n \/ \E k \in 1..b : i = n + k
    <2> TAKE i \in 1..(n + b)
    <2>1. CASE i <= n
      BY <1>6, <2>1
    <2>2. CASE ~(i <= n)
      <3>1. i - n \in 1..b /\ i = n + (i - n)
        BY <1>3, <1>6, <2>2
      <3> QED BY <3>1
    <2> QED BY <2>1, <2>2
  <1>11. \A k \in 1..b : names[k] \in DOMAIN mSensorMap /\ rows[k].name = names[k]
    BY <1>3, <1>4 DEF Says
  <1>12. \A i \in 1..(n + b) :
            /\ table'[i].name \in DOMAIN mSensorMap
            /\ Says(table'[i], table'[i].name, mKnownGroups')
    <2> TAKE i \in 1..(n + b)
    <2>1. CASE i \in 1..n
      <3>1. table'[i] = old[i] /\ old[i].name \in DOMAIN mSensorMap
            /\ Says(old[i], old[i].name, mKnownGroups)
        BY <1>6, <1>9, <2>1
      <3> QED BY <1>1, <1>4, <3>1, RowKept
    <2>2. ASSUME NEW k \in 1..b, i = n + k
          PROVE  /\ table'[i].name \in DOMAIN mSensorMap
                 /\ Says(table'[i], table'[i].name, mKnownGroups')
      BY <1>1, <1>4, <1>9, <1>11, <2>2
    <2> QED BY <1>10, <2>1, <2>2
  <1>13. RowsInv'
    <2>1. \A i \in 1..(n + b) : /\ table'[i].name \in DOMAIN mSensorMap'
                                /\ (Says(table[i], table[i].name, mKnownGroups))'
      BY <1>1, <1>12 DEF Says
    <2> QED BY <1>9, <2>1 DEF RowsInv
  <1>14. TableInv'
    <2> SUFFICES ASSUME ~skewed' PROVE (FirstOf(EndOf(mCurrentPage)))'
      BY <1>1, <1>2 DEF TableInv
    <2>1. n = a /\ \A i \in 1..a : old[i].name = Order[i]
      BY <1>8
    <2>2. \A i \in 1..(a + b) : table'[i].name = Order'[i]
      BY <1>3, <1>5, <1>9, <1>10, <1>11, <2>1
    <2>3. Len(table') = a + b
      BY <1>9, <2>1
    <2>4. EndOf(mCurrentPage)' = EndOf(mCurrentPage)
      BY <1>1, <1>5 DEF EndOf
    <2>5. EndOf(mCurrentPage)' = a + b
      BY <1>3, <2>4
    <2> QED BY <2>2, <2>3, <2>5 DEF FirstOf
  <1>15. PageInv'
    BY <1>1, <1>2, <1>5 DEF PageInv
  <1>16. PhaseInv'
    <2>1. /\ mSize = SizeOf(mSensorMap) /\ mState \in States
          /\ mCurrentPage \in Nat
      BY <1>1 DEF SensorInv, PhaseInv
    <2>2. mSize' = SizeOf(mSensorMap')
      BY <1>1, <2>1
    <2> QED BY <1>1, <2>1, <2>2 DEF PhaseInv, Phases, Places
  <1>17. MapInv' /\ IsIds(mKnownGroups)'
    BY <1>1, <1>4 DEF SensorInv, MapInv
  <1>18. MessageInv'
    BY <1>1, <1>5 DEF SensorInv, MessageInv
  <1>19. ParsersInv' /\ ValuesInv'
    BY ParsersUnchanged DEF GetDescriptionPage
  <1> QED BY <1>13, <1>14, <1>15, <1>16, <1>17, <1>18, <1>19 DEF SensorInv

\* A step that leaves the sensors, the table and the data message alone.
LEMMA SetUnchanged ==
    ASSUME SensorInv,
           UNCHANGED <<phase, mSensorMap, mKnownGroups, mSize, table, message>>
    PROVE  /\ MapInv' /\ IsIds(mKnownGroups)' /\ RowsInv' /\ MessageInv'
           /\ Order' = Order
           /\ phase' = "run" => mSize' = SizeOf(mSensorMap')
           /\ phase' # "run" => table' = <<>>
  <1>1. Order' = Order
    BY DEF Order
  <1>2. MapInv' /\ IsIds(mKnownGroups)'
    BY DEF SensorInv, MapInv, IsIds
  <1>3. RowsInv' /\ MessageInv'
    BY <1>1 DEF SensorInv, RowsInv, Says, MessageInv
  <1>4. /\ phase' = "run" => mSize' = SizeOf(mSensorMap')
        /\ phase' # "run" => table' = <<>>
    BY DEF SensorInv, PhaseInv
  <1> QED BY <1>1, <1>2, <1>3, <1>4

\* The same, with the loop where it was.
LEMMA LoopUnchanged ==
    ASSUME SensorInv,
           UNCHANGED <<phase, mSensorMap, mKnownGroups, mSize, table, message,
                       mState, mCurrentPage, at, maxPages, skewed>>
    PROVE  /\ MapInv' /\ IsIds(mKnownGroups)' /\ RowsInv' /\ MessageInv'
           /\ PhaseInv' /\ PageInv' /\ TableInv'
  <1>1. /\ MapInv' /\ IsIds(mKnownGroups)' /\ RowsInv' /\ MessageInv'
        /\ Order' = Order
    BY SetUnchanged
  <1>2. PhaseInv' /\ PageInv'
    BY <1>1 DEF SensorInv, PhaseInv, PageInv
  <1>3. TableInv'
    BY <1>1 DEF SensorInv, TableInv, FirstOf, EndOf
  <1> QED BY <1>1, <1>2, <1>3

\* The steps of the loop and of a reset that move its place only.
LEMMA PlaceKeeps ==
    ASSUME SensorInv,
           \/ ChooseMessage \/ BasicWritten \/ Advance \/ TurnPage \/ TurnState
           \/ \E client \in TelnetClients : ResetStatemachine(client)
    PROVE  SensorInv'
  <1> DEFINE c == Len(Order)
             m == PageCount(c)
             p == mCurrentPage
             Place == UNCHANGED <<phase, mSensorMap, mKnownGroups, mSize, table,
                                  message, mJSONSensorsParsers, values>>
  <1>1. Place
    BY DEF ChooseMessage, BasicWritten, Advance, TurnPage, TurnState,
           ResetStatemachine, setVars
  <1>2. /\ MapInv' /\ IsIds(mKnownGroups)' /\ RowsInv' /\ MessageInv'
        /\ Order' = Order
        /\ phase' = "run" => mSize' = SizeOf(mSensorMap')
        /\ phase' # "run" => table' = <<>>
    BY <1>1, SetUnchanged
  <1>3. ParsersInv' /\ ValuesInv'
    BY <1>1, ParsersUnchanged
  <1>4. c \in Nat /\ m \in 1..254 /\ Len(Order') = c
    BY <1>2, PagesOfMap DEF SensorInv
  <1>5. \A k : EndOf(k) = IF k + 1 > m THEN c ELSE StartingSensor(k + 1)
    BY DEF EndOf
  <1>6. \A k : EndOf(k)' = EndOf(k)
    BY <1>2 DEF EndOf
  <1>7. \A k : FirstOf(k)' <=> FirstOf(k)
    BY <1>1, <1>2 DEF FirstOf
  <1>8. /\ phase \in Phases /\ mState \in States /\ at \in Places /\ p \in Nat
        /\ phase # "run" => at = "idle" /\ table = <<>>
        /\ phase \notin {"run", "cleared"} =>
              mState = "BasicInformation" /\ p = 1 /\ message = <<>>
    BY DEF SensorInv, PhaseInv
  <1>9. phase = "run" =>
            /\ p \in 1..(m + 1)
            /\ at # "turn" => p \in 1..m
            /\ at \in {"advance", "turn"} => maxPages = m
            /\ at = "turned" => p = 1
            /\ mState = "MonitoringData" => at = "idle"
    BY DEF SensorInv, PageInv
  <1>10. (phase = "run" /\ ~skewed) =>
            /\ at = "advance" => FirstOf(EndOf(p))
            /\ at # "advance" /\ p # 1 => FirstOf(EndOf(p - 1))
            /\ at = "turned" \/ mState = "MonitoringData" => FirstOf(c)
    BY DEF SensorInv, TableInv
  \* What is to be shown of the place the step leads to.
  <1> DEFINE
        NewPhase ==
            /\ mState' \in States /\ at' \in Places /\ p' \in Nat
            /\ phase # "run" => at' = "idle"
            /\ phase \notin {"run", "cleared"} =>
                  mState' = "BasicInformation" /\ p' = 1
        NewPage ==
            phase = "run" =>
                /\ p' \in 1..(m + 1)
                /\ at' # "turn" => p' \in 1..m
                /\ at' \in {"advance", "turn"} => maxPages' = m
                /\ at' = "turned" => p' = 1
                /\ mState' = "MonitoringData" => at' = "idle"
        NewTable ==
            (phase = "run" /\ ~skewed') =>
                /\ at' = "advance" => FirstOf(EndOf(p'))
                /\ at' # "advance" /\ p' # 1 => FirstOf(EndOf(p' - 1))
                /\ at' = "turned" \/ mState' = "MonitoringData" => FirstOf(c)
  <1>11. ASSUME NewPhase, NewPage, NewTable
         PROVE  SensorInv'
    <2>1. PhaseInv'
      BY <1>1, <1>2, <1>8, <1>11 DEF PhaseInv
    <2>2. PageInv'
      BY <1>1, <1>2, <1>11 DEF PageInv
    <2>3. TableInv'
      <3>1. /\ FirstOf(EndOf(p'))  => (FirstOf(EndOf(mCurrentPage)))'
            /\ FirstOf(EndOf(p' - 1)) => (FirstOf(EndOf(mCurrentPage - 1)))'
            /\ FirstOf(c) => (FirstOf(Len(Order)))'
        BY <1>1, <1>2 DEF FirstOf, EndOf
      <3> HIDE DEF c
      <3> QED BY <1>1, <1>11, <3>1 DEF TableInv
    <2> QED BY <1>2, <1>3, <2>1, <2>2, <2>3 DEF SensorInv
  <1> HIDE DEF c, m
  <1>12. CASE ChooseMessage
    <2>1. /\ at = "idle" /\ at' \in {"basic", "page"} /\ phase = "run"
          /\ mState # "MonitoringData"
          /\ UNCHANGED <<mState, mCurrentPage, maxPages, skewed>>
      BY <1>12 DEF ChooseMessage
    <2>2. NewPhase /\ NewPage /\ NewTable
      BY <1>8, <1>9, <1>10, <2>1 DEF Places
    <2> QED BY <1>11, <2>2
  <1>13. CASE BasicWritten
    <2>1. /\ at = "basic" /\ at' = "idle" /\ mState' = "MonitoringDescription"
          /\ UNCHANGED <<mCurrentPage, maxPages, skewed>>
      BY <1>13 DEF BasicWritten
    <2>2. NewPhase /\ NewPage /\ NewTable
      BY <1>8, <1>9, <1>10, <2>1 DEF Places, States
    <2> QED BY <1>11, <2>2
  <1>14. CASE Advance
    <2>1. /\ at = "advance" /\ at' = "turn" /\ p' = (p + 1) % 256
          /\ UNCHANGED <<mState, maxPages, skewed>>
      BY <1>14 DEF Advance
    <2>2. phase = "run" /\ p \in 1..254 /\ p <= m
      BY <1>4, <1>8, <1>9, <2>1
    <2>3. p' = p + 1 /\ p' - 1 = p
      BY <2>1, <2>2
    <2>4. mState # "MonitoringData"
      BY <1>9, <2>1, <2>2
    <2>5. p' \in 1..(m + 1) /\ p' # 1 /\ p' \in Nat
      BY <1>4, <2>2, <2>3
    <2>6. NewPhase /\ NewPage
      BY <1>8, <1>9, <2>1, <2>2, <2>4, <2>5 DEF Places
    <2>7. NewTable
      BY <1>10, <2>1, <2>2, <2>3, <2>4
    <2> QED BY <1>11, <2>6, <2>7
  <1>15. CASE TurnPage
    <2>1. /\ at = "turn"
          /\ IF p > maxPages THEN p' = 1 /\ at' = "turned"
             ELSE at' = "idle" /\ p' = p
          /\ UNCHANGED <<mState, maxPages, skewed>>
      BY <1>15 DEF TurnPage
    <2>2. phase = "run" /\ maxPages = m /\ p \in 1..(m + 1)
          /\ mState # "MonitoringData"
      BY <1>8, <1>9, <2>1
    <2>3. CASE p > maxPages
      <3>1. p = m + 1 /\ p # 1 /\ p - 1 = m /\ p' = 1 /\ at' = "turned"
        BY <1>4, <2>1, <2>2, <2>3
      <3>2. EndOf(m) = c
        <4>1. m + 1 > m
          BY <1>4
        <4> QED BY <1>5, <4>1
      <3>3. 1 \in 1..m /\ 1 \in 1..(m + 1)
        BY <1>4
      <3>4. ~skewed => FirstOf(c)
        BY <1>10, <2>1, <2>2, <3>1, <3>2
      <3>5. NewPhase /\ NewPage /\ NewTable
        BY <1>8, <2>1, <2>2, <3>1, <3>3, <3>4 DEF Places
      <3> QED BY <1>11, <3>5
    <2>4. CASE ~(p > maxPages)
      <3>1. p' = p /\ at' = "idle" /\ p \in 1..m
        BY <1>4, <2>1, <2>2, <2>4
      <3>2. NewPhase /\ NewPage /\ NewTable
        BY <1>8, <1>10, <2>1, <2>2, <3>1 DEF Places
      <3> QED BY <1>11, <3>2
    <2> QED BY <2>3, <2>4
  <1>16. CASE TurnState
    <2>1. /\ at = "turned" /\ at' = "idle" /\ mState' = "MonitoringData"
          /\ UNCHANGED <<mCurrentPage, maxPages, skewed>>
      BY <1>16 DEF TurnState
    <2>2. phase = "run" /\ p = 1
      BY <1>8, <1>9, <2>1
    <2>3. NewPhase /\ NewPage /\ NewTable
      BY <1>8, <1>9, <1>10, <2>1, <2>2 DEF Places, States
    <2> QED BY <1>11, <2>3
  <1>17. ASSUME NEW client \in TelnetClients, ResetStatemachine(client)
         PROVE  SensorInv'
    <2>1. at' = at /\ maxPages' = maxPages
      BY <1>17 DEF ResetStatemachine
    <2>2. CASE telnet[client] = "state"
      <3>1. mState' = "BasicInformation" /\ p' = p /\ skewed' = skewed
        BY <1>17, <2>2 DEF ResetStatemachine
      <3>2. NewPhase /\ NewPage /\ NewTable
        BY <1>8, <1>9, <1>10, <2>1, <3>1 DEF States
      <3> QED BY <1>11, <3>2
    <2>3. CASE telnet[client] # "state"
      <3>1. /\ mState' = mState /\ p' = 1
            /\ skewed' = (skewed \/ (at = "advance" /\ p # 1))
        BY <1>17, <2>3 DEF ResetStatemachine
      <3>2. 1 \in 1..m /\ 1 \in 1..(m + 1) /\ 1 \in Nat
        BY <1>4
      <3>3. NewPhase
        BY <1>8, <2>1, <3>1
      <3>4. NewPage
        BY <1>9, <2>1, <3>1, <3>2
      <3>5. NewTable
        BY <1>10, <2>1, <3>1
      <3> QED BY <1>11, <3>3, <3>4, <3>5
    <2> QED BY <2>2, <2>3
  <1> QED BY <1>12, <1>13, <1>14, <1>15, <1>16, <1>17

LEMMA GetMessageKeeps ==
    ASSUME SensorInv, GetMessage
    PROVE  SensorInv'
  <1> DEFINE M == mJSONSensorsParsers
  <1>1. /\ phase = "run" /\ M' = M
        /\ UNCHANGED <<phase, mSensorMap, mKnownGroups, mSize, table, mState,
                       mCurrentPage, at, maxPages, skewed>>
    BY DEF GetMessage
  <1>2. Order' = Order
    BY <1>1 DEF Order
  <1>3. /\ MapInv' /\ IsIds(mKnownGroups)' /\ RowsInv' /\ PhaseInv'
        /\ PageInv' /\ TableInv'
    <2>1. MapInv' /\ IsIds(mKnownGroups)' /\ PhaseInv'
      BY <1>1 DEF SensorInv, MapInv, IsIds, PhaseInv
    <2>2. RowsInv' /\ PageInv'
      BY <1>1, <1>2 DEF SensorInv, RowsInv, Says, PageInv
    <2>3. TableInv'
      BY <1>1, <1>2 DEF SensorInv, TableInv, FirstOf, EndOf
    <2> QED BY <2>1, <2>2, <2>3
  <1>4. MessageInv'
    <2>1. message' = [i \in DOMAIN Order |->
                         [name |-> Order[i], size |-> mSensorMap[Order[i]].size]]
      BY DEF GetMessage
    <2> QED BY <1>1, <1>2, <2>1 DEF MessageInv
  <1>5. ParsersInv'
    BY <1>1 DEF SensorInv, ParsersInv
  <1>6. PICK enough \in SUBSET DOMAIN M, usable \in SUBSET DOMAIN values :
             values' = [s \in DOMAIN values |->
                           IF s.json \in enough /\ s \in usable
                           THEN FieldFor(M[s.json], s) ELSE values[s]]
    BY DEF GetMessage
  <1>7. ASSUME NEW s \in DOMAIN values, ~s.shifted
        PROVE  FieldFor(M[s.json], s) = s.field
    <2> DEFINE p == M[s.json]
               k == CHOOSE i \in DOMAIN p : p[i] = s
    <2>1. s.json \in DOMAIN M /\ \E i \in DOMAIN p : p[i] = s
      BY DEF SensorInv, ValuesInv
    <2>2. k \in DOMAIN p /\ p[k] = s
      <3> HIDE DEF p
      <3> QED BY <2>1, Zenon
    <2>3. FieldFor(p, s) = k
      BY DEF FieldFor
    <2> HIDE DEF k
    <2>4. s.field = k
      BY <1>7, <2>1, <2>2 DEF SensorInv, ParsersInv
    <2> QED BY <2>3, <2>4
  <1>8. ValuesInv'
    <2>1. DOMAIN values' = DOMAIN values
      BY <1>6
    <2>2. ASSUME NEW s \in DOMAIN values, ~s.shifted
          PROVE  values'[s] \in {0, s.field}
      <3>1. values[s] \in {0, s.field}
        BY <2>2 DEF SensorInv, ValuesInv
      <3>2. FieldFor(M[s.json], s) = s.field
        BY <1>7, <2>2
      <3>3. values'[s] = IF s.json \in enough /\ s \in usable
                         THEN FieldFor(M[s.json], s) ELSE values[s]
        BY <1>6
      <3> QED BY <3>1, <3>2, <3>3
    <2> QED BY <1>1, <2>1, <2>2 DEF SensorInv, ValuesInv
  <1> QED BY <1>3, <1>4, <1>5, <1>8 DEF SensorInv

LEMMA AddSensorsKeeps ==
    ASSUME SensorInv, NEW client \in TelnetClients, AddSensors(client)
    PROVE  SensorInv'
  <1>1. PICK group \in TelnetGroups, desc \in Descriptions :
             AddJSONSensorProvider(group, Lowered(desc))
    BY DEF AddSensors
  <1>2. Lowered(desc) \in Seq(Entries) /\ Parse(group, Lowered(desc)) = <<>>
    BY NothingParsed
  <1>3. mSensorMap' = mSensorMap
    <2>1. mSensorMap' = Insert(mSensorMap, ByName(<<>>))
      BY <1>1, <1>2 DEF AddJSONSensorProvider
    <2>2. mSensorMap = [n \in DOMAIN mSensorMap |-> mSensorMap[n]]
      BY DEF SensorInv, MapInv, SensorMap
    <2> QED BY <2>1, <2>2, MapUnchanged
  <1>4. UNCHANGED <<phase, mKnownGroups, mSize, table, message, mState,
                    mCurrentPage, at, maxPages, skewed>>
    BY DEF AddSensors, loopVars
  <1>5. /\ MapInv' /\ IsIds(mKnownGroups)' /\ RowsInv' /\ MessageInv'
        /\ PhaseInv' /\ PageInv' /\ TableInv'
    BY <1>3, <1>4, LoopUnchanged
  <1>6. ParsersInv' /\ ValuesInv'
    BY <1>1, <1>2, ParserAdded DEF SensorInv
  <1> QED BY <1>5, <1>6 DEF SensorInv

LEMMA ClearKeeps ==
    ASSUME SensorInv, Clear
    PROVE  SensorInv'
  <1>1. /\ phase' = "cleared" /\ mSensorMap' = <<>>
        /\ mJSONSensorsParsers' = <<>> /\ mKnownGroups' = <<>>
        /\ values' = <<>> /\ table' = <<>> /\ at = "idle"
        /\ UNCHANGED <<mState, mCurrentPage, at>>
    BY DEF Clear
  <1>2. MapInv'
    BY <1>1, NoSensors DEF MapInv
  <1>3. PhaseInv'
    <2>1. mCurrentPage \in Nat /\ mState \in States
      BY DEF SensorInv, PhaseInv
    <2> QED BY <1>1, <2>1 DEF PhaseInv, Phases, Places
  <1>4. IsIds(mKnownGroups)'
    <2>1. mKnownGroups' \in [{} -> 1..255]
      BY <1>1
    <2>2. mKnownGroups' \in IdMaps
      BY <2>1 DEF IdMaps
    <2>3. DOMAIN mKnownGroups' = {}
      BY <1>1
    <2>4. IsFiniteSet({}) /\ Cardinality({}) = 0
      BY FS_EmptySet
    <2>5. 0 <= GroupLimit
      BY SensorAssumption
    <2> QED BY <2>2, <2>3, <2>4, <2>5 DEF IsIds
  <1>5. RowsInv'
    <2>1. table' \in Seq(Rows) /\ Len(table') = 0
      BY <1>1
    <2> QED BY <2>1 DEF RowsInv
  <1>6. PageInv' /\ TableInv' /\ MessageInv'
    BY <1>1 DEF PageInv, TableInv, MessageInv
  <1>7. ParsersInv' /\ ValuesInv'
    BY <1>1 DEF ParsersInv, ValuesInv
  <1> QED BY <1>2, <1>3, <1>4, <1>5, <1>6, <1>7 DEF SensorInv

LEMMA SensorStep == SensorInv /\ [Next]_vars => SensorInv'
  <1> SUFFICES ASSUME SensorInv, [Next]_vars PROVE SensorInv'
    OBVIOUS
  <1>1. CASE ConfigureSensor
    BY <1>1, ConfigureSensorKeeps
  <1>2. CASE EnableProvider
    BY <1>2, EnableProviderKeeps
  <1>3. CASE EnableJSONProvider
    BY <1>3, EnableJSONProviderKeeps
  <1>4. CASE NextPhase
    BY <1>4, NextPhaseKeeps
  <1>5. CASE GetDescriptionPage
    BY <1>5, GetDescriptionPageKeeps
  <1>6. CASE GetMessage
    BY <1>6, GetMessageKeeps
  <1>7. ASSUME NEW client \in TelnetClients, AddSensors(client)
        PROVE  SensorInv'
    BY <1>7, AddSensorsKeeps
  <1>8. CASE Clear
    BY <1>8, ClearKeeps
  <1>9. CASE \/ ChooseMessage \/ BasicWritten \/ Advance \/ TurnPage \/ TurnState
             \/ \E client \in TelnetClients : ResetStatemachine(client)
    BY <1>9, PlaceKeeps
  <1>10. CASE UNCHANGED vars
    <2>1. /\ UNCHANGED <<phase, mSensorMap, mKnownGroups, mSize, table, message,
                         mState, mCurrentPage, at, maxPages, skewed>>
          /\ UNCHANGED <<mJSONSensorsParsers, values>>
      BY <1>10 DEF vars, setVars, loopVars
    <2>2. /\ MapInv' /\ IsIds(mKnownGroups)' /\ RowsInv' /\ MessageInv'
          /\ PhaseInv' /\ PageInv' /\ TableInv'
      BY <2>1, LoopUnchanged
    <2>3. ParsersInv' /\ ValuesInv'
      BY <2>1, ParsersUnchanged
    <2> QED BY <2>2, <2>3 DEF SensorInv
  <1> QED BY <1>1, <1>2, <1>3, <1>4, <1>5, <1>6, <1>7, <1>8, <1>9, <1>10
          DEF Next, MainLoop

LEMMA SensorInvHolds == Spec => []SensorInv
  BY SensorInit, SensorStep, PTL DEF Spec

-----------------------------------------------------------------------------
(* The properties.                                                         *)

\* What the invariant says of a description that is complete.
LEMMA TableIsOrder ==
    ASSUME SensorInv, Complete
    PROVE  /\ DOMAIN table = DOMAIN Order
           /\ \A i \in DOMAIN table : /\ table[i].name = Order[i]
                                      /\ table[i].size = mSensorMap[Order[i]].size
           /\ Order = [i \in DOMAIN Order |-> Order[i]]
  <1>1. Order \in Seq(DOMAIN mSensorMap)
    BY OrderOf DEF SensorInv, MapInv, SensorMap, Order
  <1>2. Len(table) = Len(Order)
        /\ \A i \in 1..Len(table) : table[i].name = Order[i]
    BY DEF SensorInv, TableInv, Complete, FirstOf
  <1>3. table \in Seq(Rows)
    BY DEF SensorInv, RowsInv
  <1>4. \A i \in 1..Len(table) : /\ table[i].name = Order[i]
                                 /\ table[i].size = mSensorMap[Order[i]].size
    BY <1>2 DEF SensorInv, RowsInv, Says
  <1>5. DOMAIN table = 1..Len(table) /\ DOMAIN Order = 1..Len(Order)
    BY <1>1, <1>3
  <1>6. Order = [i \in DOMAIN Order |-> Order[i]]
    BY <1>1
  <1> QED BY <1>2, <1>4, <1>5, <1>6

(***************************************************************************)
(* In the data phase the pages since the last page 1 describe every sensor *)
(* once and in the order of the data message (getDescriptionPage,          *)
(* SensorSet.cpp; Daemon.cpp:466-480), for every buffer size, every set of *)
(* sensors that has room in 254 pages and every number of telnet clients   *)
(* whose resets fall between any two steps of the loop, unless one sets    *)
(* mCurrentPage between the description of a page and its increment.       *)
(***************************************************************************)
THEOREM DescriptionIsComplete == Spec => []DescriptionComplete
  <1>1. SensorInv => DescriptionComplete
    <2> SUFFICES ASSUME SensorInv, Complete
                 PROVE  [i \in DOMAIN table |-> table[i].name] = Order
      BY DEF DescriptionComplete
    <2> QED BY TableIsOrder
  <1> QED BY <1>1, SensorInvHolds, PTL

(***************************************************************************)
(* Two sensors have the same group id exactly when they are in the same    *)
(* group, and id 0 only without a group or when the ids are used up        *)
(* (getGroupId, SensorSet.cpp), across all pages of all descriptions.      *)
(***************************************************************************)
THEOREM GroupIdsAreFaithful == Spec => []GroupIdsFaithful
  <1>1. SensorInv => GroupIdsFaithful
    <2> SUFFICES ASSUME SensorInv, phase = "run",
                        NEW i \in DOMAIN table, NEW j \in DOMAIN table
                 PROVE  LET g == mSensorMap[table[i].name].group
                            h == mSensorMap[table[j].name].group
                        IN  /\ table[i].group # 0 =>
                                  (g = h <=> table[i].group = table[j].group)
                            /\ table[i].group = 0 =>
                                  \/ g = NoGroup
                                  \/ Cardinality(DOMAIN mKnownGroups) = GroupLimit
      BY DEF GroupIdsFaithful
    <2> DEFINE g == mSensorMap[table[i].name].group
               h == mSensorMap[table[j].name].group
    <2>1. i \in 1..Len(table) /\ j \in 1..Len(table)
      BY DEF SensorInv, RowsInv
    <2>2. Stated(mKnownGroups, g, table[i].group)
      BY <2>1 DEF SensorInv, RowsInv, Says
    <2>3. Stated(mKnownGroups, h, table[j].group)
      BY <2>1 DEF SensorInv, RowsInv, Says
    <2>4. /\ NoGroup \notin DOMAIN mKnownGroups
          /\ \A x, y \in DOMAIN mKnownGroups :
                mKnownGroups[x] = mKnownGroups[y] => x = y
      BY DEF SensorInv, IsIds
    <2> HIDE DEF g, h
    <2>5. table[i].group # 0 => (g = h <=> table[i].group = table[j].group)
      BY <2>2, <2>3, <2>4 DEF Stated
    <2>6. table[i].group = 0 =>
              g = NoGroup \/ Cardinality(DOMAIN mKnownGroups) = GroupLimit
      BY <2>2 DEF Stated
    <2> QED BY <2>5, <2>6 DEF g, h
  <1> QED BY <1>1, SensorInvHolds, PTL

(***************************************************************************)
(* A data message fills the buffer that the constructor allocated, and its *)
(* values lie where the description the controller last received in full   *)
(* says (getMessage, SensorSet.cpp).                                       *)
(***************************************************************************)
THEOREM DataFitsTheDescription == Spec => []DataFitsDescription
  <1>1. SensorInv => DataFitsDescription
    <2> SUFFICES ASSUME SensorInv, Complete, message # <<>>
                 PROVE  /\ SizeOf(mSensorMap) = mSize
                        /\ message = [i \in DOMAIN table |->
                              [name |-> table[i].name, size |-> table[i].size]]
      BY DEF DataFitsDescription
    <2>1. SizeOf(mSensorMap) = mSize
      BY DEF SensorInv, PhaseInv, Complete
    <2>2. message = [i \in DOMAIN Order |->
                        [name |-> Order[i], size |-> mSensorMap[Order[i]].size]]
      BY DEF SensorInv, MessageInv, Complete
    <2> QED BY <2>1, <2>2, TableIsOrder
  <1> QED BY <1>1, SensorInvHolds, PTL

(***************************************************************************)
(* A JSON sensor that no invalid entry precedes only ever shows the field  *)
(* its own entry stands for (updateSensors, JSONSensorsParser.cpp),        *)
(* whatever the order of the names and the sensors that took its place.    *)
(***************************************************************************)
THEOREM ValuesAreFromOwnField == Spec => []ValuesFromOwnField
  <1>1. SensorInv => ValuesFromOwnField
    BY DEF SensorInv, ValuesInv, ValuesFromOwnField
  <1> QED BY <1>1, SensorInvHolds, PTL

\* When the data phase begins, the description names exactly the sensors of
\* the map, each once and in increasing order.
SensorsDescribedOnce ==
    Complete =>
        /\ {table[i].name : i \in DOMAIN table} = DOMAIN mSensorMap
        /\ \A i, j \in DOMAIN table : i < j => table[i].name < table[j].name

(***************************************************************************)
(* The order that description and data message share is the order of the   *)
(* map: no sensor is missing from it and none is there twice.              *)
(***************************************************************************)
THEOREM EverySensorDescribedOnce == Spec => []SensorsDescribedOnce
  <1>1. SensorInv => SensorsDescribedOnce
    <2> SUFFICES ASSUME SensorInv, Complete
                 PROVE  /\ {table[i].name : i \in DOMAIN table} = DOMAIN mSensorMap
                        /\ \A i, j \in DOMAIN table :
                              i < j => table[i].name < table[j].name
      BY DEF SensorsDescribedOnce
    <2>1. /\ Order \in Seq(DOMAIN mSensorMap)
          /\ \A i, j \in 1..Len(Order) : i < j => Order[i] < Order[j]
          /\ \A n \in DOMAIN mSensorMap : \E i \in 1..Len(Order) : Order[i] = n
      BY OrderOf DEF SensorInv, MapInv, SensorMap, Order
    <2>2. DOMAIN Order = 1..Len(Order) /\ \A i \in DOMAIN Order : Order[i] \in DOMAIN mSensorMap
      BY <2>1
    <2>3. DOMAIN table = DOMAIN Order /\ \A i \in DOMAIN table : table[i].name = Order[i]
      BY TableIsOrder
    <2>4. {table[i].name : i \in DOMAIN table} = DOMAIN mSensorMap
      <3>1. \A i \in DOMAIN table : table[i].name \in DOMAIN mSensorMap
        BY <2>2, <2>3
      <3>2. ASSUME NEW n \in DOMAIN mSensorMap
            PROVE  \E i \in DOMAIN table : table[i].name = n
        <4>1. PICK i \in 1..Len(Order) : Order[i] = n
          BY <2>1
        <4>2. i \in DOMAIN table /\ table[i].name = n
          BY <2>2, <2>3, <4>1
        <4> QED BY <4>2
      <3> QED BY <3>1, <3>2
    <2>5. \A i, j \in DOMAIN table : i < j => table[i].name < table[j].name
      BY <2>1, <2>2, <2>3
    <2> QED BY <2>4, <2>5
  <1> QED BY <1>1, SensorInvHolds, PTL

\* While the daemon runs, no step changes a sensor, the size of the buffer or
\* the id of a group.
ToldStays ==
    (phase = "run" /\ phase' = "run") =>
        /\ UNCHANGED <<mSensorMap, mSize>>
        /\ \A g \in DOMAIN mKnownGroups :
              g \in DOMAIN mKnownGroups' /\ mKnownGroups'[g] = mKnownGroups[g]

(***************************************************************************)
(* What the controller was told about sensors and groups stays true until  *)
(* clear: pages that are sent again hand out the same ids, and an accepted *)
(* addsensors changes no sensor, since the entries of a telnet line are    *)
(* never valid (SensorSet.cpp and JSONSensorsParser.cpp).                  *)
(***************************************************************************)
THEOREM ToldIsKept == Spec => [][ToldStays]_vars
  <1>1. SensorInv /\ [Next]_vars => [ToldStays]_vars
    <2> SUFFICES ASSUME SensorInv, Next, phase = "run", phase' = "run"
                 PROVE  /\ UNCHANGED <<mSensorMap, mSize>>
                        /\ \A g \in DOMAIN mKnownGroups :
                              /\ g \in DOMAIN mKnownGroups'
                              /\ mKnownGroups'[g] = mKnownGroups[g]
      BY DEF ToldStays
    <2>1. CASE GetDescriptionPage
      <3> DEFINE told == Told(OnPage(mCurrentPage))
      <3>1. /\ at = "page" /\ mKnownGroups' = told.known
            /\ mSensorMap' = mSensorMap /\ mSize' = mSize
        BY <2>1 DEF GetDescriptionPage
      <3>2. OnPage(mCurrentPage) \in Seq(DOMAIN mSensorMap)
        <4>1. mCurrentPage \in 1..PageCount(Len(Order)) /\ MapInv
          BY <3>1 DEF SensorInv, PageInv
        <4> QED BY <4>1, PageOfOrder
      <3>3. Keeps(mKnownGroups, told.known)
        BY <3>2, ToldIs DEF SensorInv
      <3>4. ASSUME NEW g \in DOMAIN mKnownGroups
            PROVE  g \in DOMAIN told.known /\ told.known[g] = mKnownGroups[g]
        <4> DEFINE id == mKnownGroups[g]
        <4>1. id \in 1..255
          BY <3>4, IdTypes DEF SensorInv
        <4> HIDE DEF id
        <4>2. id # 0
          BY <4>1
        <4>3. Stated(mKnownGroups, g, id)
          BY <3>4, <4>2 DEF Stated, id
        <4> HIDE DEF told
        <4>4. Stated(told.known, g, id)
          BY <3>3, <4>3 DEF Keeps
        <4> QED BY <4>2, <4>4 DEF Stated, id
      <3> HIDE DEF told
      <3> QED BY <3>1, <3>4
    <2>2. ASSUME NEW client \in TelnetClients, AddSensors(client)
          PROVE  UNCHANGED <<mSensorMap, mSize, mKnownGroups>>
      <3>1. PICK group \in TelnetGroups, desc \in Descriptions :
                 AddJSONSensorProvider(group, Lowered(desc))
        BY <2>2 DEF AddSensors
      <3>2. mSensorMap' = Insert(mSensorMap, ByName(<<>>))
        BY <3>1, NothingParsed DEF AddJSONSensorProvider
      <3>3. mSensorMap = [n \in DOMAIN mSensorMap |-> mSensorMap[n]]
        BY DEF SensorInv, MapInv, SensorMap
      <3>4. mSensorMap' = mSensorMap
        BY <3>2, <3>3, MapUnchanged
      <3> QED BY <2>2, <3>4 DEF AddSensors
    <2>3. CASE GetMessage
      BY <2>3 DEF GetMessage
    <2>4. CASE \/ ChooseMessage \/ BasicWritten \/ Advance \/ TurnPage \/ TurnState
               \/ \E client \in TelnetClients : ResetStatemachine(client)
      BY <2>4 DEF ChooseMessage, BasicWritten, Advance, TurnPage, TurnState,
                  ResetStatemachine, setVars
    <2> QED BY <2>1, <2>2, <2>3, <2>4
            DEF Next, MainLoop, ConfigureSensor, EnableProvider,
                EnableJSONProvider, NextPhase, Clear
  <1> QED BY <1>1, SensorInvHolds, PTL DEF Spec
=============================================================================
