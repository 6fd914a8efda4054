---------------------------- MODULE Config_proofs ----------------------------
(***************************************************************************)
(* Proofs about Config, for every file, every set of settings and values   *)
(* and every number of starts and changes.                                 *)
(***************************************************************************)
EXTENDS Config, NaturalFacts, SequenceTheorems

-----------------------------------------------------------------------------
(* The list.                                                               *)

Records(T) == [key : STRING, value : T, comments : Seq(Nat)]
Sections(T) == [name : STRING, comments : Seq(Nat), data : Seq(Records(T))]

\* Section names and the keys of a section are unique, and a section without
\* a name has no records.
IsList(c, T) ==
    /\ c \in Seq(Sections(T))
    /\ \A i, j \in 1..Len(c) : c[i].name = c[j].name => i = j
    /\ \A i \in 1..Len(c) : \A j, k \in 1..Len(c[i].data) :
          c[i].data[j].key = c[i].data[k].key => j = k
    /\ \A i \in 1..Len(c) : c[i].name = "" => c[i].data = <<>>

\* What is found is the first one; 0 means that there is none.
LEMMA FirstPosition ==
    ASSUME NEW I \in SUBSET Nat, I # {}
    PROVE  Min(I) \in I
  BY LeastElement DEF Min

LEMMA SectionFound ==
    ASSUME NEW c, Len(c) \in Nat, NEW sec
    PROVE  LET i == get_section(c, sec) IN
           \/ i = 0 /\ \A k \in 1..Len(c) : c[k].name # sec
           \/ i \in 1..Len(c) /\ c[i].name = sec
  <1> DEFINE I == {k \in 1..Len(c) : c[k].name = sec}
  <1>1. get_section(c, sec) = IF I # {} THEN Min(I) ELSE 0
    BY DEF get_section, SelectInSeq
  <1>2. I \in SUBSET Nat
    OBVIOUS
  <1>3. I # {} => Min(I) \in I
    BY <1>2, FirstPosition
  <1> QED BY <1>1, <1>3

LEMMA RecordFound ==
    ASSUME NEW section, Len(section.data) \in Nat, NEW key
    PROVE  LET j == get_record(section, key) IN
           \/ j = 0 /\ \A k \in 1..Len(section.data) : section.data[k].key # key
           \/ j \in 1..Len(section.data) /\ section.data[j].key = key
  <1> DEFINE I == {k \in 1..Len(section.data) : section.data[k].key = key}
  <1>1. get_record(section, key) = IF I # {} THEN Min(I) ELSE 0
    BY DEF get_record, SelectInSeq
  <1>2. I \in SUBSET Nat
    OBVIOUS
  <1>3. I # {} => Min(I) \in I
    BY <1>2, FirstPosition
  <1> QED BY <1>1, <1>3

\* What a list consists of.
LEMMA ListTypes ==
    ASSUME NEW T, NEW c, IsList(c, T)
    PROVE  /\ c \in Seq(Sections(T)) /\ Len(c) \in Nat
           /\ DOMAIN c = 1..Len(c)
           /\ \A i \in 1..Len(c) :
                 /\ c[i] \in Sections(T) /\ c[i].name \in STRING
                 /\ c[i].comments \in Seq(Nat)
                 /\ c[i].data \in Seq(Records(T))
                 /\ Len(c[i].data) \in Nat
                 /\ DOMAIN c[i].data = 1..Len(c[i].data)
                 /\ \A j \in 1..Len(c[i].data) :
                       /\ c[i].data[j] \in Records(T)
                       /\ c[i].data[j].key \in STRING
                       /\ c[i].data[j].value \in T
                       /\ c[i].data[j].comments \in Seq(Nat)
  <1>0. c \in Seq(Sections(T))
    BY DEF IsList
  <1>1. c \in Seq(Sections(T)) /\ Len(c) \in Nat /\ DOMAIN c = 1..Len(c)
    BY <1>0
  <1>2. ASSUME NEW i \in 1..Len(c)
        PROVE  /\ c[i] \in Sections(T) /\ c[i].name \in STRING
               /\ c[i].comments \in Seq(Nat)
               /\ c[i].data \in Seq(Records(T))
    <2>1. c[i] \in Sections(T)
      BY <1>1
    <2> QED BY <2>1 DEF Sections
  <1>3. ASSUME NEW i \in 1..Len(c)
        PROVE  /\ Len(c[i].data) \in Nat
               /\ DOMAIN c[i].data = 1..Len(c[i].data)
               /\ \A j \in 1..Len(c[i].data) :
                       /\ c[i].data[j] \in Records(T)
                       /\ c[i].data[j].key \in STRING
                       /\ c[i].data[j].value \in T
                       /\ c[i].data[j].comments \in Seq(Nat)
    <2> DEFINE data == c[i].data
    <2>1. data \in Seq(Records(T))
      BY <1>2
    <2> HIDE DEF data
    <2>2. Len(data) \in Nat /\ DOMAIN data = 1..Len(data)
      BY <2>1
    <2>3. \A j \in 1..Len(data) : data[j] \in Records(T)
      BY <2>1, <2>2
    <2>4. \A j \in 1..Len(data) :
             /\ data[j].key \in STRING /\ data[j].value \in T
             /\ data[j].comments \in Seq(Nat)
      BY <2>3 DEF Records
    <2> QED BY <2>2, <2>3, <2>4 DEF data
  <1> QED BY <1>1, <1>2, <1>3

\* A record is found under the name of its section and its key.
LEMMA ValueAt ==
    ASSUME NEW T, NEW c, IsList(c, T), NEW i \in 1..Len(c),
           NEW j \in 1..Len(c[i].data)
    PROVE  get_value(c, c[i].name, c[i].data[j].key) = c[i].data[j].value
  <1> DEFINE sec == c[i].name
             key == c[i].data[j].key
             a == get_section(c, sec)
             b == get_record(c[i], key)
  <1>1. Len(c) \in Nat /\ Len(c[i].data) \in Nat
    BY ListTypes
  <1>2. a = i
    <2>1. \/ a = 0 /\ \A k \in 1..Len(c) : c[k].name # sec
          \/ a \in 1..Len(c) /\ c[a].name = sec
      BY <1>1, SectionFound
    <2> HIDE DEF a
    <2> QED BY <2>1 DEF IsList
  <1>3. b = j
    <2>1. \/ b = 0 /\ \A k \in 1..Len(c[i].data) : c[i].data[k].key # key
          \/ b \in 1..Len(c[i].data) /\ c[i].data[b].key = key
      BY <1>1, RecordFound
    <2> HIDE DEF b
    <2> QED BY <2>1 DEF IsList
  <1>4. i # 0 /\ j # 0
    BY <1>1
  <1> QED BY <1>2, <1>3, <1>4 DEF get_value

\* A record of the list is about s.
Recorded(c, s) ==
    \E i \in 1..Len(c) : \E j \in 1..Len(c[i].data) :
        s = <<c[i].name, c[i].data[j].key>>

IsFunction(m) == m = [s \in DOMAIN m |-> m[s]]

\* The settings of a list are those of its records.
LEMMA SettingsAre ==
    ASSUME NEW T, NEW c, IsList(c, T)
    PROVE  /\ IsFunction(SettingsOf(c))
           /\ \A s : s \in DOMAIN SettingsOf(c) <=> Recorded(c, s)
           /\ \A i \in 1..Len(c) : \A j \in 1..Len(c[i].data) :
                 /\ <<c[i].name, c[i].data[j].key>> \in DOMAIN SettingsOf(c)
                 /\ SettingsOf(c)[<<c[i].name, c[i].data[j].key>>]
                       = c[i].data[j].value
  <1> DEFINE Here(i) == {<<c[i].name, c[i].data[j].key>> :
                            j \in DOMAIN c[i].data}
             R == UNION {Here(i) : i \in DOMAIN c}
             m == SettingsOf(c)
  <1>1. m = [s \in R |-> get_value(c, s[1], s[2])]
    BY DEF SettingsOf
  <1>2. \A s : s \in R <=>
           \E i \in 1..Len(c) : \E j \in 1..Len(c[i].data) :
              s = <<c[i].name, c[i].data[j].key>>
    <2>1. \A s : s \in R <=> \E i \in DOMAIN c : s \in Here(i)
      <3> HIDE DEF Here
      <3> QED OBVIOUS
    <2>2. DOMAIN c = 1..Len(c)
      BY ListTypes
    <2>3. \A i \in 1..Len(c) : DOMAIN c[i].data = 1..Len(c[i].data)
      BY ListTypes
    <2>4. ASSUME NEW i \in 1..Len(c), NEW s
          PROVE  s \in Here(i) <=> \E j \in 1..Len(c[i].data) :
                    s = <<c[i].name, c[i].data[j].key>>
      BY <2>3
    <2> HIDE DEF Here, R
    <2> QED BY <2>1, <2>2, <2>4
  <1> HIDE DEF R, m
  <1>3. DOMAIN m = R /\ m = [s \in DOMAIN m |-> m[s]]
    BY <1>1
  <1>4. ASSUME NEW i \in 1..Len(c), NEW j \in 1..Len(c[i].data)
        PROVE  /\ <<c[i].name, c[i].data[j].key>> \in R
               /\ m[<<c[i].name, c[i].data[j].key>>] = c[i].data[j].value
    <2> DEFINE sec == c[i].name
               key == c[i].data[j].key
    <2>1. <<sec, key>> \in R
      BY <1>2
    <2>2. m[<<sec, key>>] = get_value(c, <<sec, key>>[1], <<sec, key>>[2])
      BY <1>1, <2>1
    <2>3. <<sec, key>>[1] = sec /\ <<sec, key>>[2] = key
      OBVIOUS
    <2>4. get_value(c, sec, key) = c[i].data[j].value
      BY ValueAt
    <2> QED BY <2>1, <2>2, <2>3, <2>4
  <1> QED BY <1>2, <1>3, <1>4 DEF m, Recorded, IsFunction

\* Where the settings of a list come from.
LEMMA SettingFrom ==
    ASSUME NEW T, NEW c, IsList(c, T), NEW s \in DOMAIN SettingsOf(c)
    PROVE  \E i \in 1..Len(c) : \E j \in 1..Len(c[i].data) :
              /\ s = <<c[i].name, c[i].data[j].key>>
              /\ SettingsOf(c)[s] = c[i].data[j].value
  <1>1. PICK i \in 1..Len(c) : \E j \in 1..Len(c[i].data) :
           s = <<c[i].name, c[i].data[j].key>>
    BY SettingsAre DEF Recorded
  <1>2. PICK j \in 1..Len(c[i].data) : s = <<c[i].name, c[i].data[j].key>>
    BY <1>1
  <1>3. SettingsOf(c)[<<c[i].name, c[i].data[j].key>>] = c[i].data[j].value
    BY SettingsAre
  <1> QED BY <1>2, <1>3

\* A function with the settings of all records is what the list stands for.
LEMMA SettingsEqual ==
    ASSUME NEW T, NEW c, IsList(c, T), NEW m, IsFunction(m),
           \A s : s \in DOMAIN m <=> Recorded(c, s),
           \A i \in 1..Len(c) : \A j \in 1..Len(c[i].data) :
              m[<<c[i].name, c[i].data[j].key>>] = c[i].data[j].value
    PROVE  SettingsOf(c) = m
  <1> DEFINE n == SettingsOf(c)
  <1>1. DOMAIN n = DOMAIN m
    <2>1. \A s : s \in DOMAIN n <=> Recorded(c, s)
      BY SettingsAre
    <2> HIDE DEF n
    <2> QED BY <2>1
  <1>2. IsFunction(n)
    BY SettingsAre
  <1>3. \A s \in DOMAIN n : n[s] = m[s]
    BY SettingFrom
  <1> HIDE DEF n
  <1>4. n = m
    BY <1>1, <1>2, <1>3 DEF IsFunction
  <1> QED BY <1>4 DEF n

\* What is looked up is a setting, or the empty text.
LEMMA LookedUp ==
    ASSUME NEW T, NEW c, IsList(c, T), NEW sec, NEW key
    PROVE  get_value(c, sec, key) =
              IF <<sec, key>> \in DOMAIN SettingsOf(c)
              THEN SettingsOf(c)[<<sec, key>>] ELSE NoText
  <1>1. CASE <<sec, key>> \in DOMAIN SettingsOf(c)
    <2>1. PICK i \in 1..Len(c) : \E j \in 1..Len(c[i].data) :
             /\ <<sec, key>> = <<c[i].name, c[i].data[j].key>>
             /\ SettingsOf(c)[<<sec, key>>] = c[i].data[j].value
      BY <1>1, SettingFrom
    <2>2. PICK j \in 1..Len(c[i].data) :
             /\ <<sec, key>> = <<c[i].name, c[i].data[j].key>>
             /\ SettingsOf(c)[<<sec, key>>] = c[i].data[j].value
      BY <2>1
    <2>3. sec = c[i].name /\ key = c[i].data[j].key
      BY <2>2
    <2>4. get_value(c, sec, key) = c[i].data[j].value
      BY <2>3, ValueAt
    <2> QED BY <1>1, <2>2, <2>4
  <1>2. CASE <<sec, key>> \notin DOMAIN SettingsOf(c)
    <2> DEFINE i == get_section(c, sec)
               j == get_record(c[i], key)
    <2>1. i = 0 \/ (i \in 1..Len(c) /\ c[i].name = sec)
      BY ListTypes, SectionFound
    <2>2. CASE i = 0
      BY <1>2, <2>2 DEF get_value
    <2>3. CASE i \in 1..Len(c) /\ c[i].name = sec /\ i # 0
      <3>1. j = 0 \/ (j \in 1..Len(c[i].data) /\ c[i].data[j].key = key)
        <4>1. Len(c[i].data) \in Nat
          BY <2>3, ListTypes
        <4> HIDE DEF i
        <4> QED BY <4>1, RecordFound
      <3> HIDE DEF i, j
      <3>2. j = 0
        BY <1>2, <2>3, <3>1, SettingsAre
      <3> QED BY <1>2, <2>3, <3>2 DEF get_value, i, j
    <2>4. i \in 1..Len(c) => i # 0
      <3>1. Len(c) \in Nat
        BY ListTypes
      <3> HIDE DEF i
      <3> QED BY <3>1
    <2> HIDE DEF i
    <2> QED BY <2>1, <2>2, <2>3, <2>4
  <1> QED BY <1>1, <1>2

-----------------------------------------------------------------------------
(* What add_section and _append do to the settings.                        *)

LEMMA MarkedComments ==
    ASSUME NEW com \in Seq(Nat)
    PROVE  Marked(com) \in Seq(Nat)
  <1>1. CASE com = <<>>
    BY <1>1 DEF Marked, NoComment
  <1>2. CASE com # <<>>
    <2>1. 1 \in 1..Len(com) /\ com[1] \in Nat
      BY <1>2, EmptySeq
    <2>2. com[1] + 1 \in Nat
      BY <2>1
    <2>3. [com EXCEPT ![1] = com[1] + 1] \in Seq(Nat)
      BY <2>1, <2>2, ExceptSeq
    <2> QED BY <1>2, <2>3 DEF Marked, NoComment
  <1> QED BY <1>1, <1>2

\* Lists with the same records have the same settings.
LEMMA SameRecords ==
    ASSUME NEW T, NEW c, IsList(c, T), NEW d \in Seq(Sections(T)),
           Len(d) = Len(c),
           \A i \in 1..Len(c) : d[i].name = c[i].name /\ d[i].data = c[i].data
    PROVE  IsList(d, T) /\ SettingsOf(d) = SettingsOf(c)
  <1>1. IsList(d, T)
    BY DEF IsList
  <1>2. \A s : Recorded(d, s) <=> Recorded(c, s)
    BY DEF Recorded
  <1>3. IsFunction(SettingsOf(c))
    BY SettingsAre
  <1>4. \A s : s \in DOMAIN SettingsOf(c) <=> Recorded(d, s)
    BY <1>2, SettingsAre
  <1>5. \A i \in 1..Len(d) : \A j \in 1..Len(d[i].data) :
           SettingsOf(c)[<<d[i].name, d[i].data[j].key>>] = d[i].data[j].value
    BY SettingsAre
  <1> QED BY <1>1, <1>3, <1>4, <1>5, SettingsEqual

\* A section is added without records, or its comment is replaced.
LEMMA SectionAdded ==
    ASSUME NEW T, NEW c, IsList(c, T), NEW sec \in STRING,
           NEW com \in Seq(Nat)
    PROVE  LET d == add_section(c, sec, com) IN
           /\ IsList(d, T) /\ SettingsOf(d) = SettingsOf(c)
           /\ get_section(d, sec) # 0
  <1> DEFINE i == get_section(c, sec)
             d == add_section(c, sec, com)
             mark == Marked(com)
             new == [name |-> sec, comments |-> mark, data |-> <<>>]
  <1>0. /\ c \in Seq(Sections(T)) /\ Len(c) \in Nat
        /\ \A k \in 1..Len(c) : c[k] \in Sections(T)
    BY ListTypes
  <1>1. \/ i = 0 /\ \A k \in 1..Len(c) : c[k].name # sec
        \/ i \in 1..Len(c) /\ c[i].name = sec
    BY <1>0, SectionFound
  <1>2. mark \in Seq(Nat)
    BY MarkedComments
  <1>3. new \in Sections(T)
    <2>1. <<>> \in Seq(Records(T))
      OBVIOUS
    <2> HIDE DEF mark
    <2> QED BY <1>2, <2>1 DEF Sections
  <1>4. CASE i = 0
    <2>1. d = Append(c, new)
      BY <1>4 DEF add_section
    <2> HIDE DEF d, new, i
    <2>2. /\ d \in Seq(Sections(T)) /\ Len(d) = Len(c) + 1
          /\ \A k \in 1..Len(c) : d[k] = c[k]
          /\ d[Len(c) + 1] = new
      BY <1>0, <1>3, <2>1, AppendProperties
    <2>3. new.name = sec /\ new.data = <<>> /\ Len(new.data) = 0
      BY DEF new
    <2>4. \A k \in 1..Len(c) : c[k].name # sec
      BY <1>0, <1>1, <1>4
    <2>5. IsList(d, T)
      <3>1. ASSUME NEW k \in 1..Len(d)
            PROVE  \/ k \in 1..Len(c) /\ d[k] = c[k]
                   \/ k = Len(c) + 1 /\ d[k] = new
        BY <1>0, <2>2
      <3>2. \A k, l \in 1..Len(d) : d[k].name = d[l].name => k = l
        BY <2>3, <2>4, <3>1 DEF IsList
      <3>3. \A k \in 1..Len(d) : \A l, m \in 1..Len(d[k].data) :
               d[k].data[l].key = d[k].data[m].key => l = m
        <4> SUFFICES ASSUME NEW k \in 1..Len(d)
                     PROVE  \A l, m \in 1..Len(d[k].data) :
                               d[k].data[l].key = d[k].data[m].key => l = m
          OBVIOUS
        <4>1. CASE k \in 1..Len(c) /\ d[k] = c[k]
          BY <4>1 DEF IsList
        <4>2. CASE d[k] = new
          BY <2>3, <4>2
        <4> QED BY <3>1, <4>1, <4>2
      <3>4. \A k \in 1..Len(d) : d[k].name = "" => d[k].data = <<>>
        BY <2>3, <3>1 DEF IsList
      <3> QED BY <2>2, <3>2, <3>3, <3>4 DEF IsList
    <2>6. \A s : Recorded(d, s) <=> Recorded(c, s)
      <3>1. ASSUME NEW s, Recorded(c, s)
            PROVE  Recorded(d, s)
        <4>1. \A k \in 1..Len(c) : k \in 1..Len(d)
          BY <1>0, <2>2
        <4> QED BY <2>2, <3>1, <4>1 DEF Recorded
      <3>2. ASSUME NEW s, Recorded(d, s)
            PROVE  Recorded(c, s)
        <4>1. PICK k \in 1..Len(d) : \E j \in 1..Len(d[k].data) :
                 s = <<d[k].name, d[k].data[j].key>>
          BY <3>2 DEF Recorded
        <4>2. k # Len(c) + 1
          BY <2>2, <2>3, <4>1
        <4>3. k \in 1..Len(c) /\ d[k] = c[k]
          BY <1>0, <2>2, <4>2
        <4> QED BY <4>1, <4>3 DEF Recorded
      <3> QED BY <3>1, <3>2
    <2>7. \A s : s \in DOMAIN SettingsOf(c) <=> Recorded(d, s)
      BY <2>6, SettingsAre
    <2>8. SettingsOf(d) = SettingsOf(c)
      <3>1. ASSUME NEW k \in 1..Len(d), NEW j \in 1..Len(d[k].data)
            PROVE  SettingsOf(c)[<<d[k].name, d[k].data[j].key>>]
                      = d[k].data[j].value
        <4>1. k # Len(c) + 1
          BY <2>2, <2>3
        <4>2. k \in 1..Len(c) /\ d[k] = c[k]
          BY <1>0, <2>2, <4>1
        <4> QED BY <4>2, SettingsAre
      <3>2. IsFunction(SettingsOf(c))
        BY SettingsAre
      <3> QED BY <2>5, <2>7, <3>1, <3>2, SettingsEqual
    <2>9. get_section(d, sec) # 0
      <3>1. Len(c) + 1 \in 1..Len(d) /\ d[Len(c) + 1].name = sec
        BY <1>0, <2>2, <2>3
      <3>2. Len(d) \in Nat
        BY <1>0, <2>2
      <3>3. ~(\A k \in 1..Len(d) : d[k].name # sec)
        BY <3>1
      <3>4. 0 \notin 1..Len(d)
        BY <3>2
      <3> QED BY <3>2, <3>3, <3>4, SectionFound
    <2> QED BY <2>5, <2>8, <2>9 DEF d
  <1>5. CASE i \in 1..Len(c) /\ c[i].name = sec /\ i # 0
    <2> DEFINE e == [c[i] EXCEPT !.comments = mark]
    <2>1. d = [c EXCEPT ![i] = e]
      BY <1>5 DEF add_section
    <2> HIDE DEF d, i, mark
    <2>2. e \in Sections(T) /\ e.name = c[i].name /\ e.data = c[i].data
      BY <1>0, <1>2, <1>5 DEF Sections
    <2> HIDE DEF e
    <2>3. /\ d \in Seq(Sections(T)) /\ Len(d) = Len(c)
          /\ \A k \in 1..Len(c) : d[k] = IF k = i THEN e ELSE c[k]
      <3>1. /\ [c EXCEPT ![i] = e] \in Seq(Sections(T))
            /\ Len([c EXCEPT ![i] = e]) = Len(c)
            /\ \A k \in 1..Len(c) :
                  [c EXCEPT ![i] = e][k] = IF k = i THEN e ELSE c[k]
        BY <1>0, <1>5, <2>2, ExceptSeq
      <3> QED BY <2>1, <3>1
    <2>4. \A k \in 1..Len(c) : d[k].name = c[k].name /\ d[k].data = c[k].data
      BY <2>2, <2>3
    <2>5. IsList(d, T) /\ SettingsOf(d) = SettingsOf(c)
      BY <2>3, <2>4, SameRecords
    <2>6. get_section(d, sec) # 0
      <3>1. ~(\A k \in 1..Len(d) : d[k].name # sec)
        BY <1>5, <2>3, <2>4
      <3>2. Len(d) \in Nat /\ 0 \notin 1..Len(d)
        BY <1>0, <2>3
      <3> QED BY <3>1, <3>2, SectionFound
    <2> QED BY <2>5, <2>6 DEF d
  <1>6. i \in 1..Len(c) => i # 0
    <2> HIDE DEF i
    <2> QED BY <1>0
  <1> HIDE DEF i, d
  <1> QED BY <1>1, <1>4, <1>5, <1>6 DEF d

UniqueKeys(data) ==
    \A j, k \in 1..Len(data) : data[j].key = data[k].key => j = k

IsData(data, T) == data \in Seq(Records(T)) /\ UniqueKeys(data)

HasName(c, i) == i \in 1..Len(c) /\ c[i].name # ""

\* A sequence with one element replaced.
Replaced(q, i, e) == [q EXCEPT ![i] = e]

LEMMA ReplacedSeq ==
    ASSUME NEW S, NEW q \in Seq(S), NEW i \in 1..Len(q), NEW e \in S
    PROVE  /\ Replaced(q, i, e) \in Seq(S)
           /\ Len(Replaced(q, i, e)) = Len(q)
           /\ \A j \in 1..Len(q) :
                 Replaced(q, i, e)[j] = IF j = i THEN e ELSE q[j]
  BY ExceptSeq DEF Replaced

\* The list with other records in one section.
WithRecords(c, i, data) == [c EXCEPT ![i].data = data]

LEMMA SectionReplaced ==
    ASSUME NEW T, NEW c, IsList(c, T), NEW i, HasName(c, i),
           NEW data, IsData(data, T)
    PROVE  /\ IsList(WithRecords(c, i, data), T)
           /\ Len(WithRecords(c, i, data)) = Len(c)
           /\ \A k \in 1..Len(c) :
                 /\ WithRecords(c, i, data)[k].name = c[k].name
                 /\ WithRecords(c, i, data)[k].data =
                       IF k = i THEN data ELSE c[k].data
  <1> DEFINE e == [c[i] EXCEPT !.data = data]
             d == WithRecords(c, i, data)
  <1>0. /\ c \in Seq(Sections(T)) /\ Len(c) \in Nat
        /\ \A k \in 1..Len(c) : c[k] \in Sections(T)
    BY ListTypes
  <1>1. d = Replaced(c, i, e)
    BY DEF WithRecords, Replaced
  <1>2. e \in Sections(T) /\ e.name = c[i].name /\ e.data = data
    BY <1>0 DEF Sections, HasName, IsData
  <1> HIDE DEF e, d
  <1>3. /\ d \in Seq(Sections(T)) /\ Len(d) = Len(c)
        /\ \A k \in 1..Len(c) : d[k] = IF k = i THEN e ELSE c[k]
    <2>1. c \in Seq(Sections(T))
      BY <1>0
    <2>2. e \in Sections(T)
      BY <1>2
    <2>3. i \in 1..Len(c)
      BY DEF HasName
    <2>4. /\ Replaced(c, i, e) \in Seq(Sections(T))
          /\ Len(Replaced(c, i, e)) = Len(c)
          /\ \A j \in 1..Len(c) :
                 Replaced(c, i, e)[j] = IF j = i THEN e ELSE c[j]
      BY <2>1, <2>2, <2>3, ReplacedSeq
    <2> QED BY <1>1, <2>4
  <1>4. \A k \in 1..Len(c) : d[k].name = c[k].name
                          /\ d[k].data = IF k = i THEN data ELSE c[k].data
    BY <1>2, <1>3
  <1>5. \A k, l \in 1..Len(d) : d[k].name = d[l].name => k = l
    BY <1>3, <1>4 DEF IsList
  <1>6. ASSUME NEW k \in 1..Len(d)
        PROVE  /\ \A j, l \in 1..Len(d[k].data) :
                     d[k].data[j].key = d[k].data[l].key => j = l
               /\ d[k].name = "" => d[k].data = <<>>
    <2>0. k \in 1..Len(c)
      BY <1>3
    <2>1. CASE k = i
      <3>1. d[k].data = data /\ d[k].name # ""
        BY <1>4, <2>0, <2>1 DEF HasName
      <3> QED BY <3>1 DEF IsData, UniqueKeys
    <2>2. CASE k # i
      <3>1. d[k].data = c[k].data /\ d[k].name = c[k].name
        BY <1>4, <2>0, <2>2
      <3> QED BY <2>0, <3>1 DEF IsList
    <2> QED BY <2>1, <2>2
  <1>7. IsList(d, T)
    BY <1>3, <1>5, <1>6 DEF IsList
  <1> QED BY <1>3, <1>4, <1>7 DEF d

\* The records with this one behind the others, or in the place of the one
\* that has its key: new is data but for the record j.
ReplacedAt(data, rec, new, j) ==
    /\ j \in 1..Len(new) /\ new[j] = rec
    /\ \A k \in 1..Len(new) : k # j =>
          k \in 1..Len(data) /\ new[k] = data[k]
    /\ \A k \in 1..Len(data) : k # j =>
          k \in 1..Len(new) /\ new[k] = data[k] /\ data[k].key # rec.key
    /\ j \in 1..Len(data) => data[j].key = rec.key

LEMMA AddedLast ==
    ASSUME NEW T, NEW data \in Seq(Records(T)), NEW rec \in Records(T),
           UniqueKeys(data), \A k \in 1..Len(data) : data[k].key # rec.key
    PROVE  /\ IsData(Append(data, rec), T)
           /\ ReplacedAt(data, rec, Append(data, rec), Len(data) + 1)
  <1> DEFINE new == Append(data, rec)
             n == Len(data)
  <1>1. /\ new \in Seq(Records(T)) /\ Len(new) = n + 1 /\ new[n + 1] = rec
        /\ \A k \in 1..n : new[k] = data[k]
    BY AppendProperties
  <1>2. n \in Nat
    OBVIOUS
  <1> HIDE DEF new
  <1>3. \A k \in 1..Len(new) : k # n + 1 => k \in 1..n
    <2> HIDE DEF n
    <2> QED BY <1>1, <1>2
  <1>4. n + 1 \in 1..Len(new) /\ n + 1 \notin 1..n
    <2> HIDE DEF n
    <2> QED BY <1>1, <1>2
  <1>5. \A k \in 1..n : k \in 1..Len(new)
    <2> HIDE DEF n
    <2> QED BY <1>1, <1>2
  <1>6. UniqueKeys(new)
    <2> SUFFICES ASSUME NEW k \in 1..Len(new), NEW l \in 1..Len(new),
                        new[k].key = new[l].key
                 PROVE  k = l
      BY DEF UniqueKeys
    <2>1. CASE k = n + 1 /\ l # n + 1
      BY <1>1, <1>3, <2>1
    <2>2. CASE k # n + 1 /\ l = n + 1
      BY <1>1, <1>3, <2>2
    <2>3. CASE k # n + 1 /\ l # n + 1
      BY <1>1, <1>3, <2>3 DEF UniqueKeys
    <2> QED BY <2>1, <2>2, <2>3
  <1>7. ReplacedAt(data, rec, new, n + 1)
    BY <1>1, <1>3, <1>4, <1>5 DEF ReplacedAt
  <1> QED BY <1>1, <1>6, <1>7 DEF new, IsData

LEMMA PutInPlace ==
    ASSUME NEW T, NEW data \in Seq(Records(T)), NEW rec \in Records(T),
           UniqueKeys(data), NEW j \in 1..Len(data), data[j].key = rec.key
    PROVE  /\ IsData(Replaced(data, j, rec), T)
           /\ ReplacedAt(data, rec, Replaced(data, j, rec), j)
  <1> DEFINE new == Replaced(data, j, rec)
  <1>1. /\ new \in Seq(Records(T)) /\ Len(new) = Len(data)
        /\ \A k \in 1..Len(data) : new[k] = IF k = j THEN rec ELSE data[k]
    BY ExceptSeq DEF Replaced
  <1> HIDE DEF new
  <1>2. \A k \in 1..Len(data) : new[k].key = data[k].key
    BY <1>1
  <1>3. UniqueKeys(new)
    BY <1>1, <1>2 DEF UniqueKeys
  <1>4. ReplacedAt(data, rec, new, j)
    BY <1>1 DEF ReplacedAt, UniqueKeys
  <1> QED BY <1>1, <1>3, <1>4 DEF new, IsData

\* One of the two, as AppendTo does it.
RecordsWith(data, j, rec) ==
    IF j = 0 THEN Append(data, rec) ELSE Replaced(data, j, rec)

LEMMA AppendedAs ==
    ASSUME NEW c, NEW i, NEW key, NEW value, NEW com
    PROVE  AppendTo(c, i, key, value, com) =
              WithRecords(c, i,
                  RecordsWith(c[i].data, get_record(c[i], key),
                              [key |-> key, value |-> value,
                               comments |-> Marked(com)]))
  <1> DEFINE j == get_record(c[i], key)
  <1>1. CASE j = 0
    BY <1>1 DEF AppendTo, WithRecords, RecordsWith
  <1>2. CASE j # 0
    BY <1>2 DEF AppendTo, WithRecords, RecordsWith, Replaced
  <1> QED BY <1>1, <1>2

\* d is c but for one record of section i, which it has in addition or with
\* another value.
ChangedAt(c, d, i, j, rec) ==
    /\ i \in 1..Len(c) /\ Len(d) = Len(c)
    /\ \A k \in 1..Len(c) : d[k].name = c[k].name
    /\ \A k \in 1..Len(c) : k # i => d[k].data = c[k].data
    /\ ReplacedAt(c[i].data, rec, d[i].data, j)

\* The setting of a record.
Name(c, k, l) == <<c[k].name, c[k].data[l].key>>

\* The records of d, and those of c.
LEMMA ChangedRecords ==
    ASSUME NEW c, NEW d, NEW i, NEW j, NEW rec, ChangedAt(c, d, i, j, rec)
    PROVE  /\ i \in 1..Len(d) /\ j \in 1..Len(d[i].data)
           /\ d[i].data[j] = rec /\ d[i].name = c[i].name
           /\ \A k \in 1..Len(d) : \A l \in 1..Len(d[k].data) :
                 ~(k = i /\ l = j) =>
                    /\ k \in 1..Len(c) /\ l \in 1..Len(c[k].data)
                    /\ d[k].name = c[k].name /\ d[k].data[l] = c[k].data[l]
           /\ \A k \in 1..Len(c) : \A l \in 1..Len(c[k].data) :
                 ~(k = i /\ l = j) =>
                    /\ k \in 1..Len(d) /\ l \in 1..Len(d[k].data)
                    /\ d[k].name = c[k].name /\ d[k].data[l] = c[k].data[l]
                    /\ k = i => c[k].data[l].key # rec.key
           /\ j \in 1..Len(c[i].data) => c[i].data[j].key = rec.key
  <1>1. /\ i \in 1..Len(c) /\ Len(d) = Len(c)
        /\ \A k \in 1..Len(c) : d[k].name = c[k].name
        /\ \A k \in 1..Len(c) : k # i => d[k].data = c[k].data
    BY DEF ChangedAt
  <1>2. /\ j \in 1..Len(d[i].data) /\ d[i].data[j] = rec
        /\ \A l \in 1..Len(d[i].data) : l # j =>
              l \in 1..Len(c[i].data) /\ d[i].data[l] = c[i].data[l]
        /\ \A l \in 1..Len(c[i].data) : l # j =>
              /\ l \in 1..Len(d[i].data) /\ d[i].data[l] = c[i].data[l]
              /\ c[i].data[l].key # rec.key
        /\ j \in 1..Len(c[i].data) => c[i].data[j].key = rec.key
    BY DEF ChangedAt, ReplacedAt
  <1>3. ASSUME NEW k \in 1..Len(d), NEW l \in 1..Len(d[k].data),
               ~(k = i /\ l = j)
        PROVE  /\ k \in 1..Len(c) /\ l \in 1..Len(c[k].data)
               /\ d[k].name = c[k].name /\ d[k].data[l] = c[k].data[l]
    <2>0. k \in 1..Len(c) /\ d[k].name = c[k].name
      BY <1>1
    <2>1. CASE k = i
      BY <1>2, <1>3, <2>0, <2>1
    <2>2. CASE k # i
      <3>1. d[k].data = c[k].data
        BY <1>1, <2>0, <2>2
      <3> QED BY <2>0, <3>1
    <2> QED BY <2>1, <2>2
  <1>4. ASSUME NEW k \in 1..Len(c), NEW l \in 1..Len(c[k].data),
               ~(k = i /\ l = j)
        PROVE  /\ k \in 1..Len(d) /\ l \in 1..Len(d[k].data)
               /\ d[k].name = c[k].name /\ d[k].data[l] = c[k].data[l]
               /\ k = i => c[k].data[l].key # rec.key
    <2>0. k \in 1..Len(d) /\ d[k].name = c[k].name
      BY <1>1
    <2>1. CASE k = i
      BY <1>2, <1>4, <2>0, <2>1
    <2>2. CASE k # i
      <3>1. d[k].data = c[k].data
        BY <1>1, <2>2
      <3> QED BY <2>0, <2>2, <3>1
    <2> QED BY <2>1, <2>2
  <1>5. i \in 1..Len(d) /\ d[i].name = c[i].name
    BY <1>1
  <1> QED BY <1>2, <1>3, <1>4, <1>5

LEMMA SettingPut ==
    ASSUME NEW T, NEW c, IsList(c, T), NEW d, IsList(d, T), NEW i, NEW j,
           NEW rec, ChangedAt(c, d, i, j, rec)
    PROVE  SettingsOf(d) = Put(SettingsOf(c), <<c[i].name, rec.key>>, rec.value)
  <1> DEFINE old == SettingsOf(c)
             s0 == <<c[i].name, rec.key>>
             m == Put(old, s0, rec.value)
  <1>1. IsFunction(m)
    BY DEF Put, IsFunction
  <1>2. DOMAIN m = DOMAIN old \cup {s0}
    BY DEF Put
  <1>3. m[s0] = rec.value
    BY DEF Put
  <1>4. \A s \in DOMAIN old : s # s0 => m[s] = old[s]
    BY DEF Put
  <1> HIDE DEF m, s0
  <1>5. /\ i \in 1..Len(d) /\ j \in 1..Len(d[i].data) /\ Name(d, i, j) = s0
        /\ d[i].data[j].value = rec.value
    BY ChangedRecords DEF s0, Name
  <1>6. ASSUME NEW k \in 1..Len(c), NEW l \in 1..Len(c[k].data),
               ~(k = i /\ l = j)
        PROVE  /\ Name(c, k, l) # s0 /\ Name(d, k, l) = Name(c, k, l)
               /\ k \in 1..Len(d) /\ l \in 1..Len(d[k].data)
    <2>1. /\ k \in 1..Len(d) /\ l \in 1..Len(d[k].data)
          /\ d[k].name = c[k].name /\ d[k].data[l] = c[k].data[l]
          /\ k = i => c[k].data[l].key # rec.key
      BY <1>6, ChangedRecords
    <2>2. i \in 1..Len(c)
      BY DEF ChangedAt
    <2>3. c[k].name = c[i].name => k = i
      BY <2>2 DEF IsList
    <2> QED BY <2>1, <2>3 DEF Name, s0
  <1>7. ASSUME NEW k \in 1..Len(d), NEW l \in 1..Len(d[k].data),
               ~(k = i /\ l = j)
        PROVE  /\ Name(d, k, l) # s0 /\ Name(d, k, l) \in DOMAIN old
               /\ old[Name(d, k, l)] = d[k].data[l].value
    <2>1. /\ k \in 1..Len(c) /\ l \in 1..Len(c[k].data)
          /\ d[k].data[l] = c[k].data[l]
      BY <1>7, ChangedRecords
    <2>2. Name(c, k, l) # s0 /\ Name(d, k, l) = Name(c, k, l)
      BY <1>6, <1>7, <2>1
    <2>3. /\ Name(c, k, l) \in DOMAIN old
          /\ old[Name(c, k, l)] = c[k].data[l].value
      BY <2>1, SettingsAre DEF Name
    <2> QED BY <2>1, <2>2, <2>3
  <1>8. ASSUME NEW k \in 1..Len(d), NEW l \in 1..Len(d[k].data)
        PROVE  Name(d, k, l) \in DOMAIN m /\ m[Name(d, k, l)] = d[k].data[l].value
    <2>1. CASE k = i /\ l = j
      BY <1>2, <1>3, <1>5, <2>1
    <2>2. CASE ~(k = i /\ l = j)
      BY <1>2, <1>4, <1>7, <2>2
    <2> QED BY <2>1, <2>2
  <1>9. ASSUME NEW s \in DOMAIN m
        PROVE  Recorded(d, s)
    <2>1. CASE s = s0
      BY <1>5, <2>1 DEF Recorded, Name
    <2>2. CASE s # s0
      <3>1. s \in DOMAIN old
        BY <1>2, <2>2
      <3>2. PICK k \in 1..Len(c) : \E l \in 1..Len(c[k].data) :
               s = <<c[k].name, c[k].data[l].key>>
        BY <3>1, SettingsAre DEF Recorded
      <3>3. PICK l \in 1..Len(c[k].data) : s = Name(c, k, l)
        BY <3>2 DEF Name
      <3>4. CASE k = i /\ l = j
        <4>1. c[i].data[j].key = rec.key
          BY <3>4, ChangedRecords
        <4> QED BY <2>2, <3>3, <3>4, <4>1 DEF Name, s0
      <3>5. CASE ~(k = i /\ l = j)
        <4>1. /\ Name(d, k, l) = s /\ k \in 1..Len(d)
              /\ l \in 1..Len(d[k].data)
          BY <1>6, <3>3, <3>5
        <4> QED BY <4>1 DEF Recorded, Name
      <3> QED BY <3>4, <3>5
    <2> QED BY <2>1, <2>2
  <1>10. \A s : s \in DOMAIN m <=> Recorded(d, s)
    BY <1>8, <1>9 DEF Recorded, Name
  <1>11. \A k \in 1..Len(d) : \A l \in 1..Len(d[k].data) :
            m[<<d[k].name, d[k].data[l].key>>] = d[k].data[l].value
    BY <1>8 DEF Name
  <1>12. SettingsOf(d) = m
    BY <1>1, <1>10, <1>11, SettingsEqual
  <1> QED BY <1>12 DEF m, s0

IsName(name) == name \in STRING
IsSection(name) == IsName(name) /\ name # ""
IsComment(com) == com \in Seq(Nat)

\* A record's setting is put into those of the list.
LEMMA RecordAppended ==
    ASSUME NEW T, NEW c, IsList(c, T), NEW i, HasName(c, i),
           NEW key, IsName(key), NEW value \in T, NEW com, IsComment(com)
    PROVE  /\ IsList(AppendTo(c, i, key, value, com), T)
           /\ SettingsOf(AppendTo(c, i, key, value, com))
                 = Put(SettingsOf(c), <<c[i].name, key>>, value)
  <1> DEFINE mark == Marked(com)
             rec == [key |-> key, value |-> value, comments |-> mark]
             j0 == get_record(c[i], key)
             data == c[i].data
             j == IF j0 = 0 THEN Len(data) + 1 ELSE j0
             new == RecordsWith(data, j0, rec)
             d == WithRecords(c, i, new)
  <1>1. AppendTo(c, i, key, value, com) = d
    BY AppendedAs
  <1>2. i \in 1..Len(c)
    BY DEF HasName
  <1>3. data \in Seq(Records(T))
    BY <1>2, ListTypes
  <1>4. Len(data) \in Nat
    BY <1>2, ListTypes
  <1>5. UniqueKeys(data)
    BY <1>2 DEF IsList, UniqueKeys
  <1>6. \/ j0 = 0 /\ \A k \in 1..Len(data) : data[k].key # key
        \/ j0 \in 1..Len(data) /\ data[j0].key = key
    BY <1>4, RecordFound
  <1>7. rec \in Records(T)
    <2>1. mark \in Seq(Nat)
      BY MarkedComments DEF IsComment
    <2> HIDE DEF mark
    <2> QED BY <2>1 DEF Records, IsName
  <1>8. rec.key = key /\ rec.value = value
    OBVIOUS
  <1> HIDE DEF rec, j0, data
  <1>9. IsData(new, T) /\ ReplacedAt(data, rec, new, j)
    <2>1. CASE j0 = 0
      <3>1. 0 \notin 1..Len(data)
        BY <1>4
      <3>2. \A k \in 1..Len(data) : data[k].key # rec.key
        BY <1>6, <1>8, <2>1, <3>1
      <3>3. /\ IsData(Append(data, rec), T)
            /\ ReplacedAt(data, rec, Append(data, rec), Len(data) + 1)
        BY <1>3, <1>5, <1>7, <3>2, AddedLast
      <3> QED BY <2>1, <3>3 DEF RecordsWith
    <2>2. CASE j0 # 0
      <3>1. j0 \in 1..Len(data) /\ data[j0].key = rec.key
        BY <1>6, <1>8, <2>2
      <3>2. /\ IsData(Replaced(data, j0, rec), T)
            /\ ReplacedAt(data, rec, Replaced(data, j0, rec), j0)
        BY <1>3, <1>5, <1>7, <3>1, PutInPlace
      <3> QED BY <2>2, <3>2 DEF RecordsWith
    <2> QED BY <2>1, <2>2
  <1> HIDE DEF new, j
  <1>10. /\ IsList(d, T) /\ Len(d) = Len(c)
         /\ \A k \in 1..Len(c) :
               d[k].name = c[k].name
               /\ d[k].data = IF k = i THEN new ELSE c[k].data
    BY <1>9, SectionReplaced
  <1> HIDE DEF d
  <1>11. ChangedAt(c, d, i, j, rec)
    BY <1>2, <1>9, <1>10 DEF ChangedAt, data
  <1>12. SettingsOf(d) = Put(SettingsOf(c), <<c[i].name, rec.key>>, rec.value)
    BY <1>10, <1>11, SettingPut
  <1> QED BY <1>1, <1>8, <1>10, <1>12

LEMMA EmptyComment == NoComment \in Seq(Nat)
  BY DEF NoComment

\* _append, and with it set_value, changes one setting.
LEMMA SettingAppended ==
    ASSUME NEW T, NEW c, IsList(c, T), NEW sec, IsSection(sec),
           NEW key, IsName(key), NEW value \in T, NEW com, IsComment(com)
    PROVE  /\ IsList(_append(c, sec, key, value, com), T)
           /\ SettingsOf(_append(c, sec, key, value, com))
                 = Put(SettingsOf(c), <<sec, key>>, value)
  <1> DEFINE there == IF get_section(c, sec) # 0 THEN c
                      ELSE add_section(c, sec, NoComment)
             i == get_section(there, sec)
  <1>1. /\ IsList(there, T) /\ SettingsOf(there) = SettingsOf(c)
        /\ get_section(there, sec) # 0
    <2>1. CASE get_section(c, sec) # 0
      BY <2>1
    <2>2. CASE get_section(c, sec) = 0
      BY <2>2, EmptyComment, SectionAdded DEF IsName, IsSection
    <2> QED BY <2>1, <2>2
  <1>2. _append(c, sec, key, value, com) = AppendTo(there, i, key, value, com)
    BY DEF _append
  <1> HIDE DEF there
  <1>3. HasName(there, i) /\ there[i].name = sec
    <2>1. Len(there) \in Nat
      BY <1>1, ListTypes
    <2>2. \/ i = 0
          \/ i \in 1..Len(there) /\ there[i].name = sec
      BY <2>1, SectionFound
    <2> HIDE DEF i
    <2>3. i # 0
      BY <1>1 DEF i
    <2> QED BY <2>2, <2>3 DEF HasName, IsSection
  <1> HIDE DEF i
  <1>4. /\ IsList(AppendTo(there, i, key, value, com), T)
        /\ SettingsOf(AppendTo(there, i, key, value, com))
              = Put(SettingsOf(there), <<there[i].name, key>>, value)
    <2>1. IsList(there, T)
      BY <1>1
    <2>2. HasName(there, i)
      BY <1>3
    <2> QED BY <2>1, <2>2, RecordAppended
  <1> QED BY <1>1, <1>2, <1>3, <1>4

LEMMA EmptyList ==
    ASSUME NEW T
    PROVE  /\ IsList(<<>>, T) /\ SettingsOf(<<>>) = <<>>
           /\ DOMAIN SettingsOf(<<>>) = {}
  <1>1. IsList(<<>>, T)
    BY DEF IsList
  <1>2. DOMAIN SettingsOf(<<>>) = {}
    BY <1>1, SettingFrom
  <1>3. IsFunction(SettingsOf(<<>>))
    BY <1>1, SettingsAre
  <1>4. SettingsOf(<<>>) = <<>>
    BY <1>2, <1>3 DEF IsFunction
  <1> QED BY <1>1, <1>2, <1>4

-----------------------------------------------------------------------------
(* The parser.                                                             *)

Fields(T) ==
    [content : Seq(Sections(T)), comments : Seq(Nat),
     section : STRING \cup {""}, loaded : BOOLEAN, open : BOOLEAN]

Parsers(T) == {st \in Fields(T) : IsList(st.content, T)}

LEMMA LineKinds ==
    ASSUME NEW T, NEW line \in Lines(T)
    PROVE  /\ line.kind = "section" => IsName(line.name)
           /\ line.kind = "record" => IsName(line.key) /\ line.value \in T
           /\ line.kind = "comment" => line.marks \in Nat
  <1>1. CASE line \in [kind : {"section"}, name : STRING]
    BY <1>1 DEF IsName
  <1>2. CASE line \in [kind : {"record"}, key : STRING, value : T]
    BY <1>2 DEF IsName
  <1>3. CASE line \in [kind : {"comment"}, marks : Nat]
    BY <1>3
  <1>4. CASE line \in [kind : {"empty", "malformed", "missing"}]
    BY <1>4
  <1> QED BY <1>1, <1>2, <1>3, <1>4 DEF Lines

LEMMA ParserTypes ==
    ASSUME NEW T, NEW st \in Parsers(T)
    PROVE  /\ st \in Fields(T)
           /\ IsList(st.content, T) /\ IsComment(st.comments)
           /\ st.section # "" => IsSection(st.section)
           /\ st.loaded \in BOOLEAN /\ st.open \in BOOLEAN
  BY DEF Parsers, Fields, IsComment, IsSection, IsName

\* The parser has this content and section, and reads on.
Reads(st, T, content, section) ==
    /\ st \in Parsers(T) /\ st.content = content /\ st.section = section
    /\ st.open = TRUE

\* What a line does to the parser.
LEMMA LoadSection ==
    ASSUME NEW T, NEW st, NEW line,
           st \in Parsers(T), st.open, line.kind = "section",
           IsName(line.name)
    PROVE  /\ Reads(LoadLine(st, line), T,
                    add_section(st.content, line.name, st.comments), line.name)
           /\ SettingsOf(LoadLine(st, line).content) = SettingsOf(st.content)
  <1> DEFINE c == add_section(st.content, line.name, st.comments)
             r == LoadLine(st, line)
  <1>1. r = [st EXCEPT !.content = c, !.section = line.name,
                      !.comments = NoComment, !.loaded = TRUE]
    BY DEF LoadLine
  <1>2. IsList(c, T) /\ SettingsOf(c) = SettingsOf(st.content)
    BY ParserTypes, SectionAdded DEF IsComment, IsName
  <1>3. c \in Seq(Sections(T))
    BY <1>2 DEF IsList
  <1> HIDE DEF c, r
  <1>4. st \in Fields(T)
    BY ParserTypes
  <1>5. r \in Fields(T)
    BY <1>1, <1>3, <1>4, EmptyComment DEF Fields, IsName
  <1>6. r.content = c /\ r.section = line.name /\ r.open = st.open
    BY <1>1, <1>4 DEF Fields
  <1>7. r \in Parsers(T)
    BY <1>2, <1>5, <1>6 DEF Parsers
  <1>8. st.open = TRUE
    BY ParserTypes
  <1> QED BY <1>2, <1>6, <1>7, <1>8 DEF Reads, r, c

LEMMA LoadComment ==
    ASSUME NEW T, NEW st, NEW line,
           st \in Parsers(T), st.open, line.kind = "comment",
           line.marks \in Nat
    PROVE  Reads(LoadLine(st, line), T, st.content, st.section)
  <1> DEFINE c == Append(st.comments, line.marks)
             r == LoadLine(st, line)
  <1>1. r = [st EXCEPT !.comments = c, !.loaded = TRUE]
    BY DEF LoadLine
  <1>2. c \in Seq(Nat)
    BY ParserTypes, AppendProperties DEF IsComment
  <1> HIDE DEF c, r
  <1>4. st \in Fields(T)
    BY ParserTypes
  <1>5. r \in Fields(T)
    BY <1>1, <1>2, <1>4 DEF Fields
  <1>6. r.content = st.content /\ r.section = st.section /\ r.open = st.open
    BY <1>1, <1>4 DEF Fields
  <1>7. r \in Parsers(T)
    BY <1>5, <1>6, ParserTypes DEF Parsers
  <1>8. st.open = TRUE
    BY ParserTypes
  <1> QED BY <1>6, <1>7, <1>8 DEF Reads, r

LEMMA LoadRecord ==
    ASSUME NEW T, NEW st, NEW line,
           st \in Parsers(T), st.open, line.kind = "record",
           IsName(line.key), line.value \in T, IsSection(st.section)
    PROVE  /\ Reads(LoadLine(st, line), T,
                    _append(st.content, st.section, line.key, line.value,
                            st.comments),
                    st.section)
           /\ SettingsOf(LoadLine(st, line).content) =
                 Put(SettingsOf(st.content), <<st.section, line.key>>,
                     line.value)
  <1> DEFINE c == _append(st.content, st.section, line.key, line.value,
                          st.comments)
             r == LoadLine(st, line)
  <1>1. r = [st EXCEPT !.content = c, !.comments = NoComment, !.loaded = TRUE]
    BY DEF LoadLine, IsSection
  <1>2. /\ IsList(c, T)
        /\ SettingsOf(c) = Put(SettingsOf(st.content), <<st.section, line.key>>,
                               line.value)
    <2>1. IsList(st.content, T)
      BY ParserTypes
    <2>2. IsComment(st.comments)
      BY ParserTypes
    <2> QED BY <2>1, <2>2, SettingAppended
  <1>3. c \in Seq(Sections(T))
    BY <1>2 DEF IsList
  <1> HIDE DEF c, r
  <1>4. st \in Fields(T)
    BY ParserTypes
  <1>5. r \in Fields(T)
    BY <1>1, <1>3, <1>4, EmptyComment DEF Fields
  <1>6. r.content = c /\ r.section = st.section /\ r.open = st.open
    BY <1>1, <1>4 DEF Fields
  <1>7. r \in Parsers(T)
    BY <1>2, <1>5, <1>6 DEF Parsers
  <1>8. st.open = TRUE
    BY ParserTypes
  <1> QED BY <1>2, <1>6, <1>7, <1>8 DEF Reads, r, c

\* Nothing is added by a line after an error, an empty line or an error.
LEMMA LoadOther ==
    ASSUME NEW T, NEW st, NEW line,
           st \in Parsers(T),
           \/ ~st.open
           \/ line.kind \notin {"section", "comment", "record"}
           \/ line.kind = "record" /\ st.section = ""
    PROVE  /\ LoadLine(st, line) \in Parsers(T)
           /\ LoadLine(st, line).content = st.content
  <1> DEFINE r == LoadLine(st, line)
  <1>1. r = st \/ r = [st EXCEPT !.open = FALSE, !.loaded = FALSE]
    <2>1. CASE ~st.open
      BY <2>1 DEF LoadLine
    <2>2. CASE st.open /\ line.kind = "empty"
      BY <2>2 DEF LoadLine
    <2>3. CASE /\ st.open
               /\ \/ line.kind \notin {"section", "comment", "record", "empty"}
                  \/ line.kind = "record" /\ st.section = ""
      BY <2>3 DEF LoadLine
    <2> QED BY <2>1, <2>2, <2>3
  <1> HIDE DEF r
  <1>2. st \in Fields(T)
    BY ParserTypes
  <1>3. r \in Fields(T) /\ r.content = st.content
    BY <1>1, <1>2 DEF Fields
  <1>4. r \in Parsers(T)
    BY <1>3, ParserTypes DEF Parsers
  <1> QED BY <1>3, <1>4 DEF r

\* Every line leaves a state of the parser, and no setting is removed.
LEMMA LineLoaded ==
    ASSUME NEW T, NEW st, st \in Parsers(T), NEW line, line \in Lines(T)
    PROVE  /\ LoadLine(st, line) \in Parsers(T)
           /\ DOMAIN SettingsOf(st.content)
                 \subseteq DOMAIN SettingsOf(LoadLine(st, line).content)
  <1>1. CASE st.open /\ line.kind = "section"
    <2>1. IsName(line.name)
      BY <1>1, LineKinds
    <2> QED BY <1>1, <2>1, LoadSection DEF Reads
  <1>2. CASE st.open /\ line.kind = "comment"
    <2>1. line.marks \in Nat
      BY <1>2, LineKinds
    <2> QED BY <1>2, <2>1, LoadComment DEF Reads
  <1>3. CASE st.open /\ line.kind = "record" /\ st.section # ""
    <2>1. IsName(line.key) /\ line.value \in T
      BY <1>3, LineKinds
    <2>2. IsSection(st.section)
      BY <1>3, ParserTypes
    <2>3. st.open /\ line.kind = "record"
      BY <1>3
    <2>4. Reads(LoadLine(st, line), T,
                _append(st.content, st.section, line.key, line.value,
                        st.comments), st.section)
      BY <2>1, <2>2, <2>3, LoadRecord
    <2>5. SettingsOf(LoadLine(st, line).content) =
             Put(SettingsOf(st.content), <<st.section, line.key>>, line.value)
      BY <2>1, <2>2, <2>3, LoadRecord
    <2> QED BY <2>4, <2>5 DEF Put, Reads
  <1>4. CASE \/ ~st.open
             \/ line.kind \notin {"section", "comment", "record"}
             \/ line.kind = "record" /\ st.section = ""
    BY <1>4, LoadOther
  <1> QED BY <1>1, <1>2, <1>3, <1>4

\* The states that the parser goes through.
IsLoad(f, T, st, lines) ==
    /\ f \in [0..Len(lines) -> Parsers(T)]
    /\ f[0] = st
    /\ \A i \in 1..Len(lines) : f[i] = LoadLine(f[i - 1], lines[i])

IsLines(lines, T) == lines \in Seq(Lines(T))

LEMMA LinesTypes ==
    ASSUME NEW T, NEW lines, IsLines(lines, T)
    PROVE  Len(lines) \in Nat /\ \A i \in 1..Len(lines) : lines[i] \in Lines(T)
  <1>1. lines \in Seq(Lines(T))
    BY DEF IsLines
  <1> QED BY <1>1

LEMMA LoadRun ==
    ASSUME NEW T, NEW st, st \in Parsers(T), NEW lines, IsLines(lines, T)
    PROVE  \E f : IsLoad(f, T, st, lines) /\ LoadLines(st, lines) = f[Len(lines)]
  <1> DEFINE n == Len(lines)
             S == Parsers(T)
             step == [i \in 1..n |-> [s \in S |-> LoadLine(s, lines[i])]]
             Eq(t) == t = [i \in 0..n |-> IF i = 0 THEN st
                              ELSE CHOOSE next \in
                                      {LoadLine(s, lines[i]) : s \in {t[i - 1]}} :
                                      TRUE]
             Next1(t, i) == CHOOSE next \in
                               {LoadLine(s, lines[i]) : s \in {t[i - 1]}} : TRUE
  <1>1. n \in Nat /\ \A i \in 1..n : lines[i] \in Lines(T)
    BY LinesTypes
  <1>2. step \in [1..n -> [S -> S]]
    <2>1. \A i \in 1..n : \A s \in S : LoadLine(s, lines[i]) \in S
      BY <1>1, LineLoaded
    <2> HIDE DEF n, S
    <2> QED BY <2>1
  <1>3. PICK g : IsRun(g, n, S, st, step)
    <2> HIDE DEF n, S, step
    <2> QED BY <1>1, <1>2, RecursionExists DEF S
  <1>0. \A t, i : Next1(t, i) = LoadLine(t[i - 1], lines[i])
    <2> TAKE t, i
    <2>1. {LoadLine(s, lines[i]) : s \in {t[i - 1]}} = {LoadLine(t[i - 1], lines[i])}
      OBVIOUS
    <2> QED BY <2>1
  <1>4. \A i \in 1..n : g[i] = LoadLine(g[i - 1], lines[i])
    <2> TAKE i \in 1..n
    <2>1. i - 1 \in 0..n /\ g[i - 1] \in S
      BY <1>1, <1>3 DEF IsRun
    <2>2. step[i][g[i - 1]] = LoadLine(g[i - 1], lines[i])
      BY <2>1
    <2> QED BY <1>3, <2>2 DEF IsRun
  <1>5. Eq(g)
    <2>1. ASSUME NEW i \in 0..n
          PROVE  g[i] = IF i = 0 THEN st ELSE Next1(g, i)
      <3>1. i = 0 \/ (i # 0 /\ i \in 1..n)
        BY <1>1
      <3> HIDE DEF Next1
      <3> QED BY <1>0, <1>3, <1>4, <3>1 DEF IsRun
    <2>2. g = [i \in 0..n |-> g[i]]
      BY <1>3 DEF IsRun
    <2> QED BY <2>1, <2>2, Zenon
  <1> DEFINE t == CHOOSE f : Eq(f)
  <1>6. Eq(t)
    <2> HIDE DEF Eq
    <2> QED BY <1>5, Zenon
  <1>7. LoadLines(st, lines) = t[n]
    BY DEF LoadLines
  <1> HIDE DEF t
  <1>8. t = [i \in 0..n |-> IF i = 0 THEN st ELSE Next1(t, i)]
    BY <1>6, Zenon
  <1>9. t = [i \in 0..n |-> t[i]]
    <2> HIDE DEF Next1
    <2> QED BY <1>8
  <1>10. t[0] = st /\ \A i \in 1..n : t[i] = LoadLine(t[i - 1], lines[i])
    <2>1. 0 \in 0..n /\ \A i \in 1..n : i \in 0..n /\ i # 0
      BY <1>1
    <2> HIDE DEF n, Next1
    <2> QED BY <1>0, <1>8, <2>1
  <1> DEFINE G == {i \in Nat : i <= n => t[i] \in S}
  <1>11. \A i \in Nat : i \in G
    <2>1. 0 \in G
      BY <1>10
    <2>2. ASSUME NEW i \in Nat, i \in G
          PROVE  i + 1 \in G
      <3> SUFFICES ASSUME i + 1 <= n PROVE t[i + 1] \in S
        OBVIOUS
      <3>1. i + 1 \in 1..n /\ (i + 1) - 1 = i /\ t[i] \in S
        BY <1>1, <2>2
      <3>2. t[i + 1] = LoadLine(t[i], lines[i + 1])
        BY <1>10, <3>1
      <3> QED BY <1>1, <3>1, <3>2, LineLoaded
    <2> HIDE DEF G
    <2> QED BY <2>1, <2>2, SetInduction
  <1>12. \A i \in 0..n : t[i] \in S
    BY <1>1, <1>11
  <1>13. t \in [0..n -> S]
    BY <1>9, <1>12
  <1> QED BY <1>7, <1>10, <1>13 DEF IsLoad

LEMMA LoadUnique ==
    ASSUME NEW T, NEW st, st \in Parsers(T), NEW lines, IsLines(lines, T),
           NEW f, IsLoad(f, T, st, lines)
    PROVE  LoadLines(st, lines) = f[Len(lines)]
  <1> DEFINE n == Len(lines)
  <1>1. PICK g : IsLoad(g, T, st, lines) /\ LoadLines(st, lines) = g[n]
    BY LoadRun
  <1>2. n \in Nat
    BY LinesTypes
  <1>3. f[0] = g[0]
    BY <1>1 DEF IsLoad
  <1>4. \A i \in 1..n : f[i] = LoadLine(f[i - 1], lines[i])
                     /\ g[i] = LoadLine(g[i - 1], lines[i])
    BY <1>1 DEF IsLoad
  <1> HIDE DEF n
  <1> DEFINE G == {i \in Nat : i <= n => f[i] = g[i]}
  <1>5. 0 \in G
    BY <1>3
  <1>6. ASSUME NEW i \in Nat, i \in G
        PROVE  i + 1 \in G
    <2> SUFFICES ASSUME i + 1 <= n PROVE f[i + 1] = g[i + 1]
      OBVIOUS
    <2>1. i + 1 \in 1..n /\ (i + 1) - 1 = i /\ f[i] = g[i]
      BY <1>2, <1>6
    <2> QED BY <1>4, <2>1
  <1>7. n \in G
    <2> HIDE DEF G
    <2> QED BY <1>2, <1>5, <1>6, SetInduction
  <1> QED BY <1>1, <1>2, <1>7 DEF n

LEMMA LoadTypes ==
    ASSUME NEW T, NEW st, st \in Parsers(T), NEW lines, IsLines(lines, T)
    PROVE  LoadLines(st, lines) \in Parsers(T)
  <1>1. PICK f : IsLoad(f, T, st, lines) /\ LoadLines(st, lines) = f[Len(lines)]
    BY LoadRun
  <1>2. Len(lines) \in Nat
    BY LinesTypes
  <1> QED BY <1>1, <1>2 DEF IsLoad

\* The elements of two sequences, one behind the other.
LEMMA Joined ==
    ASSUME NEW S, NEW a \in Seq(S), NEW b \in Seq(S)
    PROVE  /\ a \o b \in Seq(S) /\ Len(a \o b) = Len(a) + Len(b)
           /\ \A i \in 1..Len(a) : (a \o b)[i] = a[i]
           /\ \A i \in 1..Len(b) : (a \o b)[Len(a) + i] = b[i]
  <1>1. a \o b \in Seq(S) /\ Len(a \o b) = Len(a) + Len(b)
    BY ConcatProperties
  <1>2. \A i \in 1..Len(a) + Len(b) :
           (a \o b)[i] = IF i <= Len(a) THEN a[i] ELSE b[i - Len(a)]
    BY ConcatProperties
  <1> DEFINE la == Len(a)
             lb == Len(b)
  <1>3. la \in Nat /\ lb \in Nat
    OBVIOUS
  <1> HIDE DEF la, lb
  <1>4. \A i \in 1..la : i \in 1..la + lb /\ i <= la
    BY <1>3
  <1>5. \A i \in 1..lb : /\ la + i \in 1..la + lb /\ ~(la + i <= la)
                         /\ (la + i) - la = i
    BY <1>3
  <1> QED BY <1>1, <1>2, <1>4, <1>5 DEF la, lb

\* Reading goes on where it stopped.
LEMMA LoadJoined ==
    ASSUME NEW T, NEW st, st \in Parsers(T), NEW a, IsLines(a, T),
           NEW b, IsLines(b, T)
    PROVE  /\ IsLines(a \o b, T)
           /\ LoadLines(st, a \o b) = LoadLines(LoadLines(st, a), b)
  <1> DEFINE ab == a \o b
             la == Len(a)
             lb == Len(b)
             mid == LoadLines(st, a)
  <1>1. /\ ab \in Seq(Lines(T)) /\ Len(ab) = la + lb
        /\ \A i \in 1..la : ab[i] = a[i]
        /\ \A i \in 1..lb : ab[la + i] = b[i]
    BY Joined DEF IsLines
  <1>2. la \in Nat /\ lb \in Nat
    BY LinesTypes
  <1>3. PICK f : IsLoad(f, T, st, a) /\ mid = f[la]
    BY LoadRun
  <1>4. mid \in Parsers(T)
    BY LoadTypes
  <1> HIDE DEF mid
  <1>5. PICK g : IsLoad(g, T, mid, b) /\ LoadLines(mid, b) = g[lb]
    BY <1>4, LoadRun
  <1> HIDE DEF ab
  <1> DEFINE S == Parsers(T)
  <1>6. /\ f \in [0..la -> S] /\ f[0] = st
        /\ \A i \in 1..la : f[i] = LoadLine(f[i - 1], a[i])
    BY <1>3 DEF IsLoad
  <1>7. /\ g \in [0..lb -> S] /\ g[0] = f[la]
        /\ \A i \in 1..lb : g[i] = LoadLine(g[i - 1], b[i])
    BY <1>3, <1>5 DEF IsLoad
  <1> HIDE DEF la, lb, S
  <1> DEFINE h == [i \in 0..(la + lb) |-> IF i <= la THEN f[i] ELSE g[i - la]]
  <1>8. h \in [0..(la + lb) -> S]
    <2>1. ASSUME NEW i \in 0..(la + lb)
          PROVE  (IF i <= la THEN f[i] ELSE g[i - la]) \in S
      <3>1. CASE i <= la
        <4>1. i \in 0..la
          BY <1>2, <3>1
        <4> QED BY <1>6, <3>1, <4>1
      <3>2. CASE ~(i <= la)
        <4>1. i - la \in 0..lb
          BY <1>2, <3>2
        <4> QED BY <1>7, <3>2, <4>1
      <3> QED BY <3>1, <3>2
    <2> QED BY <2>1
  <1>9. \A i \in 0..la : h[i] = f[i]
    BY <1>2
  <1>10. \A i \in 0..lb : h[la + i] = g[i]
    <2> TAKE i \in 0..lb
    <2>1. CASE i = 0
      <3>1. la + i = la /\ la \in 0..la
        BY <1>2, <2>1
      <3> HIDE DEF h
      <3> QED BY <1>7, <1>9, <2>1, <3>1
    <2>2. CASE i # 0
      <3>1. /\ la + i \in 0..(la + lb) /\ ~(la + i <= la)
            /\ (la + i) - la = i
        BY <1>2, <2>2
      <3> QED BY <3>1
    <2> QED BY <2>1, <2>2
  <1> HIDE DEF h
  <1>11. ASSUME NEW i \in 1..(la + lb)
         PROVE  h[i] = LoadLine(h[i - 1], ab[i])
    <2>1. CASE i <= la
      <3>1. i \in 1..la /\ i \in 0..la /\ i - 1 \in 0..la
        BY <1>2, <2>1
      <3> QED BY <1>1, <1>6, <1>9, <3>1
    <2>2. CASE ~(i <= la)
      <3> DEFINE k == i - la
      <3>1. /\ k \in 1..lb /\ k \in 0..lb /\ k - 1 \in 0..lb
            /\ i = la + k /\ i - 1 = la + (k - 1)
        BY <1>2, <2>2
      <3> HIDE DEF k
      <3>2. h[i] = g[k] /\ h[i - 1] = g[k - 1] /\ ab[i] = b[k]
        BY <1>1, <1>10, <3>1
      <3> QED BY <1>7, <3>1, <3>2
    <2> QED BY <2>1, <2>2
  <1>12. IsLines(ab, T)
    BY <1>1 DEF IsLines
  <1>13. h[0] = st
    BY <1>2, <1>6, <1>9
  <1>14. IsLoad(h, T, st, ab)
    BY <1>1, <1>8, <1>11, <1>13 DEF IsLoad, S
  <1>15. LoadLines(st, ab) = h[Len(ab)]
    BY <1>12, <1>14, LoadUnique
  <1>part. h[la + lb] = g[lb]
    BY <1>2, <1>10
  <1> QED BY <1>1, <1>5, <1>12, <1>15, <1>part DEF ab, mid

LEMMA LoadOne ==
    ASSUME NEW T, NEW st, st \in Parsers(T), NEW line, line \in Lines(T)
    PROVE  IsLines(<<line>>, T) /\ LoadLines(st, <<line>>) = LoadLine(st, line)
  <1>1. IsLines(<<line>>, T) /\ Len(<<line>>) = 1 /\ <<line>>[1] = line
    BY DEF IsLines
  <1>2. PICK f : IsLoad(f, T, st, <<line>>) /\ LoadLines(st, <<line>>) = f[1]
    BY <1>1, LoadRun
  <1>3. f[1] = LoadLine(f[1 - 1], <<line>>[1]) /\ f[0] = st
    BY <1>1, <1>2 DEF IsLoad
  <1> QED BY <1>1, <1>2, <1>3

LEMMA LoadNothing ==
    ASSUME NEW T, NEW st, st \in Parsers(T)
    PROVE  IsLines(<<>>, T) /\ LoadLines(st, <<>>) = st
  <1>1. IsLines(<<>>, T) /\ Len(<<>>) = 0
    BY DEF IsLines
  <1>2. PICK f : IsLoad(f, T, st, <<>>) /\ LoadLines(st, <<>>) = f[0]
    BY <1>1, LoadRun
  <1> QED BY <1>1, <1>2 DEF IsLoad

\* No line removes a setting.
LEMMA LoadMonotonic ==
    ASSUME NEW T, NEW st, st \in Parsers(T), NEW lines, IsLines(lines, T)
    PROVE  DOMAIN SettingsOf(st.content)
              \subseteq DOMAIN SettingsOf(LoadLines(st, lines).content)
  <1> DEFINE n == Len(lines)
             D(s) == DOMAIN SettingsOf(s.content)
  <1>1. PICK f : IsLoad(f, T, st, lines) /\ LoadLines(st, lines) = f[n]
    BY LoadRun
  <1>2. n \in Nat /\ \A i \in 1..n : lines[i] \in Lines(T)
    BY LinesTypes
  <1>3. /\ \A i \in 0..n : f[i] \in Parsers(T)
        /\ f[0] = st
        /\ \A i \in 1..n : f[i] = LoadLine(f[i - 1], lines[i])
    BY <1>1 DEF IsLoad
  <1> HIDE DEF n, D
  <1> DEFINE G == {i \in Nat : i <= n => D(st) \subseteq D(f[i])}
  <1>4. 0 \in G
    BY <1>3
  <1>5. ASSUME NEW i \in Nat, i \in G
        PROVE  i + 1 \in G
    <2> SUFFICES ASSUME i + 1 <= n PROVE D(st) \subseteq D(f[i + 1])
      OBVIOUS
    <2>1. i + 1 \in 1..n /\ i \in 0..n /\ (i + 1) - 1 = i
      BY <1>2
    <2>2. D(st) \subseteq D(f[i])
      BY <1>2, <1>5, <2>1
    <2>3. f[i + 1] = LoadLine(f[i], lines[i + 1])
      BY <1>3, <2>1
    <2>4. f[i] \in Parsers(T) /\ lines[i + 1] \in Lines(T)
      BY <1>2, <1>3, <2>1
    <2>5. D(f[i]) \subseteq D(f[i + 1])
      BY <2>3, <2>4, LineLoaded DEF D
    <2> QED BY <2>2, <2>5
  <1>6. n \in G
    <2> HIDE DEF G
    <2> QED BY <1>2, <1>4, <1>5, SetInduction
  <1> QED BY <1>1, <1>2, <1>6 DEF D

-----------------------------------------------------------------------------
(* The printer, and reading what it printed.                               *)

\* The sequences one behind the other, step by step.
IsFlat(g, S, seqs) ==
    /\ g \in [0..Len(seqs) -> Seq(S)]
    /\ g[0] = <<>>
    /\ \A i \in 1..Len(seqs) : g[i] = g[i - 1] \o seqs[i]

LEMMA FlatRun ==
    ASSUME NEW S, NEW seqs, seqs \in Seq(Seq(S))
    PROVE  \E g : IsFlat(g, S, seqs) /\ FlattenSeq(seqs) = g[Len(seqs)]
  <1> DEFINE n == Len(seqs)
             R == Seq(S)
             step == [i \in 1..n |-> [s \in R |-> s \o seqs[i]]]
             Eq(t) == t = [i \in 1..n |-> IF i = 1 THEN seqs[i]
                                          ELSE t[i - 1] \o seqs[i]]
  <1>1. n \in Nat /\ \A i \in 1..n : seqs[i] \in R
    OBVIOUS
  <1>2. <<>> \in R
    OBVIOUS
  <1>3. step \in [1..n -> [R -> R]]
    <2>1. \A i \in 1..n : \A s \in R : s \o seqs[i] \in R
      BY <1>1, ConcatProperties
    <2> HIDE DEF n, R
    <2> QED BY <2>1
  <1>4. PICK g : IsRun(g, n, R, <<>>, step)
    <2> HIDE DEF n, R, step
    <2> QED BY <1>1, <1>2, <1>3, RecursionExists
  <1>5. g \in [0..n -> R] /\ g[0] = <<>>
    BY <1>4 DEF IsRun
  <1>6. \A i \in 1..n : g[i] = g[i - 1] \o seqs[i]
    <2> TAKE i \in 1..n
    <2>0. i - 1 \in 0..n
      <3> HIDE DEF n
      <3> QED BY <1>1
    <2>1. g[i - 1] \in R
      <3> HIDE DEF n, R
      <3> QED BY <1>5, <2>0
    <2>2. step[i][g[i - 1]] = g[i - 1] \o seqs[i]
      BY <2>1
    <2> QED BY <1>4, <2>2 DEF IsRun
  <1>7. IsFlat(g, S, seqs)
    BY <1>5, <1>6 DEF IsFlat
  <1>8. CASE n = 0
    <2>1. FlattenSeq(seqs) = seqs
      BY <1>8 DEF FlattenSeq
    <2>2. seqs = <<>>
      BY <1>8, EmptySeq
    <2> QED BY <1>5, <1>7, <1>8, <2>1, <2>2
  <1>9. CASE n # 0
    <2> DEFINE h == [i \in 1..n |-> g[i]]
    <2>1. g[1] = seqs[1]
      <3>1. 1 \in 1..n
        BY <1>1, <1>9
      <3>2. g[1] = g[1 - 1] \o seqs[1]
        BY <1>6, <3>1
      <3>3. seqs[1] \in Seq(S)
        BY <1>1, <3>1
      <3>4. <<>> \o seqs[1] = seqs[1]
        BY <3>3, ConcatEmptySeq
      <3> QED BY <1>5, <3>2, <3>4
    <2>2. Eq(h)
      <3>1. ASSUME NEW i \in 1..n
            PROVE  h[i] = IF i = 1 THEN seqs[i] ELSE h[i - 1] \o seqs[i]
        <4>1. CASE i = 1
          BY <2>1, <4>1
        <4>2. CASE i # 1
          <5>1. i - 1 \in 1..n
            BY <1>1, <4>2
          <5>2. h[i] = g[i] /\ h[i - 1] = g[i - 1]
            BY <5>1
          <5> HIDE DEF h
          <5> QED BY <1>6, <4>2, <5>2
        <4> QED BY <4>1, <4>2
      <3>2. h = [i \in 1..n |-> h[i]]
        OBVIOUS
      <3> HIDE DEF h
      <3> QED BY <3>1, <3>2, Zenon
    <2> DEFINE t == CHOOSE f : Eq(f)
    <2>3. Eq(t)
      <3> HIDE DEF Eq, h
      <3> QED BY <2>2, Zenon
    <2>4. FlattenSeq(seqs) = t[n]
      BY <1>9 DEF FlattenSeq
    <2> HIDE DEF t
    <2>5. \A i \in 1..n : t[i] = IF i = 1 THEN seqs[i] ELSE t[i - 1] \o seqs[i]
      BY <2>3, Zenon
    <2> DEFINE G == {i \in Nat : i + 1 <= n => t[i + 1] = g[i + 1]}
    <2> HIDE DEF n
    <2>6. 0 \in G
      <3>1. 0 + 1 = 1 /\ 1 \in 1..n
        BY <1>1, <1>9
      <3> QED BY <2>1, <2>5, <3>1
    <2>7. ASSUME NEW i \in Nat, i \in G
          PROVE  i + 1 \in G
      <3> DEFINE k == i + 1
      <3> SUFFICES ASSUME k + 1 <= n PROVE t[k + 1] = g[k + 1]
        OBVIOUS
      <3>1. k + 1 \in 1..n /\ k + 1 # 1 /\ (k + 1) - 1 = k /\ k <= n
        BY <1>1
      <3>2. t[k] = g[k]
        BY <2>7, <3>1
      <3> HIDE DEF k
      <3>3. t[k + 1] = t[(k + 1) - 1] \o seqs[k + 1]
        BY <2>5, <3>1
      <3>4. g[k + 1] = g[(k + 1) - 1] \o seqs[k + 1]
        BY <1>6, <3>1 DEF n
      <3> QED BY <3>1, <3>2, <3>3, <3>4
    <2>8. \A i \in Nat : i \in G
      <3> HIDE DEF G
      <3> QED BY <2>6, <2>7, SetInduction
    <2>9. t[n] = g[n]
      <3>1. n - 1 \in Nat /\ (n - 1) + 1 = n
        BY <1>1, <1>9
      <3> QED BY <2>8, <3>1
    <2> QED BY <1>7, <2>4, <2>9 DEF n
  <1> QED BY <1>8, <1>9

\* The parser reads, is in this section, and has these settings.
At(st, T, sec, m) ==
    /\ st \in Parsers(T) /\ st.open = TRUE /\ st.section = sec
    /\ SettingsOf(st.content) = m

LEMMA CommentsPrinted ==
    ASSUME NEW T, NEW com, IsComment(com)
    PROVE  /\ IsLines(CommentLines(com), T)
           /\ Len(CommentLines(com)) = Len(com)
           /\ \A i \in 1..Len(com) :
                 /\ CommentLines(com)[i].kind = "comment"
                 /\ CommentLines(com)[i].marks \in Nat
  <1> DEFINE n == Len(com)
             l == CommentLines(com)
  <1>1. com \in Seq(Nat)
    BY DEF IsComment
  <1>2. n \in Nat /\ DOMAIN com = 1..n /\ \A i \in 1..n : com[i] \in Nat
    BY <1>1
  <1>3. l = [i \in 1..n |-> [kind |-> "comment", marks |-> com[i]]]
    BY <1>2 DEF CommentLines, CommentLine
  <1> HIDE DEF n, l
  <1>4. \A i \in 1..n : /\ l[i] = [kind |-> "comment", marks |-> com[i]]
                        /\ l[i].kind = "comment" /\ l[i].marks = com[i]
    BY <1>3
  <1>5. \A i \in 1..n : l[i] \in [kind : {"comment"}, marks : Nat]
    <2> TAKE i \in 1..n
    <2>1. com[i] \in Nat /\ l[i] = [kind |-> "comment", marks |-> com[i]]
      BY <1>2, <1>4
    <2> QED BY <2>1
  <1>6. \A i \in 1..n : l[i] \in Lines(T)
    BY <1>5 DEF Lines
  <1>7. l \in [1..n -> Lines(T)]
    BY <1>3, <1>6
  <1>8. l \in Seq(Lines(T))
    BY <1>2, <1>7, SeqDef
  <1>9. Len(l) = n
    BY <1>2, <1>3
  <1> QED BY <1>2, <1>4, <1>8, <1>9 DEF IsLines, n, l

LEMMA CommentsLoaded ==
    ASSUME NEW T, NEW st, NEW sec, NEW m, At(st, T, sec, m),
           NEW com, IsComment(com)
    PROVE  At(LoadLines(st, CommentLines(com)), T, sec, m)
  <1> DEFINE lines == CommentLines(com)
             n == Len(lines)
  <1>1. IsLines(lines, T)
    BY CommentsPrinted
  <1>2. \A i \in 1..n : lines[i].kind = "comment" /\ lines[i].marks \in Nat
    BY CommentsPrinted
  <1>3. n \in Nat
    BY <1>1, LinesTypes
  <1> HIDE DEF lines
  <1>4. st \in Parsers(T)
    BY DEF At
  <1>5. PICK f : IsLoad(f, T, st, lines) /\ LoadLines(st, lines) = f[n]
    BY <1>1, <1>4, LoadRun
  <1>6. f[0] = st /\ \A i \in 1..n : f[i] = LoadLine(f[i - 1], lines[i])
    BY <1>5 DEF IsLoad
  <1> HIDE DEF n
  <1> DEFINE G == {i \in Nat : i <= n => At(f[i], T, sec, m)}
  <1>7. 0 \in G
    BY <1>6
  <1>8. ASSUME NEW i \in Nat, i \in G
        PROVE  i + 1 \in G
    <2> SUFFICES ASSUME i + 1 <= n PROVE At(f[i + 1], T, sec, m)
      OBVIOUS
    <2>1. i + 1 \in 1..n /\ (i + 1) - 1 = i
      BY <1>3
    <2>2. At(f[i], T, sec, m)
      BY <1>3, <1>8, <2>1
    <2>3. f[i + 1] = LoadLine(f[i], lines[i + 1])
      BY <1>6, <2>1
    <2>4. lines[i + 1].kind = "comment" /\ lines[i + 1].marks \in Nat
      BY <1>2, <2>1
    <2>5. f[i] \in Parsers(T) /\ f[i].open
      BY <2>2 DEF At
    <2>6. Reads(f[i + 1], T, f[i].content, f[i].section)
      BY <2>3, <2>4, <2>5, LoadComment
    <2> QED BY <2>2, <2>6 DEF Reads, At
  <1>9. n \in G
    <2> HIDE DEF G
    <2> QED BY <1>3, <1>7, <1>8, SetInduction
  <1> QED BY <1>3, <1>5, <1>9 DEF lines

\* A line with the comments before it.
Block(com, line) == Append(CommentLines(com), line)

LEMMA BlockLoaded ==
    ASSUME NEW T, NEW st, NEW sec, NEW m, At(st, T, sec, m),
           NEW com, IsComment(com), NEW line, line \in Lines(T)
    PROVE  /\ IsLines(Block(com, line), T)
           /\ \E s : /\ At(s, T, sec, m)
                     /\ LoadLines(st, Block(com, line)) = LoadLine(s, line)
  <1> DEFINE lines == CommentLines(com)
             s == LoadLines(st, lines)
  <1>1. IsLines(lines, T)
    BY CommentsPrinted
  <1>2. At(s, T, sec, m)
    BY CommentsLoaded
  <1>3. st \in Parsers(T) /\ s \in Parsers(T)
    BY <1>2 DEF At
  <1> HIDE DEF lines
  <1>4. IsLines(<<line>>, T) /\ LoadLines(s, <<line>>) = LoadLine(s, line)
    BY <1>3, LoadOne
  <1>5. Block(com, line) = lines \o <<line>>
    <2>1. lines \in Seq(Lines(T))
      BY <1>1 DEF IsLines
    <2> QED BY <2>1, AppendIsConcat DEF Block, lines
  <1>6. /\ IsLines(lines \o <<line>>, T)
        /\ LoadLines(st, lines \o <<line>>) = LoadLines(s, <<line>>)
    BY <1>1, <1>3, <1>4, LoadJoined
  <1> HIDE DEF s
  <1> QED BY <1>2, <1>4, <1>5, <1>6

LEMMA SectionBlockLoaded ==
    ASSUME NEW T, NEW st, NEW sec, NEW m, At(st, T, sec, m),
           NEW com, IsComment(com), NEW name, IsName(name)
    PROVE  /\ IsLines(Block(com, SectionLine(name)), T)
           /\ At(LoadLines(st, Block(com, SectionLine(name))), T, name, m)
  <1> DEFINE line == SectionLine(name)
             r == LoadLines(st, Block(com, line))
  <1>1. line.kind = "section" /\ line.name = name
    BY DEF SectionLine
  <1>2. line \in Lines(T)
    <2>1. line \in [kind : {"section"}, name : STRING]
      BY DEF SectionLine, IsName
    <2> QED BY <2>1 DEF Lines
  <1> HIDE DEF line
  <1>3. IsLines(Block(com, line), T)
    BY <1>2, BlockLoaded
  <1>4. PICK s : At(s, T, sec, m) /\ r = LoadLine(s, line)
    BY <1>2, BlockLoaded
  <1> HIDE DEF r
  <1>5. s \in Parsers(T) /\ s.open
    BY <1>4 DEF At
  <1>6. /\ Reads(LoadLine(s, line), T,
                 add_section(s.content, line.name, s.comments), line.name)
        /\ SettingsOf(LoadLine(s, line).content) = SettingsOf(s.content)
    BY <1>1, <1>5, LoadSection
  <1>7. At(r, T, name, m)
    BY <1>1, <1>4, <1>6 DEF At, Reads
  <1> QED BY <1>3, <1>7 DEF r, line

LEMMA RecordBlockLoaded ==
    ASSUME NEW T, NEW st, NEW sec, NEW m, At(st, T, sec, m), IsSection(sec),
           NEW com, IsComment(com), NEW key, IsName(key),
           NEW value, value \in T
    PROVE  /\ IsLines(Block(com, RecordLine(key, value)), T)
           /\ At(LoadLines(st, Block(com, RecordLine(key, value))), T, sec,
                 Put(m, <<sec, key>>, value))
  <1> DEFINE line == RecordLine(key, value)
             r == LoadLines(st, Block(com, line))
  <1>1. line.kind = "record" /\ line.key = key /\ line.value = value
    BY DEF RecordLine
  <1>2. line \in Lines(T)
    <2>1. line \in [kind : {"record"}, key : STRING, value : T]
      BY DEF RecordLine, IsName
    <2> QED BY <2>1 DEF Lines
  <1> HIDE DEF line
  <1>3. IsLines(Block(com, line), T)
    BY <1>2, BlockLoaded
  <1>4. PICK s : At(s, T, sec, m) /\ r = LoadLine(s, line)
    BY <1>2, BlockLoaded
  <1> HIDE DEF r
  <1>5. s \in Parsers(T) /\ s.open /\ IsSection(s.section)
    BY <1>4 DEF At
  <1>6. /\ Reads(LoadLine(s, line), T,
                 _append(s.content, s.section, line.key, line.value,
                         s.comments), s.section)
        /\ SettingsOf(LoadLine(s, line).content) =
              Put(SettingsOf(s.content), <<s.section, line.key>>, line.value)
    <2>1. IsName(line.key) /\ line.value \in T
      BY <1>1
    <2>2. line.kind = "record"
      BY <1>1
    <2> QED BY <1>5, <2>1, <2>2, LoadRecord
  <1>7. At(r, T, sec, Put(m, <<sec, key>>, value))
    BY <1>1, <1>4, <1>6 DEF At, Reads
  <1> QED BY <1>3, <1>7 DEF r, line

\* A record before the first k + 1 of section i.
Before(a, b, i, k) == a < i \/ (a = i /\ b <= k)

\* m holds the settings of the sections before i and of the first k records
\* of section i.
Done(c, m, i, k) ==
    /\ IsFunction(m)
    /\ \A s \in DOMAIN m :
          \E a \in 1..Len(c) : \E b \in 1..Len(c[a].data) :
             Before(a, b, i, k) /\ s = Name(c, a, b)
    /\ \A a \in 1..Len(c) : \A b \in 1..Len(c[a].data) :
          Before(a, b, i, k) =>
             Name(c, a, b) \in DOMAIN m /\ m[Name(c, a, b)] = c[a].data[b].value

LEMMA DoneNothing ==
    ASSUME NEW T, NEW c, IsList(c, T)
    PROVE  Done(c, <<>>, 1, 0)
  <1>1. IsFunction(<<>>) /\ DOMAIN <<>> = {}
    BY DEF IsFunction
  <1>2. \A a \in 1..Len(c) : \A b \in 1..Len(c[a].data) : ~Before(a, b, 1, 0)
    <2> TAKE a \in 1..Len(c)
    <2> TAKE b \in 1..Len(c[a].data)
    <2>1. Len(c) \in Nat /\ Len(c[a].data) \in Nat
      BY ListTypes
    <2> QED BY <2>1 DEF Before
  <1> QED BY <1>1, <1>2 DEF Done

LEMMA DoneRecord ==
    ASSUME NEW T, NEW c, IsList(c, T), NEW i, i \in 1..Len(c), NEW k,
           k + 1 \in 1..Len(c[i].data), k \in Nat, NEW m, Done(c, m, i, k)
    PROVE  Done(c, Put(m, <<c[i].name, c[i].data[k + 1].key>>,
                       c[i].data[k + 1].value), i, k + 1)
  <1> DEFINE s0 == Name(c, i, k + 1)
             v == c[i].data[k + 1].value
             new == Put(m, s0, v)
  <1>1. /\ IsFunction(new) /\ DOMAIN new = DOMAIN m \cup {s0} /\ new[s0] = v
        /\ \A s \in DOMAIN m : s # s0 => new[s] = m[s]
    BY DEF Put, IsFunction
  <1>2. \A a \in 1..Len(c) : \A b \in 1..Len(c[a].data) :
           Name(c, a, b) = s0 => a = i /\ b = k + 1
    <2> SUFFICES ASSUME NEW a \in 1..Len(c), NEW b \in 1..Len(c[a].data),
                        Name(c, a, b) = s0
                 PROVE  a = i /\ b = k + 1
      OBVIOUS
    <2>1. c[a].name = c[i].name /\ c[a].data[b].key = c[i].data[k + 1].key
      BY DEF Name
    <2>2. a = i
      BY <2>1 DEF IsList
    <2>3. b = k + 1
      BY <2>1, <2>2 DEF IsList
    <2> QED BY <2>2, <2>3
  <1>3. \A a, b : Before(a, b, i, k) => ~(a = i /\ b = k + 1)
    <2>1. i \in Int
      BY ListTypes
    <2> QED BY <2>1 DEF Before
  <1>4. \A a \in 1..Len(c) : \A b \in 1..Len(c[a].data) :
           Before(a, b, i, k + 1) <=>
              Before(a, b, i, k) \/ (a = i /\ b = k + 1)
    <2> TAKE a \in 1..Len(c)
    <2> TAKE b \in 1..Len(c[a].data)
    <2>1. Len(c) \in Nat /\ Len(c[a].data) \in Nat
      BY ListTypes
    <2>2. b \in Nat
      BY <2>1
    <2>3. b <= k + 1 <=> b <= k \/ b = k + 1
      BY <2>2
    <2>4. i \in Int /\ a \in Int
      BY <2>1
    <2> QED BY <2>3, <2>4 DEF Before
  <1> HIDE DEF new, s0
  <1>5. ASSUME NEW s \in DOMAIN new
        PROVE  \E a \in 1..Len(c) : \E b \in 1..Len(c[a].data) :
                  Before(a, b, i, k + 1) /\ s = Name(c, a, b)
    <2>1. CASE s = s0
      <3>1. Before(i, k + 1, i, k + 1)
        BY <1>4
      <3> QED BY <2>1, <3>1 DEF s0
    <2>2. CASE s \in DOMAIN m
      <3>1. PICK a \in 1..Len(c) : \E b \in 1..Len(c[a].data) :
               Before(a, b, i, k) /\ s = Name(c, a, b)
        BY <2>2 DEF Done
      <3> QED BY <1>4, <3>1
    <2> QED BY <1>1, <2>1, <2>2
  <1>6. ASSUME NEW a \in 1..Len(c), NEW b \in 1..Len(c[a].data),
               Before(a, b, i, k + 1)
        PROVE  /\ Name(c, a, b) \in DOMAIN new
               /\ new[Name(c, a, b)] = c[a].data[b].value
    <2>1. CASE a = i /\ b = k + 1
      BY <1>1, <2>1 DEF s0
    <2>2. CASE Before(a, b, i, k)
      <3>1. Name(c, a, b) \in DOMAIN m /\ m[Name(c, a, b)] = c[a].data[b].value
        BY <2>2 DEF Done
      <3>2. Name(c, a, b) # s0
        BY <1>2, <1>3, <2>2
      <3> QED BY <1>1, <3>1, <3>2
    <2> QED BY <1>4, <1>6, <2>1, <2>2
  <1>7. Done(c, new, i, k + 1)
    BY <1>1, <1>5, <1>6 DEF Done
  <1> QED BY <1>7 DEF new, s0, Name

LEMMA DoneSection ==
    ASSUME NEW T, NEW c, IsList(c, T), NEW i, i \in 1..Len(c), NEW m,
           Done(c, m, i, Len(c[i].data))
    PROVE  Done(c, m, i + 1, 0)
  <1>1. \A a \in 1..Len(c) : \A b \in 1..Len(c[a].data) :
           Before(a, b, i + 1, 0) <=> Before(a, b, i, Len(c[i].data))
    <2> TAKE a \in 1..Len(c)
    <2> TAKE b \in 1..Len(c[a].data)
    <2>1. /\ Len(c) \in Nat /\ Len(c[a].data) \in Nat
          /\ Len(c[i].data) \in Nat
      BY ListTypes
    <2>2. i \in Int /\ a \in Int /\ b \in Nat /\ b # 0
      BY <2>1
    <2>3. a < i + 1 <=> a < i \/ a = i
      BY <2>2
    <2>4. ~(b <= 0)
      BY <2>2
    <2>5. a = i => b <= Len(c[i].data)
      BY <2>1
    <2> QED BY <2>3, <2>4, <2>5 DEF Before
  <1> QED BY <1>1 DEF Done

LEMMA DoneAll ==
    ASSUME NEW T, NEW c, IsList(c, T), NEW m, Done(c, m, Len(c) + 1, 0)
    PROVE  SettingsOf(c) = m
  <1>1. Len(c) \in Nat
    BY ListTypes
  <1>2. \A a \in 1..Len(c) : \A b : Before(a, b, Len(c) + 1, 0)
    BY <1>1 DEF Before
  <1>3. \A s : s \in DOMAIN m <=> Recorded(c, s)
    BY <1>2 DEF Done, Recorded, Name
  <1>4. \A a \in 1..Len(c) : \A b \in 1..Len(c[a].data) :
           m[<<c[a].name, c[a].data[b].key>>] = c[a].data[b].value
    BY <1>2 DEF Done, Name
  <1>5. IsFunction(m)
    BY DEF Done
  <1> QED BY <1>3, <1>4, <1>5, SettingsEqual

LEMMA BlockIsLines ==
    ASSUME NEW T, NEW com, IsComment(com), NEW line, line \in Lines(T)
    PROVE  IsLines(Block(com, line), T)
  <1>1. CommentLines(com) \in Seq(Lines(T))
    BY CommentsPrinted DEF IsLines
  <1> QED BY <1>1, AppendProperties DEF IsLines, Block

LEMMA RecordIsLine ==
    ASSUME NEW T, NEW rec, rec \in Records(T)
    PROVE  /\ RecordLine(rec.key, rec.value) \in Lines(T)
           /\ IsComment(rec.comments) /\ IsName(rec.key) /\ rec.value \in T
  <1>1. rec.key \in STRING /\ rec.value \in T /\ rec.comments \in Seq(Nat)
    BY DEF Records
  <1>2. RecordLine(rec.key, rec.value)
           \in [kind : {"record"}, key : STRING, value : T]
    BY <1>1 DEF RecordLine
  <1> QED BY <1>1, <1>2 DEF Lines, IsComment, IsName

LEMMA SectionIsLine ==
    ASSUME NEW T, NEW name, IsName(name)
    PROVE  SectionLine(name) \in Lines(T)
  <1>1. SectionLine(name) \in [kind : {"section"}, name : STRING]
    BY DEF SectionLine, IsName
  <1> QED BY <1>1 DEF Lines

\* Lines printed in n parts: what is printed after each of them.
IsPrinted(g, T, n, parts) ==
    /\ \A k \in 0..n : IsLines(g[k], T)
    /\ g[0] = <<>>
    /\ \A k \in 1..n : g[k] = g[k - 1] \o parts[k]

LEMMA PrintedInParts ==
    ASSUME NEW T, NEW n, n \in Nat, NEW parts,
           parts = [k \in 1..n |-> parts[k]],
           \A k \in 1..n : IsLines(parts[k], T)
    PROVE  \E g : IsPrinted(g, T, n, parts) /\ FlattenSeq(parts) = g[n]
  <1> DEFINE L == Lines(T)
  <1>1. \A k \in 1..n : parts[k] \in Seq(L)
    BY DEF IsLines
  <1> HIDE DEF L
  <1>2. parts \in [1..n -> Seq(L)]
    BY <1>1
  <1>3. parts \in Seq(Seq(L))
    BY <1>2, SeqDef
  <1>4. Len(parts) = n
    BY <1>2
  <1>5. PICK g : IsFlat(g, L, parts) /\ FlattenSeq(parts) = g[Len(parts)]
    BY <1>3, FlatRun
  <1>6. IsPrinted(g, T, n, parts)
    BY <1>4, <1>5 DEF IsFlat, IsPrinted, IsLines, L
  <1> QED BY <1>4, <1>5, <1>6

RecordBlock(rec) == Block(rec.comments, RecordLine(rec.key, rec.value))

LEMMA RecordBlockIsLines ==
    ASSUME NEW T, NEW rec, rec \in Records(T)
    PROVE  IsLines(RecordBlock(rec), T)
  BY RecordIsLine, BlockIsLines DEF RecordBlock

\* The records of a section.
LEMMA RecordsPrinted ==
    ASSUME NEW T, NEW data, data \in Seq(Records(T))
    PROVE  \E g : /\ IsPrinted(g, T, Len(data),
                               [j \in 1..Len(data) |-> RecordBlock(data[j])])
                  /\ RecordLines(data) = g[Len(data)]
  <1> DEFINE n == Len(data)
             parts == [j \in 1..n |-> RecordBlock(data[j])]
  <1>1. n \in Nat /\ DOMAIN data = 1..n
    OBVIOUS
  <1>2. \A j \in 1..n : data[j] \in Records(T)
    OBVIOUS
  <1>3. RecordLines(data) = FlattenSeq(parts)
    BY <1>1 DEF RecordLines, RecordBlock, Block
  <1>4. \A j \in 1..n : parts[j] = RecordBlock(data[j])
    OBVIOUS
  <1>5. \A j \in 1..n : IsLines(parts[j], T)
    <2> HIDE DEF n, parts
    <2> QED BY <1>2, <1>4, RecordBlockIsLines
  <1>6. parts = [j \in 1..n |-> parts[j]]
    OBVIOUS
  <1>7. \E g : IsPrinted(g, T, n, parts) /\ FlattenSeq(parts) = g[n]
    <2> HIDE DEF n, parts
    <2> QED BY <1>1, <1>5, <1>6, PrintedInParts
  <1> QED BY <1>3, <1>7

LEMMA RecordsLoaded ==
    ASSUME NEW T, NEW c, IsList(c, T), NEW i, i \in 1..Len(c), NEW st, NEW m,
           At(st, T, c[i].name, m), Done(c, m, i, 0)
    PROVE  /\ IsLines(RecordLines(c[i].data), T)
           /\ \E m2 : /\ At(LoadLines(st, RecordLines(c[i].data)), T,
                            c[i].name, m2)
                      /\ Done(c, m2, i + 1, 0)
  <1> DEFINE data == c[i].data
             n == Len(data)
             sec == c[i].name
             parts == [j \in 1..n |-> RecordBlock(data[j])]
  <1>1. data \in Seq(Records(T))
    BY ListTypes
  <1>2. n \in Nat
    BY ListTypes
  <1>3. PICK g : IsPrinted(g, T, n, parts) /\ RecordLines(data) = g[n]
    <2> HIDE DEF data
    <2> QED BY <1>1, RecordsPrinted
  <1>4. \A j \in 1..n : parts[j] = RecordBlock(data[j])
    OBVIOUS
  <1> HIDE DEF parts
  <1>5. /\ \A k \in 0..n : IsLines(g[k], T)
        /\ g[0] = <<>>
        /\ \A k \in 1..n : g[k] = g[k - 1] \o RecordBlock(data[k])
    BY <1>3, <1>4 DEF IsPrinted
  <1>6. \A j \in 1..n : data[j] \in Records(T)
    BY ListTypes
  <1>7. n # 0 => IsSection(sec)
    <2>1. sec = "" => data = <<>>
      BY DEF IsList
    <2>2. IsName(sec)
      BY ListTypes DEF IsName
    <2>3. Len(<<>>) = 0
      OBVIOUS
    <2> QED BY <2>1, <2>2, <2>3 DEF IsSection
  <1>8. st \in Parsers(T)
    BY DEF At
  <1> DEFINE Good(k) == \E mk : /\ At(LoadLines(st, g[k]), T, sec, mk)
                                /\ Done(c, mk, i, k)
             G == {k \in Nat : k <= n => Good(k)}
  <1>9. 0 \in G
    <2>1. LoadLines(st, g[0]) = st
      BY <1>5, <1>8, LoadNothing
    <2> QED BY <2>1
  <1>10. ASSUME NEW k \in Nat, k \in G
         PROVE  k + 1 \in G
    <2> SUFFICES ASSUME k + 1 <= n PROVE Good(k + 1)
      OBVIOUS
    <2> DEFINE j == k + 1
               rec == data[j]
               s == LoadLines(st, g[k])
    <2>1. j \in 1..n /\ k \in 0..n /\ j - 1 = k /\ n # 0 /\ k <= n
      <3> HIDE DEF n
      <3> QED BY <1>2
    <2>2. PICK mk : At(s, T, sec, mk) /\ Done(c, mk, i, k)
      BY <1>10, <2>1
    <2>3. rec \in Records(T)
      BY <1>6, <2>1
    <2>4. g[j] = g[k] \o RecordBlock(rec)
      <3> HIDE DEF j
      <3> QED BY <1>5, <2>1
    <2>5. IsLines(g[k], T)
      BY <1>5, <2>1
    <2>6. IsLines(RecordBlock(rec), T)
      BY <2>3, RecordBlockIsLines
    <2>7. LoadLines(st, g[j]) = LoadLines(s, RecordBlock(rec))
      <3> HIDE DEF rec, j
      <3> QED BY <1>8, <2>4, <2>5, <2>6, LoadJoined
    <2>8. At(LoadLines(s, RecordBlock(rec)), T, sec,
             Put(mk, <<sec, rec.key>>, rec.value))
      <3>1. IsComment(rec.comments) /\ IsName(rec.key) /\ rec.value \in T
        BY <2>3, RecordIsLine
      <3>2. IsSection(sec)
        BY <1>7, <2>1
      <3>3. At(s, T, sec, mk)
        BY <2>2
      <3> HIDE DEF s, rec, sec
      <3> QED BY <3>1, <3>2, <3>3, RecordBlockLoaded DEF RecordBlock
    <2>9. Done(c, Put(mk, <<sec, rec.key>>, rec.value), i, j)
      BY <2>1, <2>2, DoneRecord
    <2> HIDE DEF j, s, rec, sec
    <2>10. Good(j)
      BY <2>7, <2>8, <2>9
    <2> QED BY <2>10 DEF j
  <1>11. n \in G
    <2> HIDE DEF G
    <2> QED BY <1>2, <1>9, <1>10, SetInduction
  <1>12. Good(n)
    BY <1>2, <1>11
  <1>13. PICK mn : At(LoadLines(st, g[n]), T, sec, mn) /\ Done(c, mn, i, n)
    BY <1>12
  <1>14. Done(c, mn, i + 1, 0)
    BY <1>13, DoneSection
  <1>15. IsLines(g[n], T)
    BY <1>2, <1>5
  <1> QED BY <1>3, <1>13, <1>14, <1>15

SectionBlock(section) == Block(section.comments, SectionLine(section.name))

LEMMA SectionIsLines ==
    ASSUME NEW T, NEW section, section \in Sections(T)
    PROVE  /\ IsLines(SectionBlock(section), T)
           /\ IsLines(RecordLines(section.data), T)
           /\ SectionLines(section) =
                 SectionBlock(section) \o RecordLines(section.data)
           /\ IsLines(SectionLines(section), T)
  <1> DEFINE data == section.data
  <1>1. /\ IsName(section.name) /\ IsComment(section.comments)
        /\ data \in Seq(Records(T))
    BY DEF Sections, IsName, IsComment
  <1>2. IsLines(SectionBlock(section), T)
    BY <1>1, SectionIsLine, BlockIsLines DEF SectionBlock
  <1> HIDE DEF data
  <1>3. IsLines(RecordLines(data), T)
    <2>1. data \in Seq(Records(T))
      BY <1>1
    <2>2. Len(data) \in Nat
      BY <2>1
    <2>3. PICK g : /\ IsPrinted(g, T, Len(data),
                               [j \in 1..Len(data) |-> RecordBlock(data[j])])
                   /\ RecordLines(data) = g[Len(data)]
      BY <2>1, RecordsPrinted
    <2> QED BY <2>2, <2>3 DEF IsPrinted
  <1>4. SectionLines(section) = SectionBlock(section) \o RecordLines(data)
    BY DEF SectionLines, SectionBlock, Block, data
  <1>5. SectionBlock(section) \o RecordLines(data) \in Seq(Lines(T))
    BY <1>2, <1>3, ConcatProperties DEF IsLines
  <1> QED BY <1>2, <1>3, <1>4, <1>5 DEF data, IsLines

LEMMA SectionLoaded ==
    ASSUME NEW T, NEW c, IsList(c, T), NEW i, i \in 1..Len(c), NEW st, NEW m,
           NEW sec, At(st, T, sec, m), Done(c, m, i, 0)
    PROVE  \E m2 : /\ At(LoadLines(st, SectionLines(c[i])), T, c[i].name, m2)
                   /\ Done(c, m2, i + 1, 0)
  <1> DEFINE a == SectionBlock(c[i])
             b == RecordLines(c[i].data)
             s == LoadLines(st, a)
  <1>1. c[i] \in Sections(T) /\ IsName(c[i].name) /\ IsComment(c[i].comments)
    BY ListTypes DEF IsName, IsComment
  <1>2. /\ IsLines(a, T) /\ IsLines(b, T)
        /\ SectionLines(c[i]) = a \o b
    BY <1>1, SectionIsLines
  <1>3. At(s, T, c[i].name, m)
    BY <1>1, SectionBlockLoaded DEF SectionBlock
  <1>4. st \in Parsers(T)
    BY DEF At
  <1> HIDE DEF a
  <1>5. LoadLines(st, a \o b) = LoadLines(s, b)
    <2> HIDE DEF b
    <2> QED BY <1>2, <1>4, LoadJoined
  <1> HIDE DEF s
  <1>6. \E m2 : At(LoadLines(s, b), T, c[i].name, m2) /\ Done(c, m2, i + 1, 0)
    BY <1>3, RecordsLoaded
  <1> QED BY <1>2, <1>5, <1>6

LEMMA SavedInParts ==
    ASSUME NEW T, NEW c, IsList(c, T)
    PROVE  \E g : /\ IsPrinted(g, T, Len(c),
                               [i \in 1..Len(c) |-> SectionLines(c[i])])
                  /\ SavedLines(c) = g[Len(c)]
  <1> DEFINE n == Len(c)
             parts == [i \in 1..n |-> SectionLines(c[i])]
  <1>1. n \in Nat /\ DOMAIN c = 1..n
    BY ListTypes
  <1>2. \A i \in 1..n : c[i] \in Sections(T)
    BY ListTypes
  <1>3. SavedLines(c) = FlattenSeq(parts)
    BY <1>1 DEF SavedLines
  <1>4. \A i \in 1..n : parts[i] = SectionLines(c[i])
    OBVIOUS
  <1>5. parts = [i \in 1..n |-> parts[i]]
    OBVIOUS
  <1> HIDE DEF n, parts
  <1>6. \A i \in 1..n : IsLines(parts[i], T)
    BY <1>2, <1>4, SectionIsLines
  <1>7. \E g : IsPrinted(g, T, n, parts) /\ FlattenSeq(parts) = g[n]
    BY <1>1, <1>5, <1>6, PrintedInParts
  <1> QED BY <1>3, <1>7 DEF n, parts

LEMMA SavedIsLines ==
    ASSUME NEW T, NEW c, IsList(c, T)
    PROVE  IsLines(SavedLines(c), T)
  <1>1. PICK g : /\ IsPrinted(g, T, Len(c),
                             [i \in 1..Len(c) |-> SectionLines(c[i])])
                 /\ SavedLines(c) = g[Len(c)]
    BY SavedInParts
  <1>2. Len(c) \in Nat
    BY ListTypes
  <1> QED BY <1>1, <1>2 DEF IsPrinted

\* The parser at the first line.
Opened == [content |-> <<>>, comments |-> NoComment, section |-> "",
           loaded |-> FALSE, open |-> TRUE]

LEMMA OpenedAt ==
    ASSUME NEW T
    PROVE  At(Opened, T, "", <<>>)
  <1>1. IsList(<<>>, T) /\ SettingsOf(<<>>) = <<>>
    BY EmptyList
  <1>2. <<>> \in Seq(Sections(T))
    BY <1>1 DEF IsList
  <1>3. Opened \in Fields(T)
    BY <1>2, EmptyComment DEF Opened, Fields
  <1>4. /\ Opened.content = <<>> /\ Opened.section = ""
        /\ Opened.open = TRUE
    BY DEF Opened
  <1>5. Opened \in Parsers(T)
    BY <1>1, <1>3, <1>4 DEF Parsers
  <1> QED BY <1>1, <1>4, <1>5 DEF At

LEMMA LoadFrom ==
    ASSUME NEW T, NEW lines, IsLines(lines, T)
    PROVE  /\ Opened \in Parsers(T)
           /\ load(lines) = LoadLines(Opened, lines)
           /\ load(lines) \in Parsers(T)
  <1>1. Opened \in Parsers(T)
    BY OpenedAt DEF At
  <1>2. load(lines) = LoadLines(Opened, lines)
    BY DEF load, Opened
  <1> QED BY <1>1, <1>2, LoadTypes

\* What is printed is read back.
LEMMA RoundTrip ==
    ASSUME NEW T, NEW c, IsList(c, T)
    PROVE  SettingsOf(load(SavedLines(c)).content) = SettingsOf(c)
  <1> DEFINE n == Len(c)
             parts == [i \in 1..n |-> SectionLines(c[i])]
  <1>1. n \in Nat
    BY ListTypes
  <1>2. PICK g : IsPrinted(g, T, n, parts) /\ SavedLines(c) = g[n]
    BY SavedInParts
  <1>3. \A i \in 1..n : parts[i] = SectionLines(c[i])
    OBVIOUS
  <1> HIDE DEF parts
  <1>4. /\ \A k \in 0..n : IsLines(g[k], T)
        /\ g[0] = <<>>
        /\ \A k \in 1..n : g[k] = g[k - 1] \o SectionLines(c[k])
    BY <1>2, <1>3 DEF IsPrinted
  <1>5. \A k \in 1..n : IsLines(SectionLines(c[k]), T)
    BY ListTypes, SectionIsLines
  <1>6. Opened \in Parsers(T)
    BY OpenedAt DEF At
  <1> DEFINE Good(k) == \E m, sec : /\ At(LoadLines(Opened, g[k]), T, sec, m)
                                    /\ Done(c, m, k + 1, 0)
             G == {k \in Nat : k <= n => Good(k)}
  <1>7. 0 \in G
    <2>1. LoadLines(Opened, g[0]) = Opened
      BY <1>4, <1>6, LoadNothing
    <2>2. Done(c, <<>>, 0 + 1, 0)
      BY DoneNothing
    <2>3. Good(0)
      BY <2>1, <2>2, OpenedAt
    <2> QED BY <2>3
  <1>8. ASSUME NEW k \in Nat, k \in G
        PROVE  k + 1 \in G
    <2> SUFFICES ASSUME k + 1 <= n PROVE Good(k + 1)
      OBVIOUS
    <2> DEFINE i == k + 1
               s == LoadLines(Opened, g[k])
    <2>1. i \in 1..n /\ k \in 0..n /\ i - 1 = k /\ k <= n
      <3> HIDE DEF n
      <3> QED BY <1>1
    <2>2. PICK m, sec : At(s, T, sec, m) /\ Done(c, m, i, 0)
      BY <1>8, <2>1
    <2> HIDE DEF i
    <2>3. g[i] = g[k] \o SectionLines(c[i])
      BY <1>4, <2>1
    <2>4. IsLines(g[k], T) /\ IsLines(SectionLines(c[i]), T)
      BY <1>4, <1>5, <2>1
    <2>5. LoadLines(Opened, g[i]) = LoadLines(s, SectionLines(c[i]))
      BY <1>6, <2>3, <2>4, LoadJoined
    <2> HIDE DEF s
    <2>6. \E m2 : /\ At(LoadLines(s, SectionLines(c[i])), T, c[i].name, m2)
                  /\ Done(c, m2, i + 1, 0)
      BY <2>1, <2>2, SectionLoaded
    <2>7. Good(i)
      BY <2>5, <2>6
    <2> QED BY <2>7 DEF i
  <1>9. n \in G
    <2> HIDE DEF G
    <2> QED BY <1>1, <1>7, <1>8, SetInduction
  <1>10. Good(n)
    BY <1>1, <1>9
  <1>11. PICK m, sec : /\ At(LoadLines(Opened, g[n]), T, sec, m)
                       /\ Done(c, m, n + 1, 0)
    BY <1>10
  <1>12. SettingsOf(c) = m
    BY <1>11, DoneAll
  <1>13. load(SavedLines(c)) = LoadLines(Opened, g[n])
    BY <1>2 DEF load, Opened
  <1> QED BY <1>11, <1>12, <1>13 DEF At

-----------------------------------------------------------------------------
(* A file that was not written to its end.                                 *)

D(st) == DOMAIN SettingsOf(st.content)

\* The line that is cut sets nothing that the whole line would not.
LEMMA CutLineLoaded ==
    ASSUME NEW T, NoText \in T, <<"cut">> \in T,
           NEW st, st \in Parsers(T), NEW line, line \in Lines(T),
           NEW cut, cut \in CutLine(line)
    PROVE  /\ cut \in Lines(T)
           /\ D(LoadLine(st, cut)) \subseteq D(LoadLine(st, line))
  <1>1. D(st) \subseteq D(LoadLine(st, line))
    BY LineLoaded DEF D
  <1>2. CASE cut = MalformedLine
    <2>1. cut \in [kind : {"empty", "malformed", "missing"}]
      BY <1>2 DEF MalformedLine
    <2>2. cut.kind \notin {"section", "comment", "record"}
      BY <1>2 DEF MalformedLine
    <2>3. LoadLine(st, cut).content = st.content
      BY <2>2, LoadOther
    <2> QED BY <1>1, <2>1, <2>3 DEF D, Lines
  <1>3. CASE cut = line
    BY <1>3
  <1>4. CASE /\ line.kind = "record"
             /\ \E v \in T : cut = RecordLine(line.key, v)
    <2>1. PICK v \in T : cut = RecordLine(line.key, v)
      BY <1>4
    <2>2. cut.kind = "record" /\ cut.key = line.key /\ cut.value = v
      BY <2>1 DEF RecordLine
    <2>3. IsName(line.key) /\ line.value \in T
      BY <1>4, LineKinds
    <2>4. cut \in [kind : {"record"}, key : STRING, value : T]
      BY <2>1, <2>3 DEF RecordLine, IsName
    <2>5. cut \in Lines(T)
      BY <2>4 DEF Lines
    <2>6. CASE st.open /\ st.section # ""
      <3>0. st.open /\ IsSection(st.section)
        BY <2>6, ParserTypes
      <3>1. line.kind = "record"
        BY <1>4
      <3>2. SettingsOf(LoadLine(st, line).content) =
               Put(SettingsOf(st.content), <<st.section, line.key>>, line.value)
        BY <2>3, <3>0, <3>1, LoadRecord
      <3>3. IsName(cut.key) /\ cut.value \in T /\ cut.kind = "record"
        BY <2>2, <2>3
      <3>4. SettingsOf(LoadLine(st, cut).content) =
               Put(SettingsOf(st.content), <<st.section, cut.key>>, cut.value)
        BY <3>0, <3>3, LoadRecord
      <3> QED BY <2>2, <2>5, <3>2, <3>4 DEF Put, D
    <2>7. CASE ~st.open \/ st.section = ""
      <3>1. LoadLine(st, cut).content = st.content
        BY <2>2, <2>7, LoadOther
      <3> QED BY <1>1, <2>5, <3>1 DEF D
    <2> QED BY <2>6, <2>7
  <1>5. \/ cut = MalformedLine
        \/ cut = line
        \/ line.kind = "record" /\ \E v \in T : cut = RecordLine(line.key, v)
    <2>1. CASE line.kind = "record"
      BY <2>1 DEF CutLine
    <2>2. CASE line.kind = "section"
      BY <2>2 DEF CutLine
    <2>3. CASE line.kind # "record" /\ line.kind # "section"
      BY <2>3 DEF CutLine
    <2> QED BY <2>1, <2>2, <2>3
  <1> QED BY <1>2, <1>3, <1>4, <1>5

\* The first lines of a file.
LEMMA FirstLines ==
    ASSUME NEW L, NEW lines \in Seq(L), NEW n \in 0..Len(lines)
    PROVE  /\ SubSeq(lines, 1, n) \in Seq(L)
           /\ SubSeq(lines, n + 1, Len(lines)) \in Seq(L)
           /\ lines = SubSeq(lines, 1, n) \o SubSeq(lines, n + 1, Len(lines))
           /\ n < Len(lines) =>
                 SubSeq(lines, 1, n + 1) = SubSeq(lines, 1, n) \o <<lines[n + 1]>>
  <1> DEFINE N == Len(lines)
             a == SubSeq(lines, 1, n)
             b == SubSeq(lines, n + 1, N)
  <1>0. N \in Nat /\ n \in Nat /\ n <= N
    OBVIOUS
  <1>1. a \in Seq(L) /\ Len(a) = n /\ \A i \in 1..n : a[i] = lines[i]
    BY <1>0, SubSeqProperties
  <1>2. b \in Seq(L) /\ Len(b) = N - n /\ \A i \in 1..(N - n) : b[i] = lines[n + i]
    BY <1>0, SubSeqProperties
  <1>3. /\ a \o b \in Seq(L) /\ Len(a \o b) = n + (N - n)
        /\ \A i \in 1..n : (a \o b)[i] = a[i]
        /\ \A i \in 1..(N - n) : (a \o b)[n + i] = b[i]
    <2> HIDE DEF a, b
    <2>1. a \in Seq(L) /\ b \in Seq(L)
      BY <1>1, <1>2
    <2>2. /\ a \o b \in Seq(L) /\ Len(a \o b) = Len(a) + Len(b)
          /\ \A i \in 1..Len(a) : (a \o b)[i] = a[i]
          /\ \A i \in 1..Len(b) : (a \o b)[Len(a) + i] = b[i]
      BY <2>1, Joined
    <2>3. Len(a) = n /\ Len(b) = N - n
      BY <1>1, <1>2
    <2> HIDE DEF N
    <2> QED BY <2>2, <2>3
  <1>4. a \o b = lines
    <2> HIDE DEF a, b, N
    <2>1. n + (N - n) = N
      BY <1>0
    <2>2. ASSUME NEW i \in 1..N
          PROVE  (a \o b)[i] = lines[i]
      <3>1. CASE i <= n
        <4>1. i \in 1..n
          BY <1>0, <3>1
        <4> QED BY <1>1, <1>3, <4>1
      <3>2. CASE ~(i <= n)
        <4>1. i - n \in 1..(N - n) /\ n + (i - n) = i
          BY <1>0, <3>2
        <4>2. (a \o b)[n + (i - n)] = b[i - n] /\ b[i - n] = lines[n + (i - n)]
          BY <1>2, <1>3, <4>1
        <4> QED BY <4>1, <4>2
      <3> QED BY <3>1, <3>2
    <2>3. Len(a \o b) = Len(lines)
      BY <1>3, <2>1 DEF N
    <2>4. a \o b \in Seq(L)
      BY <1>3
    <2>5. \A i \in 1..Len(a \o b) : (a \o b)[i] = lines[i]
      BY <2>2, <2>3 DEF N
    <2> DEFINE ab == a \o b
    <2> HIDE DEF ab
    <2>6. ab = lines
      BY <2>3, <2>4, <2>5, SeqEqual DEF ab
    <2> QED BY <2>6 DEF ab
  <1>5. ASSUME n < N
        PROVE  SubSeq(lines, 1, n + 1) = a \o <<lines[n + 1]>>
    <2> DEFINE d == SubSeq(lines, 1, n + 1)
               e == lines[n + 1]
    <2>1. n + 1 \in 1..N /\ e \in L
      BY <1>0, <1>5
    <2>2. d \in Seq(L) /\ Len(d) = n + 1 /\ \A i \in 1..(n + 1) : d[i] = lines[i]
      BY <1>0, <2>1, SubSeqProperties
    <2> HIDE DEF a, d
    <2>3. /\ Append(a, e) \in Seq(L) /\ Len(Append(a, e)) = n + 1
          /\ \A i \in 1..n : Append(a, e)[i] = a[i]
          /\ Append(a, e)[n + 1] = e
      BY <1>1, <2>1, AppendProperties
    <2>4. Append(a, e) = a \o <<e>>
      BY <1>1, <2>1, AppendIsConcat
    <2>5. \A i \in 1..(n + 1) : d[i] = Append(a, e)[i]
      <3> TAKE i \in 1..(n + 1)
      <3>1. i \in 1..n \/ i = n + 1
        BY <1>0
      <3> QED BY <1>1, <2>2, <2>3, <3>1
    <2> DEFINE f == Append(a, e)
    <2>6. /\ f \in Seq(L) /\ d \in Seq(L) /\ Len(d) = Len(f)
          /\ \A i \in 1..Len(d) : d[i] = f[i]
      BY <2>2, <2>3, <2>5
    <2> HIDE DEF f
    <2>7. d = f
      BY <2>6, SeqEqual
    <2> QED BY <2>4, <2>7 DEF d, f
  <1> QED BY <1>1, <1>2, <1>4, <1>5

LEMMA PrefixLoaded ==
    ASSUME NEW T, NEW lines, IsLines(lines, T), NEW n, n \in 0..Len(lines)
    PROVE  /\ IsLines(SubSeq(lines, 1, n), T)
           /\ D(load(SubSeq(lines, 1, n))) \subseteq D(load(lines))
  <1> DEFINE a == SubSeq(lines, 1, n)
             b == SubSeq(lines, n + 1, Len(lines))
  <1>1. IsLines(a, T) /\ IsLines(b, T) /\ lines = a \o b
    BY FirstLines DEF IsLines
  <1> HIDE DEF a, b
  <1>2. Opened \in Parsers(T) /\ load(a) = LoadLines(Opened, a)
    BY <1>1, LoadFrom
  <1>3. load(lines) = LoadLines(Opened, a \o b)
    BY <1>1, LoadFrom
  <1>4. LoadLines(Opened, a \o b) = LoadLines(load(a), b)
    BY <1>1, <1>2, LoadJoined
  <1>5. load(a) \in Parsers(T)
    BY <1>1, LoadFrom
  <1>6. D(load(a)) \subseteq D(LoadLines(load(a), b))
    BY <1>1, <1>5, LoadMonotonic DEF D
  <1> QED BY <1>1, <1>3, <1>4, <1>6 DEF a

LEMMA CutLoaded ==
    ASSUME NEW T, NoText \in T, <<"cut">> \in T,
           NEW lines, IsLines(lines, T), NEW n, n \in 0..(Len(lines) - 1),
           NEW cut, cut \in CutLine(lines[n + 1])
    PROVE  /\ IsLines(Append(SubSeq(lines, 1, n), cut), T)
           /\ D(load(Append(SubSeq(lines, 1, n), cut))) \subseteq D(load(lines))
  <1> DEFINE a == SubSeq(lines, 1, n)
             line == lines[n + 1]
             whole == SubSeq(lines, 1, n + 1)
  <1>0. Len(lines) \in Nat
    BY LinesTypes
  <1>1. /\ n \in Nat /\ n \in 0..Len(lines) /\ n < Len(lines)
        /\ n + 1 \in 0..Len(lines) /\ n + 1 \in 1..Len(lines)
    BY <1>0
  <1>2. IsLines(a, T) /\ whole = a \o <<line>>
    BY <1>1, FirstLines DEF IsLines
  <1>3. line \in Lines(T)
    BY <1>1, LinesTypes
  <1>4. D(load(whole)) \subseteq D(load(lines)) /\ IsLines(whole, T)
    BY <1>1, PrefixLoaded
  <1> HIDE DEF a, line, whole
  <1>5. Opened \in Parsers(T) /\ load(a) = LoadLines(Opened, a)
    BY <1>2, LoadFrom
  <1>6. load(a) \in Parsers(T)
    BY <1>2, LoadFrom
  <1> DEFINE s == load(a)
  <1>7. cut \in Lines(T) /\ D(LoadLine(s, cut)) \subseteq D(LoadLine(s, line))
    BY <1>3, <1>6, CutLineLoaded DEF line
  <1>8. ASSUME NEW l, l \in Lines(T)
        PROVE  IsLines(a \o <<l>>, T) /\ load(a \o <<l>>) = LoadLine(s, l)
    <2>1. IsLines(<<l>>, T) /\ LoadLines(s, <<l>>) = LoadLine(s, l)
      BY <1>6, <1>8, LoadOne
    <2>2. /\ IsLines(a \o <<l>>, T)
          /\ LoadLines(Opened, a \o <<l>>) = LoadLines(LoadLines(Opened, a), <<l>>)
      BY <1>2, <1>5, <2>1, LoadJoined
    <2>3. load(a \o <<l>>) = LoadLines(Opened, a \o <<l>>)
      BY <2>2, LoadFrom
    <2> QED BY <1>5, <2>1, <2>2, <2>3
  <1>9. Append(a, cut) = a \o <<cut>>
    <2>1. a \in Seq(Lines(T))
      BY <1>2 DEF IsLines
    <2>2. cut \in Lines(T)
      BY <1>7
    <2> QED BY <2>1, <2>2, AppendIsConcat
  <1>10. load(whole) = LoadLine(s, line)
    BY <1>2, <1>3, <1>8
  <1>11. IsLines(a \o <<cut>>, T) /\ load(a \o <<cut>>) = LoadLine(s, cut)
    BY <1>7, <1>8
  <1> HIDE DEF s
  <1>12. /\ IsLines(Append(a, cut), T)
         /\ D(load(Append(a, cut))) \subseteq D(load(lines))
    BY <1>4, <1>7, <1>9, <1>10, <1>11
  <1> QED BY <1>12 DEF a

-----------------------------------------------------------------------------
(* The inductive invariant.                                                *)

\* The text that a value of this type is printed as.
TextFor(v) ==
    CASE v[1] = "boolean" -> BooleanText(v[2])
      [] v[1] = "string" -> StringText(v[2])
      [] v[1] = "int" -> IntText(v[2])
      [] v[1] = "double" -> DoubleText(v[2])

Values ==
    ({"boolean"} \X BOOLEAN) \cup ({"string"} \X Strings)
        \cup ({"int"} \X Ints) \cup ({"double"} \X Doubles)

\* The values are those that the texts of these settings were printed from.
Shows(m, values) ==
    \A s \in DOMAIN values :
        /\ s \in Settings /\ values[s] \in Values
        /\ s \in DOMAIN m /\ m[s] = TextFor(values[s])

\* The list and the file are well-formed, and neither has a setting that
\* was in no file and that nobody set.
WellFormed ==
    /\ IsList(ini_content, SettingTexts)
    /\ DOMAIN SettingsOf(ini_content) \subseteq SettingNames
    /\ IsLines(file, SettingTexts)
    /\ onDisk = SettingsOf(load(file).content)
    /\ DOMAIN onDisk \subseteq SettingNames

Flags ==
    /\ mInstance \in BOOLEAN /\ mNoSaveMode \in BOOLEAN
    /\ mConfigChanged \in BOOLEAN /\ lossy \in BOOLEAN

\* A list without changes is that of the file, unless a write failed.
Unchanged ==
    mInstance /\ ~mConfigChanged => lossy \/ onDisk = SettingsOf(ini_content)

\* What was set is in the list, and what was saved is in the file.
SetAndSaved ==
    Shows(SettingsOf(ini_content), asked) /\ Shows(onDisk, kept)

NoInstance == ~mInstance => ini_content = <<>> /\ mListeners = {}

ListenerInv ==
    /\ mListeners \subseteq Listeners /\ seen = [l \in Listeners |-> seen[l]]
    /\ ListenersCurrent

ConfigInv ==
    WellFormed /\ Flags /\ Unchanged /\ SetAndSaved /\ NoInstance /\ ListenerInv

-----------------------------------------------------------------------------
(* Values and their texts.                                                 *)

LEMMA TextsOfValues ==
    /\ \A b \in BOOLEAN : BooleanText(b) \in SettingTexts
    /\ \A v \in Strings : StringText(v) \in SettingTexts
    /\ \A n \in Ints : IntText(n) \in SettingTexts
    /\ \A d \in Doubles : DoubleText(d) \in SettingTexts
    /\ NoText \in SettingTexts /\ <<"cut">> \in SettingTexts
  <1>1. \A b \in BOOLEAN : BooleanText(b) \in SettingTexts
    BY DEF BooleanText, SettingTexts
  <1>2. NoText \in SettingTexts /\ <<"cut">> \in SettingTexts
    BY DEF SettingTexts
  <1>3. ASSUME NEW v \in Strings
        PROVE  StringText(v) \in SettingTexts
    <2>1. CASE v = ""
      BY <1>2, <2>1 DEF StringText
    <2>2. CASE v # ""
      <3>1. StringText(v) = <<"string", v>>
        BY <2>2 DEF StringText
      <3> QED BY <3>1 DEF SettingTexts
    <2> QED BY <2>1, <2>2
  <1>4. \A n \in Ints : IntText(n) \in SettingTexts
    BY DEF SettingTexts
  <1>5. \A d \in Doubles : DoubleText(d) \in SettingTexts
    BY DEF SettingTexts
  <1> QED BY <1>1, <1>2, <1>3, <1>4, <1>5

\* A setting's section has a name.
LEMMA SettingIs ==
    ASSUME NEW s, s \in Settings
    PROVE  s = <<s[1], s[2]>> /\ IsSection(s[1]) /\ IsName(s[2])
  <1> DEFINE A == STRING \ {""}
             B == STRING
  <1>1. s \in A \X B
    BY FilesAssumption
  <1> HIDE DEF A, B
  <1>2. PICK a \in A, b \in B : s = <<a, b>>
    BY <1>1
  <1>3. s[1] = a /\ s[2] = b
    BY <1>2
  <1>4. IsSection(a) /\ IsName(b)
    BY DEF IsSection, IsName, A, B
  <1> QED BY <1>2, <1>3, <1>4

LEMMA ValuesAre ==
    /\ \A b \in BOOLEAN : <<"boolean", b>> \in Values
                       /\ TextFor(<<"boolean", b>>) = BooleanText(b)
    /\ \A v \in Strings : <<"string", v>> \in Values
                       /\ TextFor(<<"string", v>>) = StringText(v)
    /\ \A n \in Ints : <<"int", n>> \in Values
                       /\ TextFor(<<"int", n>>) = IntText(n)
    /\ \A d \in Doubles : <<"double", d>> \in Values
                       /\ TextFor(<<"double", d>>) = DoubleText(d)
  <1>1. ASSUME NEW b \in BOOLEAN
        PROVE  <<"boolean", b>> \in Values
               /\ TextFor(<<"boolean", b>>) = BooleanText(b)
    BY DEF Values, TextFor
  <1>2. ASSUME NEW b \in Strings
        PROVE  <<"string", b>> \in Values
               /\ TextFor(<<"string", b>>) = StringText(b)
    BY DEF Values, TextFor
  <1>3. ASSUME NEW b \in Ints
        PROVE  <<"int", b>> \in Values /\ TextFor(<<"int", b>>) = IntText(b)
    BY DEF Values, TextFor
  <1>4. ASSUME NEW b \in Doubles
        PROVE  <<"double", b>> \in Values
               /\ TextFor(<<"double", b>>) = DoubleText(b)
    BY DEF Values, TextFor
  <1> QED BY <1>1, <1>2, <1>3, <1>4

-----------------------------------------------------------------------------
(* The steps.                                                              *)

\* A setting gets the text of a value.
SetValue(s, text, v) ==
    /\ s \in Settings /\ v \in Values /\ text = TextFor(v)
    /\ text \in SettingTexts
    /\ SetText(s, text)
    /\ asked' = Put(asked, s, v)

LEMMA StepKinds ==
    ASSUME [Next]_vars
    PROVE  \/ GetInstance
           \/ \E s, text, v : SetValue(s, text, v)
           \/ saveConfig \/ shutdown
           \/ \E l \in Listeners :
                 registerConfigChangeHandler(l) \/ removeConfigChangeHandler(l)
           \/ \E state \in BOOLEAN : setDisableChangeListeners(state)
           \/ Crash \/ CrashInSave
           \/ UNCHANGED vars
  <1>1. ASSUME NEW s \in Settings, NEW b \in BOOLEAN, SetBoolean(s, b)
        PROVE  SetValue(s, BooleanText(b), <<"boolean", b>>)
    <2>1. SetText(s, BooleanText(b)) /\ asked' = Put(asked, s, <<"boolean", b>>)
      BY <1>1 DEF SetBoolean
    <2> QED BY <2>1, ValuesAre, TextsOfValues DEF SetValue
  <1>2. ASSUME NEW s \in Settings, NEW b \in Strings, SetString(s, b)
        PROVE  SetValue(s, StringText(b), <<"string", b>>)
    <2>1. SetText(s, StringText(b)) /\ asked' = Put(asked, s, <<"string", b>>)
      BY <1>2 DEF SetString
    <2> QED BY <2>1, ValuesAre, TextsOfValues DEF SetValue
  <1>3. ASSUME NEW s \in Settings, NEW b \in Ints, SetInt(s, b)
        PROVE  SetValue(s, IntText(b), <<"int", b>>)
    <2>1. SetText(s, IntText(b)) /\ asked' = Put(asked, s, <<"int", b>>)
      BY <1>3 DEF SetInt
    <2> QED BY <2>1, ValuesAre, TextsOfValues DEF SetValue
  <1>4. ASSUME NEW s \in Settings, NEW b \in Doubles, SetDouble(s, b)
        PROVE  SetValue(s, DoubleText(b), <<"double", b>>)
    <2>1. SetText(s, DoubleText(b)) /\ asked' = Put(asked, s, <<"double", b>>)
      BY <1>4 DEF SetDouble
    <2> QED BY <2>1, ValuesAre, TextsOfValues DEF SetValue
  <1> QED BY <1>1, <1>2, <1>3, <1>4 DEF Next

\* set_value.
LEMMA ValueSet ==
    ASSUME WellFormed, NEW s, NEW text, NEW v, SetValue(s, text, v)
    PROVE  /\ IsList(ini_content', SettingTexts)
           /\ SettingsOf(ini_content') = Put(SettingsOf(ini_content), s, text)
           /\ s \in Settings
  <1>1. s \in Settings /\ text \in SettingTexts
    BY DEF SetValue
  <1>2. ini_content' = _append(ini_content, s[1], s[2], text, NoComment)
    BY DEF SetValue, SetText, set_value
  <1>3. s = <<s[1], s[2]>> /\ IsSection(s[1]) /\ IsName(s[2])
    BY <1>1, SettingIs
  <1>4. IsList(ini_content, SettingTexts) /\ IsComment(NoComment)
    BY EmptyComment DEF WellFormed, IsComment
  <1> DEFINE c == ini_content
             a == s[1]
             b == s[2]
             T == SettingTexts
  <1> HIDE DEF c, a, b, T
  <1>5. /\ IsList(_append(c, a, b, text, NoComment), T)
        /\ SettingsOf(_append(c, a, b, text, NoComment))
              = Put(SettingsOf(c), <<a, b>>, text)
    BY <1>1, <1>3, <1>4, SettingAppended DEF c, a, b, T
  <1> QED BY <1>1, <1>2, <1>3, <1>5 DEF c, a, b, T

\* What a start reads.
LEMMA FileRead ==
    ASSUME NEW T, NEW lines, IsLines(lines, T)
    PROVE  IsList(load(lines).content, T) /\ load(lines).loaded \in BOOLEAN
  BY LoadFrom, ParserTypes

\* The whole list is written.
LEMMA OutputWhole ==
    ASSUME WellFormed, Output(SavedLines(ini_content))
    PROVE  /\ IsLines(file', SettingTexts)
           /\ onDisk' = SettingsOf(load(file').content)
           /\ onDisk' = SettingsOf(ini_content)
  <1>1. IsList(ini_content, SettingTexts)
    BY DEF WellFormed
  <1>2. IsLines(SavedLines(ini_content), SettingTexts)
    BY <1>1, SavedIsLines
  <1>3. SettingsOf(load(SavedLines(ini_content)).content)
           = SettingsOf(ini_content)
    BY <1>1, RoundTrip
  <1>4. file' = SavedLines(ini_content) /\ onDisk' = SettingsOf(load(file').content)
    BY DEF Output
  <1> QED BY <1>2, <1>3, <1>4

\* A part of it is written.
LEMMA OutputPart ==
    ASSUME WellFormed, PartSaved
    PROVE  /\ IsLines(file', SettingTexts)
           /\ onDisk' = SettingsOf(load(file').content)
           /\ DOMAIN onDisk' \subseteq DOMAIN SettingsOf(ini_content)
  <1> DEFINE lines == SavedLines(ini_content)
             T == SettingTexts
  <1>1. IsList(ini_content, T)
    BY DEF WellFormed
  <1>2. IsLines(lines, T)
    BY <1>1, SavedIsLines
  <1>3. D(load(lines)) = DOMAIN SettingsOf(ini_content)
    BY <1>1, RoundTrip DEF D
  <1>4. PICK n \in 0..(Len(lines) - 1) :
           \/ Output(SubSeq(lines, 1, n))
           \/ \E cut \in CutLine(lines[n + 1]) :
                 Output(Append(SubSeq(lines, 1, n), cut))
    BY DEF PartSaved
  <1>5. n \in 0..Len(lines)
    <2>1. Len(lines) \in Nat
      BY <1>2, LinesTypes
    <2> HIDE DEF lines
    <2> QED BY <2>1
  <1>6. \A part : Output(part) => file' = part
                             /\ onDisk' = SettingsOf(load(part).content)
    BY DEF Output
  <1>7. NoText \in T /\ <<"cut">> \in T
    BY TextsOfValues
  <1> HIDE DEF lines, T
  <1>8. CASE Output(SubSeq(lines, 1, n))
    <2>1. /\ IsLines(SubSeq(lines, 1, n), T)
          /\ D(load(SubSeq(lines, 1, n))) \subseteq D(load(lines))
      BY <1>2, <1>5, PrefixLoaded
    <2> QED BY <1>3, <1>6, <1>8, <2>1 DEF D, T
  <1>9. ASSUME NEW cut \in CutLine(lines[n + 1]),
               Output(Append(SubSeq(lines, 1, n), cut))
        PROVE  /\ IsLines(file', SettingTexts)
               /\ onDisk' = SettingsOf(load(file').content)
               /\ DOMAIN onDisk' \subseteq DOMAIN SettingsOf(ini_content)
    <2> DEFINE part == Append(SubSeq(lines, 1, n), cut)
    <2>1. IsLines(part, T) /\ D(load(part)) \subseteq D(load(lines))
      BY <1>2, <1>7, CutLoaded
    <2>2. file' = part /\ onDisk' = SettingsOf(load(part).content)
      BY <1>6, <1>9
    <2> HIDE DEF part
    <2> QED BY <1>3, <2>1, <2>2 DEF D, T
  <1> QED BY <1>4, <1>8, <1>9

\* A write, completed or failed.
LEMMA Written ==
    ASSUME WellFormed, Save
    PROVE  /\ IsLines(file', SettingTexts)
           /\ onDisk' = SettingsOf(load(file').content)
           /\ \/ /\ onDisk' = SettingsOf(ini_content)
                 /\ kept' = asked /\ lossy' = FALSE
              \/ onDisk' = onDisk /\ kept' = kept /\ lossy' = TRUE
              \/ /\ DOMAIN onDisk' \subseteq DOMAIN SettingsOf(ini_content)
                 /\ kept' = <<>> /\ lossy' = TRUE
  <1>1. CASE Output(SavedLines(ini_content)) /\ kept' = asked /\ lossy' = FALSE
    BY <1>1, OutputWhole
  <1>2. CASE lossy' = TRUE /\ UNCHANGED <<file, kept, onDisk>>
    BY <1>2 DEF WellFormed
  <1>3. CASE PartSaved
    <2>1. kept' = <<>> /\ lossy' = TRUE
      BY <1>3 DEF PartSaved
    <2> QED BY <1>3, <2>1, OutputPart
  <1> QED BY <1>1, <1>2, <1>3 DEF Save

LEMMA WellFormedStep ==
    ASSUME WellFormed, [Next]_vars
    PROVE  WellFormed'
  <1> DEFINE FileKept == file' = file /\ onDisk' = onDisk
             FileWritten == /\ IsLines(file', SettingTexts)
                            /\ onDisk' = SettingsOf(load(file').content)
                            /\ DOMAIN onDisk' \subseteq SettingNames
             ListRight == /\ IsList(ini_content', SettingTexts)
                          /\ DOMAIN SettingsOf(ini_content') \subseteq SettingNames
  <1>1. FileKept => FileWritten
    BY DEF WellFormed
  <1>2. ini_content' = ini_content => ListRight
    BY DEF WellFormed
  <1>3. ini_content' = <<>> => ListRight
    BY EmptyList
  <1>4. FileWritten /\ ListRight => WellFormed'
    BY DEF WellFormed
  <1>5. Save => FileWritten
    BY Written DEF WellFormed
  <1>6. CASE GetInstance
    <2>1. ini_content' = load(file).content /\ FileKept
      BY <1>6 DEF GetInstance
    <2>2. IsList(load(file).content, SettingTexts)
      BY FileRead DEF WellFormed
    <2>3. ListRight
      BY <2>1, <2>2 DEF WellFormed
    <2> QED BY <1>1, <1>4, <2>1, <2>3
  <1>7. ASSUME NEW s, NEW text, NEW v, SetValue(s, text, v)
        PROVE  WellFormed'
    <2>1. /\ IsList(ini_content', SettingTexts) /\ s \in Settings
          /\ SettingsOf(ini_content') = Put(SettingsOf(ini_content), s, text)
      BY <1>7, ValueSet
    <2>2. DOMAIN SettingsOf(ini_content') = DOMAIN SettingsOf(ini_content) \cup {s}
      BY <2>1 DEF Put
    <2>3. ListRight
      BY <2>1, <2>2 DEF WellFormed, SettingNames
    <2>4. FileKept
      BY <1>7 DEF SetValue, SetText
    <2> QED BY <1>1, <1>4, <2>3, <2>4
  <1>8. CASE saveConfig
    <2>1. ini_content' = ini_content /\ Save
      BY <1>8 DEF saveConfig
    <2> QED BY <1>2, <1>4, <1>5, <2>1
  <1>9. CASE shutdown
    <2>1. ini_content' = <<>> /\ (Save \/ FileKept)
      BY <1>9 DEF shutdown, Gone
    <2> QED BY <1>1, <1>3, <1>4, <1>5, <2>1
  <1>10. ASSUME NEW l \in Listeners,
                registerConfigChangeHandler(l) \/ removeConfigChangeHandler(l)
         PROVE  WellFormed'
    <2>1. ini_content' = ini_content /\ FileKept
      BY <1>10 DEF registerConfigChangeHandler, removeConfigChangeHandler
    <2> QED BY <1>1, <1>2, <1>4, <2>1
  <1>11. ASSUME NEW state \in BOOLEAN, setDisableChangeListeners(state)
         PROVE  WellFormed'
    <2>1. ini_content' = ini_content /\ FileKept
      BY <1>11 DEF setDisableChangeListeners
    <2> QED BY <1>1, <1>2, <1>4, <2>1
  <1>12. CASE Crash
    <2>1. ini_content' = <<>> /\ FileKept
      BY <1>12 DEF Crash, Gone
    <2> QED BY <1>1, <1>3, <1>4, <2>1
  <1>13. CASE CrashInSave
    <2>1. ini_content' = <<>>
      BY <1>13 DEF CrashInSave, Gone
    <2>2. FileWritten
      BY <1>13, OutputPart DEF CrashInSave, WellFormed
    <2> QED BY <1>3, <1>4, <2>1, <2>2
  <1>14. CASE UNCHANGED vars
    <2>1. ini_content' = ini_content /\ FileKept
      BY <1>14 DEF vars
    <2> QED BY <1>1, <1>2, <1>4, <2>1
  <1> QED BY <1>6, <1>7, <1>8, <1>9, <1>10, <1>11, <1>12, <1>13, <1>14, StepKinds

LEMMA FlagsStep ==
    ASSUME WellFormed, Flags, [Next]_vars
    PROVE  Flags'
  <1> USE DEF Flags
  <1>1. CASE GetInstance
    <2>1. load(file).loaded \in BOOLEAN
      BY FileRead DEF WellFormed
    <2> QED BY <1>1, <2>1 DEF GetInstance
  <1>2. ASSUME NEW s, NEW text, NEW v, SetValue(s, text, v)
        PROVE  Flags'
    BY <1>2 DEF SetValue, SetText, notifyChangeHandlers
  <1>3. CASE saveConfig
    BY <1>3 DEF saveConfig, Save, PartSaved
  <1>4. CASE shutdown \/ Crash \/ CrashInSave
    BY <1>4 DEF shutdown, Crash, CrashInSave, Gone, Save, PartSaved
  <1>5. ASSUME NEW l \in Listeners,
               registerConfigChangeHandler(l) \/ removeConfigChangeHandler(l)
        PROVE  Flags'
    BY <1>5 DEF registerConfigChangeHandler, removeConfigChangeHandler
  <1>6. ASSUME NEW state \in BOOLEAN, setDisableChangeListeners(state)
        PROVE  Flags'
    BY <1>6 DEF setDisableChangeListeners
  <1>7. CASE UNCHANGED vars
    BY <1>7 DEF vars
  <1> QED BY <1>1, <1>2, <1>3, <1>4, <1>5, <1>6, <1>7, StepKinds

LEMMA NoInstanceStep ==
    ASSUME NoInstance, [Next]_vars
    PROVE  NoInstance'
  <1>1. CASE GetInstance
    BY <1>1 DEF GetInstance, NoInstance
  <1>2. ASSUME NEW s, NEW text, NEW v, SetValue(s, text, v)
        PROVE  NoInstance'
    BY <1>2 DEF SetValue, SetText, NoInstance
  <1>3. CASE saveConfig
    BY <1>3 DEF saveConfig, NoInstance
  <1>4. CASE shutdown \/ Crash \/ CrashInSave
    BY <1>4 DEF shutdown, Crash, CrashInSave, Gone, NoInstance
  <1>5. ASSUME NEW l \in Listeners,
               registerConfigChangeHandler(l) \/ removeConfigChangeHandler(l)
        PROVE  NoInstance'
    BY <1>5 DEF registerConfigChangeHandler, removeConfigChangeHandler,
                NoInstance
  <1>6. ASSUME NEW state \in BOOLEAN, setDisableChangeListeners(state)
        PROVE  NoInstance'
    BY <1>6 DEF setDisableChangeListeners, NoInstance
  <1>7. CASE UNCHANGED vars
    BY <1>7 DEF vars, NoInstance
  <1> QED BY <1>1, <1>2, <1>3, <1>4, <1>5, <1>6, <1>7, StepKinds

LEMMA UnchangedStep ==
    ASSUME WellFormed, Unchanged, [Next]_vars
    PROVE  Unchanged'
  <1>1. CASE GetInstance
    <2>1. ini_content' = load(file).content /\ onDisk' = onDisk
      BY <1>1 DEF GetInstance
    <2>2. onDisk' = SettingsOf(ini_content')
      BY <2>1 DEF WellFormed
    <2> QED BY <2>2 DEF Unchanged
  <1>2. ASSUME NEW s, NEW text, NEW v, SetValue(s, text, v)
        PROVE  Unchanged'
    <2>1. mConfigChanged' = TRUE
      BY <1>2 DEF SetValue, SetText, notifyChangeHandlers
    <2> QED BY <2>1 DEF Unchanged
  <1>3. CASE saveConfig
    <2>1. Save /\ ini_content' = ini_content
      BY <1>3 DEF saveConfig
    <2>2. \/ onDisk' = SettingsOf(ini_content)
          \/ lossy' = TRUE
      BY <2>1, Written
    <2> QED BY <2>1, <2>2 DEF Unchanged
  <1>4. CASE shutdown \/ Crash \/ CrashInSave
    <2>1. ~mInstance'
      BY <1>4 DEF shutdown, Crash, CrashInSave, Gone
    <2> QED BY <2>1 DEF Unchanged
  <1>5. ASSUME NEW l \in Listeners,
               registerConfigChangeHandler(l) \/ removeConfigChangeHandler(l)
        PROVE  Unchanged'
    <2>1. UNCHANGED <<mInstance, mConfigChanged, lossy, onDisk, ini_content>>
      BY <1>5 DEF registerConfigChangeHandler, removeConfigChangeHandler
    <2> QED BY <2>1 DEF Unchanged
  <1>6. ASSUME NEW state \in BOOLEAN, setDisableChangeListeners(state)
        PROVE  Unchanged'
    <2>1. UNCHANGED <<mInstance, mConfigChanged, lossy, onDisk, ini_content>>
      BY <1>6 DEF setDisableChangeListeners
    <2> QED BY <2>1 DEF Unchanged
  <1>7. CASE UNCHANGED vars
    <2>1. UNCHANGED <<mInstance, mConfigChanged, lossy, onDisk, ini_content>>
      BY <1>7 DEF vars
    <2> QED BY <2>1 DEF Unchanged
  <1> QED BY <1>1, <1>2, <1>3, <1>4, <1>5, <1>6, <1>7, StepKinds

LEMMA NothingShown ==
    ASSUME NEW m
    PROVE  Shows(m, <<>>)
  <1>1. DOMAIN <<>> = {}
    OBVIOUS
  <1> QED BY <1>1 DEF Shows

LEMMA ShownSet ==
    ASSUME NEW m, NEW values, Shows(m, values), NEW s, s \in Settings,
           NEW v, v \in Values
    PROVE  Shows(Put(m, s, TextFor(v)), Put(values, s, v))
  <1> DEFINE m2 == Put(m, s, TextFor(v))
             w == Put(values, s, v)
  <1>1. /\ DOMAIN m2 = DOMAIN m \cup {s}
        /\ \A x \in DOMAIN m2 : m2[x] = IF x = s THEN TextFor(v) ELSE m[x]
    BY DEF Put
  <1>2. /\ DOMAIN w = DOMAIN values \cup {s}
        /\ \A x \in DOMAIN w : w[x] = IF x = s THEN v ELSE values[x]
    BY DEF Put
  <1> HIDE DEF m2, w
  <1>3. Shows(m2, w)
    <2> SUFFICES ASSUME NEW x \in DOMAIN w
                 PROVE  /\ x \in Settings /\ w[x] \in Values
                        /\ x \in DOMAIN m2 /\ m2[x] = TextFor(w[x])
      BY DEF Shows
    <2>1. CASE x = s
      BY <1>1, <1>2, <2>1
    <2>2. CASE x # s
      <3>1. x \in DOMAIN values /\ w[x] = values[x]
        BY <1>2, <2>2
      <3>2. /\ x \in Settings /\ values[x] \in Values
            /\ x \in DOMAIN m /\ m[x] = TextFor(values[x])
        BY <3>1 DEF Shows
      <3> QED BY <1>1, <2>2, <3>1, <3>2
    <2> QED BY <2>1, <2>2
  <1> QED BY <1>3 DEF m2, w

LEMMA SetAndSavedStep ==
    ASSUME WellFormed, SetAndSaved, [Next]_vars
    PROVE  SetAndSaved'
  <1> USE DEF SetAndSaved
  <1>1. CASE GetInstance
    <2>1. /\ ini_content' = load(file).content /\ onDisk' = onDisk
          /\ asked' = kept /\ kept' = kept
      BY <1>1 DEF GetInstance
    <2>2. SettingsOf(ini_content') = onDisk
      BY <2>1 DEF WellFormed
    <2> QED BY <2>1, <2>2
  <1>2. ASSUME NEW s, NEW text, NEW v, SetValue(s, text, v)
        PROVE  SetAndSaved'
    <2>1. /\ SettingsOf(ini_content') = Put(SettingsOf(ini_content), s, text)
          /\ s \in Settings
      BY <1>2, ValueSet
    <2>2. /\ text = TextFor(v) /\ v \in Values /\ asked' = Put(asked, s, v)
          /\ kept' = kept /\ onDisk' = onDisk
      BY <1>2 DEF SetValue, SetText
    <2>3. Shows(Put(SettingsOf(ini_content), s, TextFor(v)), Put(asked, s, v))
      BY <2>1, <2>2, ShownSet
    <2> QED BY <2>1, <2>2, <2>3
  <1>3. Save => Shows(onDisk', kept')
    BY Written, NothingShown
  <1>4. CASE saveConfig
    <2>1. Save /\ ini_content' = ini_content /\ asked' = asked
      BY <1>4 DEF saveConfig
    <2> QED BY <1>3, <2>1
  <1>5. asked' = <<>> => Shows(SettingsOf(ini_content'), asked')
    BY NothingShown
  <1>6. CASE shutdown
    <2>1. asked' = <<>> /\ (Save \/ (onDisk' = onDisk /\ kept' = kept))
      BY <1>6 DEF shutdown, Gone
    <2> QED BY <1>3, <1>5, <2>1
  <1>7. CASE Crash
    <2>1. asked' = <<>> /\ onDisk' = onDisk /\ kept' = kept
      BY <1>7 DEF Crash, Gone
    <2> QED BY <1>5, <2>1
  <1>8. CASE CrashInSave
    <2>1. asked' = <<>> /\ kept' = <<>>
      BY <1>8 DEF CrashInSave, PartSaved, Gone
    <2>2. Shows(onDisk', kept')
      BY <2>1, NothingShown
    <2> QED BY <1>5, <2>1, <2>2
  <1>9. ASSUME NEW l \in Listeners,
               registerConfigChangeHandler(l) \/ removeConfigChangeHandler(l)
        PROVE  SetAndSaved'
    <2>1. UNCHANGED <<ini_content, asked, kept, onDisk>>
      BY <1>9 DEF registerConfigChangeHandler, removeConfigChangeHandler
    <2> QED BY <2>1
  <1>10. ASSUME NEW state \in BOOLEAN, setDisableChangeListeners(state)
         PROVE  SetAndSaved'
    <2>1. UNCHANGED <<ini_content, asked, kept, onDisk>>
      BY <1>10 DEF setDisableChangeListeners
    <2> QED BY <2>1
  <1>11. CASE UNCHANGED vars
    <2>1. UNCHANGED <<ini_content, asked, kept, onDisk>>
      BY <1>11 DEF vars
    <2> QED BY <2>1
  <1> QED BY <1>1, <1>2, <1>4, <1>6, <1>7, <1>8, <1>9, <1>10, <1>11, StepKinds

LEMMA ListenerStep ==
    ASSUME ListenerInv, [Next]_vars
    PROVE  ListenerInv'
  <1> DEFINE IsSeen == seen' = [l \in Listeners |-> seen'[l]]
  <1>0. /\ mListeners \subseteq Listeners /\ seen = [l \in Listeners |-> seen[l]]
        /\ ~missed => \A l \in mListeners : seen[l] = SettingsOf(ini_content)
    BY DEF ListenerInv, ListenersCurrent
  <1>1. CASE GetInstance
    BY <1>0, <1>1 DEF GetInstance, ListenerInv, ListenersCurrent
  <1>2. ASSUME NEW s, NEW text, NEW v, SetValue(s, text, v)
        PROVE  ListenerInv'
    <2> DEFINE now == SettingsOf(ini_content')
    <2>1. /\ mListeners' = mListeners /\ missed' = mDisableChangeListeners
          /\ seen' = IF mDisableChangeListeners THEN seen
                     ELSE [l \in Listeners |->
                             IF l \in mListeners THEN now ELSE seen[l]]
      BY <1>2 DEF SetValue, SetText, notifyChangeHandlers
    <2> HIDE DEF now
    <2>2. CASE mDisableChangeListeners
      BY <1>0, <2>1, <2>2 DEF ListenerInv, ListenersCurrent
    <2>3. CASE ~mDisableChangeListeners
      <3>1. seen' = [l \in Listeners |->
                        IF l \in mListeners THEN now ELSE seen[l]]
        BY <2>1, <2>3
      <3>2. IsSeen /\ \A l \in mListeners : seen'[l] = now
        BY <1>0, <3>1
      <3> QED BY <1>0, <2>1, <3>2 DEF ListenerInv, ListenersCurrent, now
    <2> QED BY <2>2, <2>3
  <1>3. CASE saveConfig
    BY <1>0, <1>3 DEF saveConfig, listenerVars, ListenerInv, ListenersCurrent
  <1>4. CASE shutdown \/ Crash \/ CrashInSave
    <2>1. mListeners' = {} /\ seen' = [l \in Listeners |-> <<>>]
      BY <1>4 DEF shutdown, Crash, CrashInSave, Gone
    <2>2. IsSeen
      BY <2>1
    <2> QED BY <2>1, <2>2 DEF ListenerInv, ListenersCurrent
  <1>5. ASSUME NEW l \in Listeners, registerConfigChangeHandler(l)
        PROVE  ListenerInv'
    <2> DEFINE now == SettingsOf(ini_content)
    <2>1. /\ mListeners' = mListeners \cup {l}
          /\ seen' = [seen EXCEPT ![l] = now]
          /\ missed' = missed /\ ini_content' = ini_content
      BY <1>5 DEF registerConfigChangeHandler
    <2>2. SettingsOf(ini_content') = now
      BY <2>1
    <2> HIDE DEF now
    <2>3. /\ IsSeen /\ seen'[l] = now
          /\ \A k \in Listeners : k # l => seen'[k] = seen[k]
      BY <1>0, <2>1
    <2>4. ~missed => \A k \in mListeners' : seen'[k] = now
      BY <1>0, <2>1, <2>3 DEF now
    <2> QED BY <1>0, <2>1, <2>2, <2>3, <2>4 DEF ListenerInv, ListenersCurrent
  <1>6. ASSUME NEW l \in Listeners, removeConfigChangeHandler(l)
        PROVE  ListenerInv'
    <2>1. /\ mListeners' = mListeners \ {l}
          /\ seen' = [seen EXCEPT ![l] = <<>>]
          /\ missed' = missed /\ ini_content' = ini_content
      BY <1>6 DEF removeConfigChangeHandler
    <2>2. /\ IsSeen
          /\ \A k \in Listeners : k # l => seen'[k] = seen[k]
      BY <1>0, <2>1
    <2>3. ~missed => \A k \in mListeners' : seen'[k] = SettingsOf(ini_content)
      BY <1>0, <2>1, <2>2
    <2> QED BY <1>0, <2>1, <2>2, <2>3 DEF ListenerInv, ListenersCurrent
  <1>7. ASSUME NEW state \in BOOLEAN, setDisableChangeListeners(state)
        PROVE  ListenerInv'
    BY <1>0, <1>7 DEF setDisableChangeListeners, ListenerInv, ListenersCurrent
  <1>8. CASE UNCHANGED vars
    BY <1>0, <1>8 DEF vars, ListenerInv, ListenersCurrent
  <1> QED BY <1>1, <1>2, <1>3, <1>4, <1>5, <1>6, <1>7, <1>8, StepKinds

-----------------------------------------------------------------------------
(* The theorems.                                                           *)

LEMMA ConfigInvInit ==
    ASSUME Init
    PROVE  ConfigInv
  <1>1. /\ file \in Files /\ ini_content = <<>> /\ mListeners = {}
        /\ asked = <<>> /\ kept = <<>> /\ mInstance = FALSE
        /\ seen = [l \in Listeners |-> <<>>]
        /\ onDisk = SettingsOf(load(file).content)
    BY DEF Init
  <1>2. WellFormed
    <2>1. IsLines(file, SettingTexts)
      BY <1>1, FilesAssumption DEF IsLines
    <2>2. DOMAIN onDisk \subseteq SettingNames
      BY <1>1 DEF SettingNames
    <2>3. IsList(<<>>, SettingTexts) /\ DOMAIN SettingsOf(<<>>) = {}
      BY EmptyList
    <2> QED BY <1>1, <2>1, <2>2, <2>3 DEF WellFormed
  <1>3. Flags
    BY DEF Init, Flags
  <1>4. Unchanged /\ NoInstance
    BY <1>1 DEF Unchanged, NoInstance
  <1>5. SetAndSaved
    BY <1>1, NothingShown DEF SetAndSaved
  <1>6. ListenerInv
    BY <1>1 DEF ListenerInv, ListenersCurrent
  <1> QED BY <1>2, <1>3, <1>4, <1>5, <1>6 DEF ConfigInv

LEMMA ConfigInvStep ==
    ASSUME ConfigInv, [Next]_vars
    PROVE  ConfigInv'
  <1>1. /\ WellFormed /\ Flags /\ Unchanged /\ SetAndSaved
        /\ NoInstance /\ ListenerInv
    BY DEF ConfigInv
  <1> QED BY <1>1, WellFormedStep, FlagsStep, UnchangedStep, SetAndSavedStep,
             NoInstanceStep, ListenerStep DEF ConfigInv

LEMMA ConfigInvariant == Spec => []ConfigInv
  BY ConfigInvInit, ConfigInvStep, PTL DEF Spec

\* Names of sections and keys of a section stay unique in the list, for every
\* file that is read and every sequence of changes, stops and crashes
\* (add_section, _append), and without an instance there is no list.
THEOREM ListWellFormed == Spec => []ConfigTypeOK
  <1>1. ConfigInv => ConfigTypeOK
    <2> SUFFICES ASSUME ConfigInv PROVE ConfigTypeOK
      OBVIOUS
    <2>1. WellFormed /\ Flags /\ NoInstance
      BY DEF ConfigInv
    <2>2. IsList(ini_content, SettingTexts)
      BY <2>1 DEF WellFormed
    <2>3. DOMAIN ini_content = 1..Len(ini_content)
      BY <2>2, ListTypes
    <2>4. \A i \in 1..Len(ini_content) :
             DOMAIN ini_content[i].data = 1..Len(ini_content[i].data)
      BY <2>2, ListTypes
    <2>5. /\ \A i, j \in DOMAIN ini_content :
                ini_content[i].name = ini_content[j].name => i = j
          /\ \A i \in DOMAIN ini_content :
                \A j, k \in DOMAIN ini_content[i].data :
                   ini_content[i].data[j].key = ini_content[i].data[k].key
                      => j = k
      <3>1. \A i, j \in DOMAIN ini_content :
                ini_content[i].name = ini_content[j].name => i = j
        BY <2>2, <2>3 DEF IsList
      <3>2. ASSUME NEW i \in DOMAIN ini_content
            PROVE  \A j, k \in DOMAIN ini_content[i].data :
                      ini_content[i].data[j].key = ini_content[i].data[k].key
                         => j = k
        <4>1. i \in 1..Len(ini_content)
          BY <2>3
        <4>2. DOMAIN ini_content[i].data = 1..Len(ini_content[i].data)
          BY <2>4, <4>1
        <4>3. \A j, k \in 1..Len(ini_content[i].data) :
                ini_content[i].data[j].key = ini_content[i].data[k].key => j = k
          BY <2>2, <4>1 DEF IsList
        <4> QED BY <4>2, <4>3
      <3> QED BY <3>1, <3>2
    <2> QED BY <2>1, <2>5 DEF Flags, NoInstance, ConfigTypeOK
  <1> QED BY <1>1, ConfigInvariant, PTL

\* Unless a change was made while listeners were disabled, each registered
\* listener has read the present settings (notifyChangeHandlers).
THEOREM ListenersAreCurrent == Spec => []ListenersCurrent
  <1>1. ConfigInv => ListenersCurrent
    BY DEF ConfigInv, ListenerInv
  <1> QED BY <1>1, ConfigInvariant, PTL

\* What is read for a value of each type.
LEMMA BooleanRead ==
    ASSUME NEW v \in BOOLEAN
    PROVE  BooleanText(v) # NoText /\ IsTrue(BooleanText(v)) = v
  BY DEF BooleanText, NoText, IsTrue

LEMMA NumberRead ==
    ASSUME NEW n \in Int
    PROVE  /\ <<"number", n>> # NoText
           /\ AsInt(<<"number", n>>) = n \div 1000000
           /\ AsDouble(<<"number", n>>) = n
  BY SMT DEF NoText, AsInt, AsDouble, IsNumber

LEMMA IntRead ==
    ASSUME NEW n \in Ints
    PROVE  IntText(n) # NoText /\ AsInt(IntText(n)) = n
  <1>1. n \in Int
    BY ConfigAssumption
  <1>2. 1000000 * n \in Int /\ (1000000 * n) \div 1000000 = n
    BY <1>1, SMT
  <1> QED BY <1>2, NumberRead, SMT DEF IntText

LEMMA DoubleRead ==
    ASSUME NEW d \in Doubles
    PROVE  DoubleText(d) # NoText /\ AsDouble(DoubleText(d)) - d \in -4..5
  <1> DEFINE n == 10 * ((d + 5) \div 10)
  <1>1. d \in LeastDouble..GreatestDouble
    BY ConfigAssumption
  <1>2. LeastDouble \in Nat /\ GreatestDouble \in Nat
    BY SMT DEF LeastDouble, GreatestDouble
  <1>3. d \in Nat
    BY <1>1, <1>2
  <1>4. n \in Int /\ n - d \in -4..5
    BY <1>3, SMT
  <1>5. DoubleText(d) = <<"number", n>>
    BY DEF DoubleText
  <1> HIDE DEF n
  <1> QED BY <1>4, <1>5, NumberRead

\* What the list holds for a setting that was given a value.
LEMMA TextHeld ==
    ASSUME WellFormed, SetAndSaved, NEW s, s \in DOMAIN asked
    PROVE  /\ get_value(ini_content, s[1], s[2]) = TextFor(asked[s])
           /\ asked[s] \in Values
  <1> DEFINE m == SettingsOf(ini_content)
  <1>1. /\ s \in Settings /\ asked[s] \in Values
        /\ s \in DOMAIN m /\ m[s] = TextFor(asked[s])
    BY DEF SetAndSaved, Shows
  <1>2. s = <<s[1], s[2]>>
    BY <1>1, SettingIs
  <1> DEFINE a == s[1]
             b == s[2]
  <1> HIDE DEF a, b
  <1>3. get_value(ini_content, a, b) =
           IF <<a, b>> \in DOMAIN m THEN m[<<a, b>>] ELSE NoText
    BY LookedUp DEF WellFormed
  <1>4. s = <<a, b>>
    BY <1>2 DEF a, b
  <1> QED BY <1>1, <1>3, <1>4 DEF a, b

LEMMA ValueKinds ==
    ASSUME NEW v, v \in Values
    PROVE  \/ v[1] = "boolean" /\ v[2] \in BOOLEAN
           \/ v[1] = "string" /\ v[2] \in Strings
           \/ v[1] = "int" /\ v[2] \in Ints
           \/ v[1] = "double" /\ v[2] \in Doubles
  <1>1. CASE v \in {"boolean"} \X BOOLEAN
    BY <1>1
  <1>2. CASE v \in {"string"} \X Strings
    BY <1>2
  <1>3. CASE v \in {"int"} \X Ints
    BY <1>3
  <1>4. CASE v \in {"double"} \X Doubles
    BY <1>4
  <1> QED BY <1>1, <1>2, <1>3, <1>4 DEF Values

\* A value is read back as the type it was set with (SetX then GetX), also
\* after any number of saves, stops and starts; doubles to six digits.
THEOREM ValuesReadBack == Spec => []ReadBack
  <1>1. ConfigInv => ReadBack
    <2> SUFFICES ASSUME ConfigInv PROVE ReadBack
      OBVIOUS
    <2>1. WellFormed /\ SetAndSaved
      BY DEF ConfigInv
    <2> SUFFICES ASSUME NEW s \in DOMAIN asked
                 PROVE  LET v == asked[s][2] IN
                        CASE asked[s][1] = "boolean" ->
                                GetBoolean(ini_content, s, ~v) = v
                          [] asked[s][1] = "string" ->
                                GetString(ini_content, s, NoText) = StringText(v)
                          [] asked[s][1] = "int" ->
                                GetInt(ini_content, s, 0) = v
                          [] asked[s][1] = "double" ->
                                GetDouble(ini_content, s, 0) - v \in -4..5
      BY DEF ReadBack
    <2> DEFINE w == asked[s]
               v == asked[s][2]
               buffer == get_value(ini_content, s[1], s[2])
    <2>2. buffer = TextFor(w) /\ w \in Values
      BY <2>1, TextHeld
    <2>3. \/ w[1] = "boolean" /\ w[2] \in BOOLEAN
          \/ w[1] = "string" /\ w[2] \in Strings
          \/ w[1] = "int" /\ w[2] \in Ints
          \/ w[1] = "double" /\ w[2] \in Doubles
      BY <2>2, ValueKinds
    <2>4. CASE w[1] = "boolean" /\ v \in BOOLEAN
      <3>1. buffer = BooleanText(v)
        BY <2>2, <2>4 DEF TextFor
      <3>2. BooleanText(v) # NoText /\ IsTrue(BooleanText(v)) = v
        BY <2>4, BooleanRead
      <3>3. GetBoolean(ini_content, s, ~v) = v
        BY <3>1, <3>2 DEF GetBoolean
      <3> QED BY <2>4, <3>3
    <2>5. CASE w[1] = "string" /\ v \in Strings
      <3>1. buffer = StringText(v)
        BY <2>2, <2>5 DEF TextFor
      <3>2. GetString(ini_content, s, NoText) = StringText(v)
        BY <3>1 DEF GetString
      <3> QED BY <2>5, <3>2
    <2>6. CASE w[1] = "int" /\ v \in Ints
      <3>1. buffer = IntText(v)
        BY <2>2, <2>6 DEF TextFor
      <3>2. IntText(v) # NoText /\ AsInt(IntText(v)) = v
        BY <2>6, IntRead
      <3>3. GetInt(ini_content, s, 0) = v
        BY <3>1, <3>2 DEF GetInt
      <3> QED BY <2>6, <3>3
    <2>7. CASE w[1] = "double" /\ v \in Doubles
      <3>1. buffer = DoubleText(v)
        BY <2>2, <2>7 DEF TextFor
      <3>2. DoubleText(v) # NoText /\ AsDouble(DoubleText(v)) - v \in -4..5
        BY <2>7, DoubleRead
      <3>3. GetDouble(ini_content, s, 0) - v \in -4..5
        BY <3>1, <3>2 DEF GetDouble
      <3> QED BY <2>7, <3>3
    <2> QED BY <2>3, <2>4, <2>5, <2>6, <2>7
  <1> QED BY <1>1, ConfigInvariant, PTL

\* The settings of a list are a map of the abstract store.
LEMMA SettingsMap ==
    ASSUME NEW c, IsList(c, SettingTexts),
           DOMAIN SettingsOf(c) \subseteq SettingNames
    PROVE  AbstractStore!IsMap(SettingsOf(c))
  <1> DEFINE m == SettingsOf(c)
  <1>1. \A s \in DOMAIN m : m[s] \in SettingTexts
    <2> TAKE s \in DOMAIN m
    <2>1. PICK i \in 1..Len(c) : \E j \in 1..Len(c[i].data) :
             m[s] = c[i].data[j].value
      BY SettingFrom
    <2> QED BY <2>1, ListTypes
  <1> HIDE DEF m
  <1> QED BY <1>1 DEF AbstractStore!IsMap, m

\* The map update of the abstract store is the one of the program.
LEMMA SamePut ==
    ASSUME NEW m, NEW n, NEW t
    PROVE  AbstractStore!Put(m, n, t) = Put(m, n, t)
  BY DEF Put, AbstractStore!Put

\* Every step of the program is a step of the abstract store, or none.
LEMMA StoreStep ==
    ASSUME ConfigInv, [Next]_vars
    PROVE  [AbstractStore!Next]_<<SettingsOf(ini_content), onDisk,
              IF ~mInstance THEN "stopped"
              ELSE IF mNoSaveMode THEN "readonly" ELSE "open", lossy>>
  <1> DEFINE live == SettingsOf(ini_content)
             state == IF ~mInstance THEN "stopped"
                      ELSE IF mNoSaveMode THEN "readonly" ELSE "open"
             Goal == AbstractStore!Next \/ UNCHANGED <<live, onDisk, state, lossy>>
  <1> SUFFICES Goal
    OBVIOUS
  <1>1. WellFormed /\ Flags /\ Unchanged
    BY DEF ConfigInv
  <1>2. ini_content' = <<>> => live' = <<>>
    BY EmptyList
  <1>part. ASSUME PartSaved PROVE AbstractStore!PartWritten
    <2>1. lossy' = TRUE
      BY <1>part DEF PartSaved
    <2>2. DOMAIN onDisk' \subseteq DOMAIN live
      BY <1>1, <1>part, OutputPart
    <2>3. AbstractStore!IsMap(onDisk')
      <3>1. IsLines(file', SettingTexts) /\ onDisk' = SettingsOf(load(file').content)
        BY <1>1, <1>part, OutputPart
      <3>2. IsList(load(file').content, SettingTexts)
        BY <3>1, FileRead
      <3>3. DOMAIN onDisk' \subseteq SettingNames
        BY <1>1, <2>2 DEF WellFormed
      <3> QED BY <3>1, <3>2, <3>3, SettingsMap
    <2> QED BY <2>1, <2>2, <2>3 DEF AbstractStore!PartWritten
  <1>3. Save => AbstractStore!Write
    <2>1. CASE Output(SavedLines(ini_content)) /\ lossy' = FALSE
      BY <1>1, <2>1, OutputWhole DEF AbstractStore!Write
    <2>2. CASE onDisk' = onDisk /\ lossy' = TRUE
      BY <2>2 DEF AbstractStore!Write
    <2>3. CASE PartSaved
      BY <1>part, <2>3 DEF AbstractStore!Write
    <2> QED BY <2>1, <2>2, <2>3 DEF Save
  <1>4. CASE GetInstance
    <2>1. /\ state = "stopped" /\ state' \in {"open", "readonly"}
          /\ lossy' = FALSE /\ onDisk' = onDisk
      BY <1>4 DEF GetInstance
    <2>2. ini_content' = load(file).content
      BY <1>4 DEF GetInstance
    <2>3. live' = onDisk
      BY <1>1, <2>2 DEF WellFormed
    <2>4. AbstractStore!Start
      BY <2>1, <2>3 DEF AbstractStore!Start
    <2> QED BY <2>4 DEF AbstractStore!Next
  <1>5. ASSUME NEW s, NEW text, NEW v, SetValue(s, text, v)
        PROVE  AbstractStore!Next
    <2>1. live' = Put(live, s, text) /\ s \in Settings
      BY <1>1, <1>5, ValueSet
    <2>2. text \in SettingTexts
      BY <1>5 DEF SetValue
    <2>3. s \in SettingNames
      BY <2>1 DEF SettingNames
    <2>4. /\ mInstance /\ mInstance' = mInstance /\ mNoSaveMode' = mNoSaveMode
          /\ lossy' = lossy /\ onDisk' = onDisk
      BY <1>5 DEF SetValue, SetText
    <2>5. state # "stopped" /\ state' = state
      BY <2>4
    <2>6. \E n \in SettingNames, t \in SettingTexts : live' = AbstractStore!Put(live, n, t)
      BY <2>1, <2>2, <2>3, SamePut
    <2>7. AbstractStore!Set
      BY <2>4, <2>5, <2>6 DEF AbstractStore!Set
    <2> QED BY <2>7 DEF AbstractStore!Next
  <1>6. CASE saveConfig
    <2>1. /\ mInstance /\ ~mNoSaveMode /\ Save /\ ini_content' = ini_content
          /\ mInstance' = mInstance /\ mNoSaveMode' = mNoSaveMode
      BY <1>6 DEF saveConfig
    <2>2. state = "open" /\ state' = state
      BY <2>1
    <2>3. live' = live
      BY <2>1
    <2>4. AbstractStore!Save
      BY <1>3, <2>1, <2>2, <2>3 DEF AbstractStore!Save
    <2> QED BY <2>4 DEF AbstractStore!Next
  <1>7. CASE shutdown
    <2>1. mInstance /\ mInstance' = FALSE /\ ini_content' = <<>>
      BY <1>7 DEF shutdown, Gone
    <2>2. state # "stopped" /\ state' = "stopped"
      BY <2>1
    <2>3. state = "open" <=> ~mNoSaveMode
      BY <2>1
    <2>4. IF ~mNoSaveMode THEN AbstractStore!Write
          ELSE onDisk' = onDisk /\ lossy' = lossy
      <3>1. CASE mNoSaveMode
        BY <1>7, <3>1 DEF shutdown
      <3>2. CASE ~mNoSaveMode /\ mConfigChanged
        BY <1>3, <1>7, <3>2 DEF shutdown
      <3>3. CASE ~mNoSaveMode /\ ~mConfigChanged
        <4>1. onDisk' = onDisk /\ lossy' = lossy
          BY <1>7, <3>3 DEF shutdown
        <4>2. lossy = TRUE \/ (lossy = FALSE /\ onDisk = live)
          BY <1>1, <2>1, <3>3 DEF Flags, Unchanged
        <4>3. AbstractStore!Write
          BY <4>1, <4>2 DEF AbstractStore!Write
        <4> QED BY <3>3, <4>3
      <3> QED BY <3>1, <3>2, <3>3
    <2>5. AbstractStore!Stop
      BY <1>2, <2>1, <2>2, <2>3, <2>4 DEF AbstractStore!Stop
    <2> QED BY <2>5 DEF AbstractStore!Next
  <1>8. CASE Crash
    <2>1. /\ mInstance /\ mInstance' = FALSE /\ ini_content' = <<>>
          /\ lossy' = TRUE /\ onDisk' = onDisk
      BY <1>8 DEF Crash, Gone
    <2>2. state # "stopped" /\ state' = "stopped"
      BY <2>1
    <2>3. AbstractStore!Crash
      BY <1>2, <2>1, <2>2 DEF AbstractStore!Crash
    <2> QED BY <2>3 DEF AbstractStore!Next
  <1>9. CASE CrashInSave
    <2>1. /\ mInstance /\ mInstance' = FALSE /\ ini_content' = <<>>
          /\ ~mNoSaveMode /\ PartSaved
      BY <1>9 DEF CrashInSave, Gone
    <2>2. state = "open" /\ state # "stopped" /\ state' = "stopped"
      BY <2>1
    <2>3. AbstractStore!Crash
      BY <1>2, <1>part, <2>1, <2>2 DEF AbstractStore!Crash
    <2> QED BY <2>3 DEF AbstractStore!Next
  <1>10. ASSUME UNCHANGED <<ini_content, onDisk, mInstance, mNoSaveMode, lossy>>
         PROVE  UNCHANGED <<live, onDisk, state, lossy>>
    BY <1>10
  <1>11. ASSUME NEW l \in Listeners,
                registerConfigChangeHandler(l) \/ removeConfigChangeHandler(l)
         PROVE  UNCHANGED <<ini_content, onDisk, mInstance, mNoSaveMode, lossy>>
    BY <1>11 DEF registerConfigChangeHandler, removeConfigChangeHandler
  <1>12. ASSUME NEW state_ \in BOOLEAN, setDisableChangeListeners(state_)
         PROVE  UNCHANGED <<ini_content, onDisk, mInstance, mNoSaveMode, lossy>>
    BY <1>12 DEF setDisableChangeListeners
  <1>13. CASE UNCHANGED vars
    BY <1>13 DEF vars
  <1>14. CASE UNCHANGED <<ini_content, onDisk, mInstance, mNoSaveMode, lossy>>
    BY <1>10, <1>14
  <1>15. CASE \E s, text, v : SetValue(s, text, v)
    BY <1>5, <1>15
  <1> HIDE DEF Goal
  <1> QED BY <1>4, <1>6, <1>7, <1>8, <1>9, <1>11, <1>12, <1>13, <1>14, <1>15,
             StepKinds, Zenon

\* The program implements Store: what is printed parses back to the same
\* settings (SavedLines, load), nothing is lost by leaving out the save of an
\* unchanged list, a file that was not read to its end is never written, and a
\* write that ends early, in a crash or on a full disk, invents no setting.
THEOREM ConfigImplementsStore == Spec => ImplementsStore
  <1>1. Init => AbstractStore!Init
    <2> SUFFICES ASSUME Init PROVE AbstractStore!Init
      OBVIOUS
    <2>1. WellFormed
      BY ConfigInvInit DEF ConfigInv
    <2>2. IsList(load(file).content, SettingTexts)
      BY <2>1, FileRead DEF WellFormed
    <2>3. AbstractStore!IsMap(onDisk)
      BY <2>1, <2>2, SettingsMap DEF WellFormed
    <2>4. SettingsOf(ini_content) = <<>>
      BY EmptyList DEF Init
    <2> QED BY <2>3, <2>4 DEF Init, AbstractStore!Init
  <1>2. ConfigInv /\ [Next]_vars =>
           [AbstractStore!Next]_<<SettingsOf(ini_content), onDisk,
              IF ~mInstance THEN "stopped"
              ELSE IF mNoSaveMode THEN "readonly" ELSE "open", lossy>>
    BY StoreStep
  <1> QED BY <1>1, <1>2, ConfigInvariant, PTL
          DEF Spec, ImplementsStore, AbstractStore!Spec
=============================================================================
