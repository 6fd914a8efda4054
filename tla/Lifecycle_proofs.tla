---------------------------- MODULE Lifecycle_proofs ---------------------------
(***************************************************************************)
(* Proofs about Daemon::run outside of its main loop: the segments of the  *)
(* slots lie inside the shared memory and do not overlap; the plugin       *)
(* manager keeps its registrations; on every path everything is released   *)
(* once, in an order that keeps code loaded while objects use it; and the  *)
(* thread of the telnet server is outlived by what it uses.                *)
(***************************************************************************)
EXTENDS Lifecycle, NaturalFacts, SequenceTheorems, FiniteSetTheorems

\* A size that fits into size_t is not changed by cutting it off.
LEMMA SizeFits ==
    ASSUME NEW a \in Nat, a < SizeLimit
    PROVE  a % SizeLimit = a
  <1>1. SizeLimit \in Nat \ {0}
    BY SegmentAssumption, SMT DEF SegmentAssumption
  <1> QED BY <1>1, SmallRemainder

\* A share, and that the shares of all slots fit into the area.
LEMMA Shares ==
    ASSUME NEW a \in Nat, NEW p \in Nat \ {0}
    PROVE  a \div p \in Nat /\ p * (a \div p) <= a
  <1>1. a \div p \in Nat
    BY SMT
  <1>2. a % p \in 0..(p - 1) /\ a = p * (a \div p) + (a % p)
    BY SMT
  <1>3. p * (a \div p) \in Nat
    BY <1>1
  <1> QED BY <1>1, <1>2, <1>3, SMT

\* The next share starts no later than the first of a later slot.
LEMMA LaterShare ==
    ASSUME NEW s \in Nat, NEW t \in Nat, NEW m \in Nat, s < t
    PROVE  s * m + m <= t * m
  <1>1. (s + 1) * m <= t * m
    BY SMT
  <1>2. (s + 1) * m = s * m + m
    BY SMT
  <1> QED BY <1>1, <1>2

(***************************************************************************)
(* Daemon::run computes messageOffset and messageMaxSize so that no two    *)
(* daemons of one baseboard write into each other's memory, whatever the   *)
(* size of the memory and the number of slots.                             *)
(***************************************************************************)
THEOREM SegmentsNeverOverlap ==
    ASSUME NEW h \in Header, h.size < SizeLimit
    PROVE  SegmentsApart(h)
  <1> DEFINE n == h.maxSlots
             a == AreaOffset(h)
             m == messageMaxSize(h)
  <1> SUFFICES ASSUME Consistent(h),
                      NEW s \in 0..(n - 1)
               PROVE  /\ FirstByte(h, s) >= a
                      /\ EndByte(h, s) <= h.size
                      /\ \A t \in 0..(n - 1) :
                            s < t => EndByte(h, s) <= FirstByte(h, t)
    BY DEF SegmentsApart
  <1>1. n \in Nat /\ a \in Nat /\ h.size \in Nat /\ a <= h.size
    BY DEF Header, AreaOffset, Consistent
  <1>2. AreaSize(h) = h.size - a
    <2>1. h.size - a \in Nat /\ h.size - a < SizeLimit
      BY <1>1, SegmentAssumption DEF SegmentAssumption
    <2> QED BY <2>1, SizeFits DEF AreaSize
  <1>3. CASE n > 1
    <2>1. m \in Nat /\ n * m <= h.size - a
      <3>1. m = AreaSize(h) \div n
        BY <1>3 DEF messageMaxSize
      <3>2. AreaSize(h) \in Nat /\ n \in Nat \ {0}
        BY <1>1, <1>2, <1>3
      <3> HIDE DEF n, a, m
      <3> QED BY <1>2, <3>1, <3>2, Shares
    <2>2. \A t \in 0..(n - 1) : FirstByte(h, t) = a + t * m
      BY <1>3 DEF FirstByte, messageOffset
    <2>3. EndByte(h, s) = a + s * m + m
      BY <1>3 DEF EndByte, messageOffset
    <2> HIDE DEF n, a, m
    <2>4. s \in Nat /\ s * m \in Nat /\ n * m \in Nat
      BY <1>1, <2>1
    <2>5. s * m + m <= n * m
      BY <1>1, <2>1, <2>4, LaterShare
    <2>6. FirstByte(h, s) >= a
      BY <1>1, <2>2, <2>4
    <2>7. EndByte(h, s) <= h.size
      BY <1>1, <2>1, <2>3, <2>4, <2>5
    <2>8. ASSUME NEW t \in 0..(n - 1), s < t
          PROVE  EndByte(h, s) <= FirstByte(h, t)
      <3>1. t \in Nat /\ t * m \in Nat
        BY <1>1, <2>1
      <3>2. s * m + m <= t * m
        BY <2>1, <2>4, <2>8, <3>1, LaterShare
      <3> QED BY <1>1, <2>1, <2>2, <2>3, <2>4, <3>1, <3>2
    <2> QED BY <2>6, <2>7, <2>8
  <1>4. CASE n <= 1
    <2>1. m = h.size - a
      BY <1>1, <1>2, <1>4 DEF messageMaxSize
    <2>2. FirstByte(h, s) = a /\ EndByte(h, s) = a + m
      BY <1>1, <1>4 DEF FirstByte, EndByte, messageOffset
    <2>3. s \in Nat /\ \A t \in 0..(n - 1) : ~ (s < t)
      BY <1>1, <1>4
    <2> HIDE DEF n, a, m
    <2>4. a + m = h.size
      BY <1>1, <2>1
    <2>5. a >= a
      BY <1>1
    <2>6. h.size <= h.size
      BY <1>1
    <2> QED BY <2>2, <2>3, <2>4, <2>5, <2>6
  <1> HIDE DEF n
  <1> QED BY <1>1, <1>3, <1>4

-----------------------------------------------------------------------------
\* The header is one that was read, or none.
HeaderInv == hdr \in Header /\ hdr.size < SizeLimit

\* Only ReadMemoryHeader changes the header.
LEMMA HeaderKept ==
    ASSUME [Next]_vars
    PROVE  UNCHANGED hdr \/ hdr' \in Headers
  <1>1. CASE Startup
    BY <1>1 DEF Startup, LoadConfig, LoadAll, PluginsLoaded,
       CreateBaseboardCommunicator, ReadBaseboardHeader, CreateCommunicator,
       InitInterface, ReadMemoryHeader, CreateSlotDetector, DetectSlot,
       CheckSegment, CreateNode, CreateServer, CreateSignature, dataVars
  <1>2. CASE EndLoop \/ End
    BY <1>2 DEF EndLoop, End, DeleteObject, CloseSocket, Stop, Join,
       UnloadPlugins, Exit, dataVars
  <1>3. CASE Server \/ ClientThreads
    BY <1>3 DEF Server, ClientThreads, ServerRun, ServerTest,
       ServerAcceptFails, ServerAccept, ClientRun, ClientCommand, ClientEnd,
       dataVars
  <1>4. CASE UNCHANGED vars
    BY <1>4 DEF vars
  <1> QED BY <1>1, <1>2, <1>3, <1>4 DEF Next

(***************************************************************************)
(* Whatever header the daemon reads, at whatever point of startup or tear- *)
(* down it is: the segments of the slots are apart, if the dynamic area    *)
(* starts inside the memory.                                               *)
(***************************************************************************)
THEOREM SegmentIsSafe == Spec => []SegmentSafe
  <1>1. Init => HeaderInv
    <2> SUFFICES ASSUME Init PROVE HeaderInv
      OBVIOUS
    <2>1. hdr = NoHeader
      BY DEF Init
    <2>2. NoHeader \in Header /\ NoHeader.size < SizeLimit
      BY SegmentAssumption DEF NoHeader, Header, SegmentAssumption
    <2> QED BY <2>1, <2>2 DEF HeaderInv
  <1>2. HeaderInv /\ [Next]_vars => HeaderInv'
    <2> SUFFICES ASSUME HeaderInv, [Next]_vars PROVE HeaderInv'
      OBVIOUS
    <2>1. CASE UNCHANGED hdr
      BY <2>1 DEF HeaderInv
    <2>2. CASE hdr' \in Headers
      BY <2>2, LifecycleAssumption DEF HeaderInv, LifecycleAssumption
    <2> QED BY <2>1, <2>2, HeaderKept
  <1>3. HeaderInv => SegmentSafe
    BY SegmentsNeverOverlap DEF HeaderInv, SegmentSafe
  <1> QED BY <1>1, <1>2, <1>3, PTL DEF Spec

-----------------------------------------------------------------------------
(* Registration.                                                           *)

\* Registrations that were accepted from one of these libraries.
Known(libs) == {r \in Registrations : r.library \in libs}

Exact(libs) == UNION {[D -> Known(libs)] : D \in SUBSET STRING}

Tables(libs) ==
    [exact : Exact(libs), wild : Seq(Known(libs)), accepted : BOOLEAN]

\* A map of registrations, and the same map with one more.
LEMMA PutKnown ==
    ASSUME NEW libs, NEW m \in Exact(libs), NEW k \in STRING,
           NEW v \in Known(libs)
    PROVE  /\ Put(m, k, v) \in Exact(libs)
           /\ Put(m, k, v)[k] = v
           /\ \A t \in DOMAIN m : t \in DOMAIN Put(m, k, v)
                                  /\ (t # k => Put(m, k, v)[t] = m[t])
<1>1. PICK D \in SUBSET STRING : m \in [D -> Known(libs)]
  BY DEF Exact
<1>2. D \cup {k} \in SUBSET STRING /\ Put(m, k, v) \in [D \cup {k} -> Known(libs)]
  BY <1>1 DEF Put
<1>3. Put(m, k, v) \in Exact(libs)
  BY <1>2 DEF Exact
<1> QED BY <1>1, <1>3 DEF Put

LEMMA ExactTypes ==
    ASSUME NEW libs, NEW m \in Exact(libs), NEW t \in DOMAIN m
    PROVE  t \in STRING /\ m[t] \in Known(libs)
BY DEF Exact

\* More libraries, the same registrations.
LEMMA KnownGrows ==
    ASSUME NEW P, NEW Q, P \subseteq Q
    PROVE  Exact(P) \subseteq Exact(Q) /\ Seq(Known(P)) \subseteq Seq(Known(Q))
<1>1. Known(P) \subseteq Known(Q)
  BY DEF Known
<1>2. ASSUME NEW s \in Seq(Known(P)) PROVE s \in Seq(Known(Q))
  <2>1. s \in [1..Len(s) -> Known(P)] /\ Len(s) \in Nat
    BY LenProperties
  <2>2. s \in [1..Len(s) -> Known(Q)]
    BY <1>1, <2>1
  <2> QED BY <2>1, <2>2, SeqDef
<1>3. ASSUME NEW m \in Exact(P) PROVE m \in Exact(Q)
  <2>1. PICK D \in SUBSET STRING : m \in [D -> Known(P)]
    BY DEF Exact
  <2>2. m \in [D -> Known(Q)]
    BY <1>1, <2>1
  <2> QED BY <2>2 DEF Exact
<1> QED BY <1>2, <1>3

\* registerObject adds a registration and leaves the others alone.
LEMMA RegisterKeeps ==
    ASSUME NEW libs \in SUBSET STRING, NEW t \in Tables(libs),
           NEW r \in Registrations, NEW path \in libs
    PROVE  /\ registerObject(t, r, path) \in Tables(libs)
           /\ \A k \in DOMAIN t.exact :
                 /\ k \in DOMAIN registerObject(t, r, path).exact
                 /\ registerObject(t, r, path).exact[k] = t.exact[k]
<1> DEFINE rp == [r EXCEPT !.library = path]
<1>1. rp \in Known(libs) /\ r.key \in STRING
  BY DEF Known, Registrations
<1>2. t.exact \in Exact(libs) /\ t.wild \in Seq(Known(libs))
      /\ t.accepted \in BOOLEAN
  BY DEF Tables
<1> HIDE DEF rp
<1>3. CASE Refused(t.exact, r)
  <2>1. registerObject(t, r, path) = [t EXCEPT !.accepted = FALSE]
    BY <1>3 DEF registerObject
  <2> QED BY <2>1 DEF Tables
<1>4. CASE ~Refused(t.exact, r) /\ r.key = "*"
  <2>1. registerObject(t, r, path) = [t EXCEPT !.wild = Append(@, rp)]
    BY <1>4 DEF registerObject, rp
  <2>2. Append(t.wild, rp) \in Seq(Known(libs))
    BY <1>1, <1>2, AppendProperties
  <2> QED BY <2>1, <2>2 DEF Tables
<1>5. CASE ~Refused(t.exact, r) /\ r.key # "*"
  <2>1. registerObject(t, r, path) = [t EXCEPT !.exact = Put(@, r.key, rp)]
    BY <1>5 DEF registerObject, rp
  <2>2. Put(t.exact, r.key, rp) \in Exact(libs)
    BY <1>1, <1>2, PutKnown
  <2>3. r.key \notin DOMAIN t.exact
    BY <1>5 DEF Refused
  <2>4. \A k \in DOMAIN t.exact : /\ k \in DOMAIN Put(t.exact, r.key, rp)
                                  /\ Put(t.exact, r.key, rp)[k] = t.exact[k]
    <3> TAKE k \in DOMAIN t.exact
    <3>1. k # r.key
      BY <2>3
    <3> QED BY <3>1 DEF Put
  <2>5. registerObject(t, r, path).exact = Put(t.exact, r.key, rp)
    BY <2>1 DEF Tables
  <2> QED BY <2>1, <2>2, <2>4, <2>5 DEF Tables
<1> QED BY <1>3, <1>4, <1>5

\* After all registrations of a plugin, what was there before is still there.
LEMMA InitializeKeeps ==
    ASSUME NEW libs \in SUBSET STRING, NEW path \in libs,
           NEW regs \in Seq(Registrations),
           exactMatchMap_ \in Exact(libs), wildCardVec_ \in Seq(Known(libs))
    PROVE  /\ initializePlugin(regs, path) \in Tables(libs)
           /\ \A k \in DOMAIN exactMatchMap_ :
                 /\ k \in DOMAIN initializePlugin(regs, path).exact
                 /\ initializePlugin(regs, path).exact[k] = exactMatchMap_[k]
<1> DEFINE n == Len(regs)
           S == Tables(libs)
           b == [exact |-> exactMatchMap_, wild |-> wildCardVec_,
                 accepted |-> TRUE]
           step == [i \in 1..n |-> [t \in S |-> registerObject(t, regs[i], path)]]
           Eq(t) == t = [i \in 0..n |-> IF i = 0 THEN b
                            ELSE registerObject(t[i - 1], regs[i], path)]
<1>1. n \in Nat /\ b \in S /\ \A i \in 1..n : regs[i] \in Registrations
  BY LenProperties, ElementOfSeq DEF Tables
<1>2. step \in [1..n -> [S -> S]]
  BY <1>1, RegisterKeeps
<1> HIDE DEF b
<1>3. PICK g : IsRun(g, n, S, b, step)
  <2> HIDE DEF n, S, step
  <2> QED BY <1>1, <1>2, RecursionExists
<1>4. \A i \in 1..n : g[i] = registerObject(g[i - 1], regs[i], path)
  <2> TAKE i \in 1..n
  <2>1. i - 1 \in 0..n /\ g[i - 1] \in S
    BY <1>1, <1>3 DEF IsRun
  <2>2. step[i][g[i - 1]] = registerObject(g[i - 1], regs[i], path)
    BY <2>1
  <2> QED BY <1>3, <2>2 DEF IsRun
<1>5. Eq(g)
  <2>1. ASSUME NEW i \in 0..n
        PROVE  g[i] = IF i = 0 THEN b
                      ELSE registerObject(g[i - 1], regs[i], path)
    <3>1. i = 0 \/ (i # 0 /\ i \in 1..n)
      BY <1>1
    <3> QED BY <1>3, <1>4, <3>1 DEF IsRun
  <2>2. g = [i \in 0..n |-> g[i]]
    BY <1>3 DEF IsRun
  <2> QED BY <2>1, <2>2, Zenon
<1> DEFINE t == CHOOSE f : Eq(f)
<1>6. Eq(t)
  <2> HIDE DEF Eq
  <2> QED BY <1>5, Zenon
<1>7. initializePlugin(regs, path) = t[n]
  BY DEF initializePlugin, b
<1> HIDE DEF t
<1>8. t[0] = b /\ \A i \in 1..n : t[i] = registerObject(t[i - 1], regs[i], path)
  <2>1. 0 \in 0..n /\ \A i \in 1..n : i \in 0..n /\ i # 0
    BY <1>1
  <2> HIDE DEF n
  <2> QED BY <1>6, <2>1, Zenon
<1> DEFINE Good(i) == /\ t[i] \in S
                      /\ \A k \in DOMAIN exactMatchMap_ :
                            /\ k \in DOMAIN t[i].exact
                            /\ t[i].exact[k] = exactMatchMap_[k]
           T == {i \in Nat : i <= n => Good(i)}
<1>9. 0 \in T
  BY <1>1, <1>8 DEF b
<1>10. ASSUME NEW i \in Nat, i \in T
       PROVE  i + 1 \in T
  <2> SUFFICES ASSUME i + 1 <= n PROVE Good(i + 1)
    OBVIOUS
  <2>1. i + 1 \in 1..n /\ (i + 1) - 1 = i /\ Good(i)
    BY <1>1, <1>10
  <2>2. t[i + 1] = registerObject(t[i], regs[i + 1], path)
    BY <1>8, <2>1
  <2>3. t[i] \in Tables(libs) /\ regs[i + 1] \in Registrations
    BY <1>1, <2>1
  <2>4. /\ t[i + 1] \in Tables(libs)
        /\ \A k \in DOMAIN t[i].exact : /\ k \in DOMAIN t[i + 1].exact
                                        /\ t[i + 1].exact[k] = t[i].exact[k]
    <3> DEFINE a == t[i]
               c == t[i + 1]
    <3> HIDE DEF a, c
    <3>1. c = registerObject(a, regs[i + 1], path) /\ a \in Tables(libs)
      BY <2>2, <2>3 DEF a, c
    <3>2. /\ c \in Tables(libs)
          /\ \A k \in DOMAIN a.exact : k \in DOMAIN c.exact /\ c.exact[k] = a.exact[k]
      BY <2>3, <3>1, RegisterKeeps
    <3> QED BY <3>2 DEF a, c
  <2> QED BY <2>1, <2>4
<1>11. n \in T
  <2> HIDE DEF T
  <2> QED BY <1>1, <1>9, <1>10, SetInduction
<1> QED BY <1>1, <1>7, <1>11

-----------------------------------------------------------------------------
(* The order of tear-down.                                                 *)

\* x is to be released; x is to be released, and later y.
Ahead(s, x) == \E i \in 1..Len(s) : s[i] = x
Later(s, x, y) ==
    \E i \in 1..Len(s) : \E j \in 1..Len(s) : i < j /\ s[i] = x /\ s[j] = y

Roles == {"signature", "network", "server", "node", "comm", "detector",
          "loggers", "config"}
Tasks == Roles \cup {"plugins", "socket", "thread", "join"}

(***************************************************************************)
(* Nothing is released twice; loggers and configuration go after the       *)
(* libraries, and nothing else does.                                       *)
(***************************************************************************)
InOrder(s) ==
    /\ s \in Seq(Tasks)
    /\ \A x \in Roles \cup {"plugins"} : ~Later(s, x, x)
    /\ \A x : Later(s, "plugins", x) => x \in {"loggers", "config"}
    /\ \A x \in {"loggers", "config"} : ~Later(s, x, "plugins")
    /\ \A x \in {"loggers", "config"} : Ahead(s, "plugins") => Ahead(s, x)

\* What is left when the first one is released.
LEMMA OneReleased ==
    ASSUME NEW s \in Seq(Tasks), s # <<>>
    PROVE  /\ Tail(s) \in Seq(Tasks)
           /\ Ahead(s, Head(s))
           /\ \A x : Ahead(Tail(s), x) => Ahead(s, x) /\ Later(s, Head(s), x)
           /\ \A x : Ahead(s, x) => x = Head(s) \/ Ahead(Tail(s), x)
           /\ \A x, y : Later(Tail(s), x, y) => Later(s, x, y)
           /\ \A x, y : Later(s, x, y) => \/ x = Head(s)
                                          \/ Later(Tail(s), x, y)
<1> DEFINE t == Tail(s)
           n == Len(s)
<1>1. /\ n \in Nat /\ n >= 1 /\ Head(s) = s[1]
      /\ t \in Seq(Tasks) /\ Len(t) = n - 1
      /\ \A i \in 1..(n - 1) : t[i] = s[i + 1]
  BY HeadTailProperties, LenProperties, EmptySeq
<1> HIDE DEF t, n
<1>2. \A i \in 1..(n - 1) : i + 1 \in 1..n /\ 1 < i + 1
  BY <1>1
<1>3. \A i \in 1..n : i = 1 \/ (i - 1 \in 1..(n - 1) /\ t[i - 1] = s[i])
  <2> TAKE i \in 1..n
  <2>1. i # 1 => i - 1 \in 1..(n - 1) /\ (i - 1) + 1 = i
    BY <1>1
  <2> QED BY <1>1, <2>1
<1>4. 1 \in 1..n
  BY <1>1
<1>5. ASSUME NEW x, Ahead(t, x) PROVE Ahead(s, x) /\ Later(s, Head(s), x)
  <2>1. PICK i \in 1..(n - 1) : t[i] = x
    BY <1>1, <1>5 DEF Ahead
  <2> QED BY <1>1, <1>2, <1>4, <2>1 DEF Ahead, Later, n
<1>6. ASSUME NEW x, Ahead(s, x) PROVE x = Head(s) \/ Ahead(t, x)
  BY <1>1, <1>3, <1>6 DEF Ahead, n
<1>7. ASSUME NEW x, NEW y, Later(t, x, y) PROVE Later(s, x, y)
  <2>1. PICK i \in 1..(n - 1), j \in 1..(n - 1) : i < j /\ t[i] = x /\ t[j] = y
    BY <1>1, <1>7 DEF Later
  <2>2. i + 1 < j + 1 /\ s[i + 1] = x /\ s[j + 1] = y
    BY <1>1, <2>1
  <2> QED BY <1>2, <2>2 DEF Later, n
<1>8. ASSUME NEW x, NEW y, Later(s, x, y), x # Head(s) PROVE Later(t, x, y)
  <2>1. PICK i \in 1..n, j \in 1..n : i < j /\ s[i] = x /\ s[j] = y
    BY <1>8 DEF Later, n
  <2>2. i # 1 /\ j # 1
    BY <1>1, <1>8, <2>1
  <2>3. /\ i - 1 \in 1..Len(t) /\ j - 1 \in 1..Len(t) /\ i - 1 < j - 1
        /\ t[i - 1] = x /\ t[j - 1] = y
    <3>1. i - 1 < j - 1
      BY <1>1, <2>1
    <3>2. i - 1 \in 1..(n - 1) /\ t[i - 1] = x
      BY <1>3, <2>1, <2>2
    <3>3. j - 1 \in 1..(n - 1) /\ t[j - 1] = y
      BY <1>3, <2>1, <2>2
    <3> QED BY <1>1, <3>1, <3>2, <3>3
  <2> QED BY <2>3 DEF Later
<1>9. Ahead(s, Head(s))
  BY <1>1, <1>4 DEF Ahead, n
<1> QED BY <1>1, <1>5, <1>6, <1>7, <1>8, <1>9 DEF t

LEMMA ReleaseKeepsOrder ==
    ASSUME NEW s, InOrder(s), s # <<>>, Head(s) # "plugins"
    PROVE  InOrder(Tail(s))
<1>1. /\ s \in Seq(Tasks) /\ Tail(s) \in Seq(Tasks)
      /\ \A x : Ahead(Tail(s), x) => Ahead(s, x) /\ Later(s, Head(s), x)
      /\ \A x : Ahead(s, x) => x = Head(s) \/ Ahead(Tail(s), x)
      /\ \A x, y : Later(Tail(s), x, y) => Later(s, x, y)
  BY OneReleased DEF InOrder
<1>2. ASSUME NEW x \in {"loggers", "config"}, Ahead(Tail(s), "plugins")
      PROVE  Ahead(Tail(s), x)
  BY <1>1, <1>2 DEF InOrder
<1> QED BY <1>1, <1>2 DEF InOrder

LEMMA UnloadKeepsOrder ==
    ASSUME NEW s, InOrder(s), s # <<>>, Head(s) = "plugins"
    PROVE  /\ InOrder(Tail(s)) /\ ~Ahead(Tail(s), "plugins")
           /\ \A x : Ahead(s, x) => x \in {"plugins", "loggers", "config"}
<1>1. /\ s \in Seq(Tasks) /\ Tail(s) \in Seq(Tasks)
      /\ \A x : Ahead(Tail(s), x) => Ahead(s, x) /\ Later(s, Head(s), x)
      /\ \A x : Ahead(s, x) => x = Head(s) \/ Ahead(Tail(s), x)
      /\ \A x, y : Later(Tail(s), x, y) => Later(s, x, y)
  BY OneReleased DEF InOrder
<1>2. ~Ahead(Tail(s), "plugins")
  BY <1>1 DEF InOrder
<1> QED BY <1>1, <1>2 DEF InOrder

\* Stop finds the thread running: it is waited for first.
LEMMA JoinKeepsOrder ==
    ASSUME NEW s, InOrder(s), s # <<>>, Head(s) = "thread"
    PROVE  /\ InOrder(<<"join">> \o Tail(s))
           /\ <<"join">> \o Tail(s) # <<>>
           /\ Head(<<"join">> \o Tail(s)) = "join"
           /\ \A x \in Roles \cup {"plugins"} :
                 Ahead(<<"join">> \o Tail(s), x) <=> Ahead(s, x)
<1> DEFINE t == Tail(s)
           u == <<"join">> \o t
           n == Len(s)
<1>1. /\ n \in Nat /\ n >= 1 /\ s[1] = "thread" /\ s \in Seq(Tasks)
      /\ t \in Seq(Tasks) /\ Len(t) = n - 1
      /\ \A i \in 1..(n - 1) : t[i] = s[i + 1]
  BY HeadTailProperties, LenProperties, EmptySeq DEF InOrder
<1> HIDE DEF t, n
<1>2. /\ u \in Seq(Tasks) /\ Len(u) = 1 + Len(t)
      /\ \A i \in 1..(1 + Len(t)) :
            u[i] = IF i <= 1 THEN <<"join">>[i] ELSE t[i - 1]
  <2>1. <<"join">> \in Seq(Tasks) /\ Len(<<"join">>) = 1
    BY DEF Tasks
  <2> QED BY <1>1, <2>1, ConcatProperties
<1> HIDE DEF u
<1>3. Len(u) = n /\ u[1] = "join" /\ \A i \in 2..n : u[i] = s[i]
  <2>1. ASSUME NEW i \in 2..n PROVE u[i] = s[i]
    <3>1. /\ i \in 1..(1 + Len(t)) /\ ~(i <= 1)
          /\ i - 1 \in 1..(n - 1) /\ (i - 1) + 1 = i
      BY <1>1
    <3> QED BY <1>1, <1>2, <3>1
  <2> QED BY <1>1, <1>2, <2>1
<1>4. \A x, y : Later(u, x, y) => x = "join" \/ Later(s, x, y)
  BY <1>1, <1>3 DEF Later, n
<1>5. \A x : x \notin {"join", "thread"} => (Ahead(u, x) <=> Ahead(s, x))
  BY <1>1, <1>3 DEF Ahead, n
<1>6. u # <<>> /\ Head(u) = "join"
  BY <1>1, <1>2, <1>3, EmptySeq, HeadTailProperties
<1>7. InOrder(u)
  BY <1>2, <1>4, <1>5 DEF InOrder, Roles
<1> QED BY <1>5, <1>6, <1>7 DEF u, t, Roles

\* Two parts of a plan, one after the other.
LEMMA PlanOfTwo ==
    ASSUME NEW o \in Seq(Tasks), NEW r \in Seq(Tasks)
    PROVE  /\ o \o r \in Seq(Tasks)
           /\ \A x : Ahead(o \o r, x) <=> Ahead(o, x) \/ Ahead(r, x)
           /\ \A x, y : Later(o \o r, x, y) => \/ Later(o, x, y)
                                               \/ Ahead(o, x) /\ Ahead(r, y)
                                               \/ Later(r, x, y)
           /\ \A x, y : Later(o, x, y) => Later(o \o r, x, y)
<1> DEFINE u == o \o r
           m == Len(o)
           n == Len(r)
<1>1. /\ m \in Nat /\ n \in Nat /\ u \in Seq(Tasks) /\ Len(u) = m + n
      /\ \A i \in 1..(m + n) : u[i] = IF i <= m THEN o[i] ELSE r[i - m]
  BY ConcatProperties, LenProperties
<1> HIDE DEF u, m, n
<1>2. \A i \in 1..m : i \in 1..(m + n) /\ u[i] = o[i]
  BY <1>1
<1>3. \A i \in 1..n : i + m \in 1..(m + n) /\ u[i + m] = r[i]
  <2> TAKE i \in 1..n
  <2>1. i + m \in 1..(m + n) /\ ~(i + m <= m) /\ (i + m) - m = i
    BY <1>1
  <2> QED BY <1>1, <2>1
<1>4. ASSUME NEW i \in 1..(m + n)
      PROVE  \/ i \in 1..m /\ u[i] = o[i]
             \/ i > m /\ i - m \in 1..n /\ u[i] = r[i - m]
  <2>1. i <= m => i \in 1..m
    BY <1>1
  <2>2. ~(i <= m) => i > m /\ i - m \in 1..n
    BY <1>1
  <2> QED BY <1>1, <2>1, <2>2
<1>5. \A x : Ahead(u, x) <=> Ahead(o, x) \/ Ahead(r, x)
  <2> TAKE x
  <2>1. Ahead(u, x) => Ahead(o, x) \/ Ahead(r, x)
    BY <1>1, <1>4 DEF Ahead, m, n
  <2>2. Ahead(o, x) \/ Ahead(r, x) => Ahead(u, x)
    BY <1>1, <1>2, <1>3 DEF Ahead, m, n
  <2> QED BY <2>1, <2>2
<1>6. ASSUME NEW x, NEW y, Later(u, x, y)
      PROVE  Later(o, x, y) \/ (Ahead(o, x) /\ Ahead(r, y)) \/ Later(r, x, y)
  <2>1. PICK i \in 1..(m + n), j \in 1..(m + n) : i < j /\ u[i] = x /\ u[j] = y
    BY <1>1, <1>6 DEF Later
  <2>2. CASE i \in 1..m /\ j \in 1..m
    BY <1>2, <2>1, <2>2 DEF Later, m
  <2>3. CASE i \in 1..m /\ j - m \in 1..n /\ u[j] = r[j - m]
    BY <1>2, <2>1, <2>3 DEF Ahead, m, n
  <2>4. CASE /\ i - m \in 1..n /\ u[i] = r[i - m]
             /\ j - m \in 1..n /\ u[j] = r[j - m]
    <3>1. i - m < j - m
      BY <1>1, <2>1
    <3> QED BY <2>1, <2>4, <3>1 DEF Later, n
  <2>5. ~(i > m /\ j \in 1..m)
    BY <1>1, <2>1
  <2>6. /\ (i \in 1..m /\ u[i] = o[i]) \/ (i > m /\ i - m \in 1..n /\ u[i] = r[i - m])
        /\ (j \in 1..m /\ u[j] = o[j]) \/ (j > m /\ j - m \in 1..n /\ u[j] = r[j - m])
    BY <1>4
  <2> QED BY <2>2, <2>3, <2>4, <2>5, <2>6
<1>7. \A x, y : Later(o, x, y) => Later(u, x, y)
  BY <1>1, <1>2 DEF Later, m
<1> QED BY <1>1, <1>5, <1>6, <1>7 DEF u

\* The last three of nearly every plan.
LEMMA LastThree ==
    /\ ReleaseOrder \in Seq(Tasks)
    /\ \A x : Ahead(ReleaseOrder, x) <=> x \in {"plugins", "loggers", "config"}
    /\ \A x, y : Later(ReleaseOrder, x, y) =>
                    /\ x \in {"plugins", "loggers"}
                    /\ y \in {"loggers", "config"} /\ x # y
<1> DEFINE r == <<"plugins", "loggers", "config">>
<1>1. r \in Seq(Tasks) /\ Len(r) = 3
  BY DEF Tasks, Roles
<1>2. r[1] = "plugins" /\ r[2] = "loggers" /\ r[3] = "config"
  OBVIOUS
<1> HIDE DEF r
<1>3. \A i \in 1..3 : i = 1 \/ i = 2 \/ i = 3
  OBVIOUS
<1>4. \A x : Ahead(r, x) <=> x \in {"plugins", "loggers", "config"}
  BY <1>1, <1>2, <1>3 DEF Ahead
<1>5. \A x, y : Later(r, x, y) => /\ x \in {"plugins", "loggers"}
                                  /\ y \in {"loggers", "config"} /\ x # y
  BY <1>1, <1>2, <1>3 DEF Later
<1> QED BY <1>1, <1>4, <1>5 DEF r, ReleaseOrder

LEMMA PlanInOrder ==
    ASSUME NEW o \in Seq(Tasks),
           \A x \in {"plugins", "loggers", "config"} : ~Ahead(o, x),
           \A x \in Roles : ~Later(o, x, x)
    PROVE  /\ InOrder(o \o ReleaseOrder)
           /\ \A x : Ahead(o \o ReleaseOrder, x)
                       <=> Ahead(o, x) \/ x \in {"plugins", "loggers", "config"}
<1> DEFINE u == o \o ReleaseOrder
<1>1. /\ u \in Seq(Tasks)
      /\ \A x : Ahead(u, x) <=> Ahead(o, x) \/ Ahead(ReleaseOrder, x)
      /\ \A x, y : Later(u, x, y) => \/ Later(o, x, y)
                                     \/ Ahead(o, x) /\ Ahead(ReleaseOrder, y)
                                     \/ Later(ReleaseOrder, x, y)
  BY PlanOfTwo, LastThree
<1> HIDE DEF u
<1>2. \A x, y : Later(o, x, y) => Ahead(o, x) /\ Ahead(o, y)
  BY DEF Later, Ahead
<1>3. \A x \in Roles \cup {"plugins"} : ~Later(u, x, x)
  BY <1>1, <1>2, LastThree
<1>4. \A x : Later(u, "plugins", x) => x \in {"loggers", "config"}
  BY <1>1, <1>2, LastThree
<1>5. \A x \in {"loggers", "config"} : ~Later(u, x, "plugins")
  BY <1>1, <1>2, LastThree
<1> QED BY <1>1, <1>3, <1>4, <1>5, LastThree DEF InOrder, u

\* The plans of the early returns and of the end of Daemon::run.
LEMMA EarlyPlans ==
    ASSUME NEW o \in {<<>>, <<"comm">>, <<"detector", "comm">>,
                      <<"node", "comm">>}
    PROVE  /\ InOrder(o \o ReleaseOrder)
           /\ \A x : Ahead(o \o ReleaseOrder, x)
                       <=> \/ \E i \in 1..Len(o) : o[i] = x
                           \/ x \in {"plugins", "loggers", "config"}
<1>1. o \in Seq(Tasks) /\ Len(o) \in 0..2
  <2>1. CASE o = <<>>
    BY <2>1
  <2>2. CASE o = <<"comm">>
    BY <2>2 DEF Tasks, Roles
  <2>3. CASE o = <<"detector", "comm">>
    BY <2>3 DEF Tasks, Roles
  <2>4. CASE o = <<"node", "comm">>
    BY <2>4 DEF Tasks, Roles
  <2> QED BY <2>1, <2>2, <2>3, <2>4
<1>2. /\ \A i \in 1..Len(o) : o[i] \notin {"plugins", "loggers", "config"}
      /\ Len(o) = 2 => o[1] # o[2]
  <2>1. CASE o = <<>>
    <3>1. Len(o) = 0
      BY <2>1
    <3> QED BY <3>1
  <2>2. CASE o = <<"comm">>
    <3>1. Len(o) = 1 /\ o[1] = "comm"
      BY <2>2
    <3> QED BY <3>1
  <2>3. CASE o = <<"detector", "comm">>
    <3>1. Len(o) = 2 /\ o[1] = "detector" /\ o[2] = "comm"
      BY <2>3
    <3>2. \A i \in 1..2 : i = 1 \/ i = 2
      OBVIOUS
    <3> QED BY <3>1, <3>2
  <2>4. CASE o = <<"node", "comm">>
    <3>1. Len(o) = 2 /\ o[1] = "node" /\ o[2] = "comm"
      BY <2>4
    <3>2. \A i \in 1..2 : i = 1 \/ i = 2
      OBVIOUS
    <3> QED BY <3>1, <3>2
  <2> QED BY <2>1, <2>2, <2>3, <2>4
<1> HIDE DEF Ahead, Later
<1>4. \A x \in {"plugins", "loggers", "config"} : ~Ahead(o, x)
  BY <1>2 DEF Ahead
<1>5. \A x \in Roles : ~Later(o, x, x)
  <2> SUFFICES ASSUME NEW x, Later(o, x, x) PROVE FALSE
    OBVIOUS
  <2>1. PICK i \in 1..Len(o), j \in 1..Len(o) : i < j /\ o[i] = x /\ o[j] = x
    BY DEF Later
  <2>2. i = 1 /\ j = 2 /\ Len(o) = 2
    BY <1>1, <2>1
  <2> QED BY <1>2, <2>1, <2>2
<1> QED BY <1>1, <1>4, <1>5, PlanInOrder DEF Ahead

LEMMA SmallSegmentPlan ==
    LET s == <<"comm", "plugins", "config", "loggers">>
    IN  /\ InOrder(s)
        /\ \A x : Ahead(s, x) <=> x \in {"comm", "plugins", "config", "loggers"}
<1> DEFINE s == <<"comm", "plugins", "config", "loggers">>
<1>1. s \in Seq(Tasks) /\ Len(s) = 4
  BY DEF Tasks, Roles
<1>2. s[1] = "comm" /\ s[2] = "plugins" /\ s[3] = "config" /\ s[4] = "loggers"
  OBVIOUS
<1> HIDE DEF s
<1>3. \A i \in 1..4 : i = 1 \/ i = 2 \/ i = 3 \/ i = 4
  OBVIOUS
<1>4. \A x : Ahead(s, x) <=> x \in {"comm", "plugins", "config", "loggers"}
  BY <1>1, <1>2, <1>3 DEF Ahead
<1>5. \A x, y : Later(s, x, y) => /\ x = "comm" => y # "comm"
                                  /\ x = "plugins" => y \in {"config", "loggers"}
                                  /\ x = "config" => y = "loggers"
                                  /\ x # "loggers"
                                  /\ x \in {"comm", "plugins", "config"}
  BY <1>1, <1>2, <1>3 DEF Later
<1>6. InOrder(s)
  BY <1>1, <1>4, <1>5 DEF InOrder
<1> QED BY <1>4, <1>6 DEF s

LEMMA TearDownPlan ==
    /\ InOrder(TearDown \o ReleaseOrder)
    /\ \A x \in Roles \cup {"plugins"} :
          Ahead(TearDown \o ReleaseOrder, x) <=> x # "detector"
    /\ Later(TearDown \o ReleaseOrder, "thread", "network")
    /\ Later(TearDown \o ReleaseOrder, "thread", "server")
<1> DEFINE o == <<"signature", "socket", "thread", "network", "thread",
                  "server", "node", "comm">>
<1>1. o \in Seq(Tasks) /\ Len(o) = 8
  BY DEF Tasks, Roles
<1>2. /\ o[1] = "signature" /\ o[2] = "socket" /\ o[3] = "thread"
      /\ o[4] = "network" /\ o[5] = "thread" /\ o[6] = "server"
      /\ o[7] = "node" /\ o[8] = "comm"
  OBVIOUS
<1> HIDE DEF o
<1>3. \A i \in 1..8 : i = 1 \/ i = 2 \/ i = 3 \/ i = 4 \/ i = 5 \/ i = 6
                      \/ i = 7 \/ i = 8
  OBVIOUS
<1>4. \A x : Ahead(o, x) <=> x \in {"signature", "socket", "thread", "network",
                                    "server", "node", "comm"}
  BY <1>1, <1>2, <1>3 DEF Ahead
<1>5. \A x \in Roles : ~Later(o, x, x)
  <2> SUFFICES ASSUME NEW x \in Roles, NEW i \in 1..8, NEW j \in 1..8,
                      i < j, o[i] = x, o[j] = x
               PROVE  FALSE
    BY <1>1 DEF Later
  <2> QED BY <1>2, <1>3 DEF Roles
<1>6. Later(o, "thread", "network") /\ Later(o, "thread", "server")
  <2>1. /\ 3 \in 1..8 /\ 4 \in 1..8 /\ 6 \in 1..8 /\ 3 < 4 /\ 3 < 6
    OBVIOUS
  <2> QED BY <1>1, <1>2, <2>1 DEF Later
<1>7. \A x \in {"plugins", "loggers", "config"} : ~Ahead(o, x)
  BY <1>4
<1>8. /\ InOrder(o \o ReleaseOrder)
      /\ \A x : Ahead(o \o ReleaseOrder, x)
                  <=> Ahead(o, x) \/ x \in {"plugins", "loggers", "config"}
  BY <1>1, <1>5, <1>7, PlanInOrder
<1>9. /\ Later(o \o ReleaseOrder, "thread", "network")
      /\ Later(o \o ReleaseOrder, "thread", "server")
  BY <1>1, <1>6, PlanOfTwo, LastThree
<1>10. TearDown = o
  BY DEF TearDown, o
<1> QED BY <1>4, <1>8, <1>9, <1>10 DEF Roles

LEMMA EarlyRoles ==
    LET last == {"plugins", "loggers", "config"}
    IN  /\ \A x : Ahead(<<>> \o ReleaseOrder, x) <=> x \in last
        /\ \A x : Ahead(<<"comm">> \o ReleaseOrder, x) <=> x \in last \cup {"comm"}
        /\ \A x : Ahead(<<"detector", "comm">> \o ReleaseOrder, x)
                    <=> x \in last \cup {"detector", "comm"}
        /\ \A x : Ahead(<<"node", "comm">> \o ReleaseOrder, x)
                    <=> x \in last \cup {"node", "comm"}
<1> DEFINE last == {"plugins", "loggers", "config"}
<1>1. ASSUME NEW o \in {<<>>, <<"comm">>, <<"detector", "comm">>,
                        <<"node", "comm">>}, NEW x
      PROVE  Ahead(o \o ReleaseOrder, x)
                <=> x \in last \/ \E i \in 1..Len(o) : o[i] = x
  BY EarlyPlans
<1>2. \A i \in 1..2 : i = 1 \/ i = 2
  OBVIOUS
<1>3. ASSUME NEW o, NEW x
      PROVE  /\ o = <<>> => ~(\E i \in 1..Len(o) : o[i] = x)
             /\ o = <<"comm">> => ((\E i \in 1..Len(o) : o[i] = x) <=> x = "comm")
             /\ o = <<"detector", "comm">> =>
                   ((\E i \in 1..Len(o) : o[i] = x) <=> x \in {"detector", "comm"})
             /\ o = <<"node", "comm">> =>
                   ((\E i \in 1..Len(o) : o[i] = x) <=> x \in {"node", "comm"})
  <2>1. CASE o = <<>>
    <3>1. Len(o) = 0
      BY <2>1
    <3> QED BY <2>1, <3>1
  <2>2. CASE o = <<"comm">>
    <3>1. Len(o) = 1 /\ o[1] = "comm" /\ 1 \in 1..1 /\ \A i \in 1..1 : i = 1
      BY <2>2
    <3>2. (\E i \in 1..Len(o) : o[i] = x) <=> x = "comm"
      BY <3>1
    <3> QED BY <2>2, <3>2
  <2>3. CASE o = <<"detector", "comm">>
    <3>1. Len(o) = 2 /\ o[1] = "detector" /\ o[2] = "comm" /\ 1 \in 1..2 /\ 2 \in 1..2
      BY <2>3
    <3>2. (\E i \in 1..Len(o) : o[i] = x) <=> x \in {"detector", "comm"}
      BY <1>2, <3>1
    <3> QED BY <2>3, <3>2
  <2>4. CASE o = <<"node", "comm">>
    <3>1. Len(o) = 2 /\ o[1] = "node" /\ o[2] = "comm" /\ 1 \in 1..2 /\ 2 \in 1..2
      BY <2>4
    <3>2. (\E i \in 1..Len(o) : o[i] = x) <=> x \in {"node", "comm"}
      BY <1>2, <3>1
    <3> QED BY <2>4, <3>2
  <2> QED BY <2>1, <2>2, <2>3, <2>4
<1>4. \A x : Ahead(<<>> \o ReleaseOrder, x) <=> x \in last
  BY <1>1, <1>3
<1>5. \A x : Ahead(<<"comm">> \o ReleaseOrder, x) <=> x \in last \cup {"comm"}
  BY <1>1, <1>3
<1>6. \A x : Ahead(<<"detector", "comm">> \o ReleaseOrder, x)
                    <=> x \in last \cup {"detector", "comm"}
  BY <1>1, <1>3
<1>7. \A x : Ahead(<<"node", "comm">> \o ReleaseOrder, x)
                    <=> x \in last \cup {"node", "comm"}
  BY <1>1, <1>3
<1> QED BY <1>4, <1>5, <1>6, <1>7

-----------------------------------------------------------------------------
(* The plugin manager.                                                     *)

(***************************************************************************)
(* The inductive invariant of the plugin manager: a library is open once   *)
(* exactly while it is in the map, every registration came from a library  *)
(* in the map, and the stored exit functions belong to different libraries *)
(* whose exit function has not run.                                        *)
(***************************************************************************)
ManagerInv ==
    /\ setup \in Setups
    /\ unread \subseteq setup.directory
    /\ setup.directory = NoDirectory => unread = {}
    /\ dynamicLibraryMap_ \subseteq Paths
    /\ exactMatchMap_ \in Exact(dynamicLibraryMap_)
    /\ wildCardVec_ \in Seq(Known(dynamicLibraryMap_))
    /\ handles = [p \in Paths |-> IF p \in dynamicLibraryMap_ THEN 1 ELSE 0]
    /\ exits \in [Paths -> 0..1]
    /\ exitFuncVec_ \in Seq(dynamicLibraryMap_)
    /\ \A i, j \in 1..Len(exitFuncVec_) :
          exitFuncVec_[i] = exitFuncVec_[j] => i = j
    /\ \A p \in dynamicLibraryMap_ : exits[p] = 0

LEMMA PathTypes ==
    /\ Paths \subseteq STRING
    /\ \A s \in Setups : \A e \in s.directory :
          s.directory # NoDirectory =>
             /\ e \in Entries
             /\ e.kind \in {"library", "link"} => e.target \in Paths
<1>1. ASSUME NEW s \in Setups, NEW e \in s.directory, e.kind \in {"library", "link"}
      PROVE  e \in Entries
  <2>1. s.directory # NoDirectory
    <3>1. ASSUME NEW x \in NoDirectory PROVE x.kind = "none"
      <4>1. x = [kind |-> "none", path |-> ""]
        BY DEF NoDirectory
      <4> QED BY <4>1
    <3> QED BY <1>1, <3>1
  <2> QED BY <1>1, <2>1, SetupsAssumption DEF SetupsAssumption
<1>2. Paths \subseteq STRING
  BY <1>1 DEF Paths, Entries
<1> QED BY <1>2, SetupsAssumption DEF SetupsAssumption, Paths

LEMMA ManagerStarts == PMInit => ManagerInv
<1> SUFFICES ASSUME PMInit PROVE ManagerInv
  OBVIOUS
<1>1. exactMatchMap_ \in Exact({})
  <2>1. exactMatchMap_ \in [{} -> Known({})]
    BY DEF PMInit
  <2> QED BY <2>1 DEF Exact
<1>2. /\ wildCardVec_ \in Seq(Known({})) /\ exitFuncVec_ \in Seq({})
      /\ Len(exitFuncVec_) = 0
  BY EmptySeq DEF PMInit
<1>3. \A i \in 1..Len(exitFuncVec_) : FALSE
  BY <1>2
<1> QED BY <1>1, <1>2, <1>3 DEF PMInit, ManagerInv

\* The map of a loaded library.
LEMMA LoadKeeps ==
    ASSUME ManagerInv, LoadEntry, \A p \in Paths : exits[p] = 0
    PROVE  /\ ManagerInv' /\ UNCHANGED exits
           /\ dynamicLibraryMap_ \subseteq dynamicLibraryMap_'
           /\ \A k \in DOMAIN exactMatchMap_ :
                 /\ k \in DOMAIN exactMatchMap_'
                 /\ exactMatchMap_'[k] = exactMatchMap_[k]
<1>1. PICK e \in unread : /\ unread' = unread \ {e}
                          /\ loadByPath(e)
                          /\ UNCHANGED <<setup, exits>>
  BY DEF LoadEntry
<1>2. e \in Entries /\ (e.kind \in {"library", "link"} => e.target \in Paths)
  BY PathTypes DEF ManagerInv
<1>3. /\ setup' \in Setups /\ unread' \subseteq setup'.directory
      /\ setup'.directory = NoDirectory => unread' = {}
  BY <1>1 DEF ManagerInv
<1>4. CASE Skipped(e)
  <2>1. UNCHANGED <<dynamicLibraryMap_, handles, exactMatchMap_,
                    wildCardVec_, exitFuncVec_>>
    BY <1>1, <1>4 DEF loadByPath
  <2> QED BY <1>1, <1>3, <2>1 DEF ManagerInv
<1>5. CASE ~Skipped(e)
  <2> DEFINE d == dynamicLibraryMap_
             q == dynamicLibraryMap_ \cup {e.target}
             t == initializePlugin(e.registrations, e.target)
  <2>1. e.target \in Paths /\ e.target \notin dynamicLibraryMap_
    BY <1>2, <1>5 DEF Skipped, AlreadyLoaded, Entries
  <2>2. /\ dynamicLibraryMap_' = q
        /\ handles' = [handles EXCEPT ![e.target] = @ + 1]
        /\ exactMatchMap_' = IF e.entry THEN t.exact ELSE exactMatchMap_
        /\ wildCardVec_' = IF e.entry THEN t.wild ELSE wildCardVec_
        /\ exitFuncVec_' = IF e.entry /\ t.accepted
                           THEN Append(exitFuncVec_, e.target)
                           ELSE exitFuncVec_
    BY <1>1, <1>5 DEF loadByPath, Opened
  <2>3. /\ q \subseteq Paths /\ q \in SUBSET STRING /\ e.target \in q
        /\ d \subseteq q
        /\ e.registrations \in Seq(Registrations) /\ e.entry \in BOOLEAN
    BY <1>2, <2>1, PathTypes DEF ManagerInv, Entries
  <2>4. exactMatchMap_ \in Exact(q) /\ wildCardVec_ \in Seq(Known(q))
    BY <2>3, KnownGrows DEF ManagerInv
  <2>5. /\ t \in Tables(q)
        /\ \A k \in DOMAIN exactMatchMap_ :
              k \in DOMAIN t.exact /\ t.exact[k] = exactMatchMap_[k]
    <3> HIDE DEF q
    <3> QED BY <2>3, <2>4, InitializeKeeps
  <2> HIDE DEF t
  <2>6. /\ exactMatchMap_' \in Exact(q) /\ wildCardVec_' \in Seq(Known(q))
        /\ \A k \in DOMAIN exactMatchMap_ :
              /\ k \in DOMAIN exactMatchMap_'
              /\ exactMatchMap_'[k] = exactMatchMap_[k]
    <3> HIDE DEF q
    <3>1. t.exact \in Exact(q) /\ t.wild \in Seq(Known(q))
      BY <2>5 DEF Tables
    <3>2. CASE e.entry
      BY <2>2, <2>5, <3>1, <3>2
    <3>3. CASE ~e.entry
      BY <2>2, <2>4, <3>3
    <3> QED BY <3>2, <3>3
  <2>7. handles' = [p \in Paths |-> IF p \in q THEN 1 ELSE 0]
    BY <2>1, <2>2 DEF ManagerInv
  <2>8. /\ exitFuncVec_' \in Seq(q)
        /\ \A i, j \in 1..Len(exitFuncVec_') :
              exitFuncVec_'[i] = exitFuncVec_'[j] => i = j
    <3> DEFINE v == exitFuncVec_
               w == Append(exitFuncVec_, e.target)
    <3>1. /\ v \in Seq(q) /\ Len(v) \in Nat /\ v \in Seq(d)
          /\ \A i \in 1..Len(v) : v[i] \in d
      <4>1. v \in Seq(d)
        BY DEF ManagerInv
      <4>2. v \in [1..Len(v) -> d] /\ Len(v) \in Nat
        BY <4>1, LenProperties
      <4>3. v \in [1..Len(v) -> q]
        BY <2>3, <4>2
      <4>4. v \in Seq(q)
        BY <4>2, <4>3, SeqDef
      <4> QED BY <4>1, <4>2, <4>4
    <3>2. /\ w \in Seq(q) /\ Len(w) = Len(v) + 1
          /\ \A i \in 1..Len(v) : w[i] = v[i]
          /\ w[Len(v) + 1] = e.target
      BY <2>3, <3>1, AppendProperties
    <3> HIDE DEF w, v, q, d
    <3>3. \A i, j \in 1..Len(v) : v[i] = v[j] => i = j
      BY DEF ManagerInv, v
    <3>4. ASSUME NEW i \in 1..Len(w), NEW j \in 1..Len(w), w[i] = w[j]
          PROVE  i = j
      <4>1. \A k \in 1..Len(w) : k \in 1..Len(v) \/ k = Len(v) + 1
        BY <3>1, <3>2
      <4>2. e.target \notin d
        BY <2>1 DEF d
      <4> QED BY <3>1, <3>2, <3>3, <3>4, <4>1, <4>2
    <3>5. exitFuncVec_' = w \/ exitFuncVec_' = v
      BY <2>2 DEF w, v
    <3> QED BY <3>1, <3>2, <3>3, <3>4, <3>5
  <2>9. \A p \in q : exits[p] = 0
    BY <2>3
  <2> QED BY <1>1, <1>3, <2>2, <2>3, <2>6, <2>7, <2>8, <2>9 DEF ManagerInv
<1> QED BY <1>4, <1>5

\* At most one stored exit function belongs to a library.
LEMMA OneExit ==
    ASSUME ManagerInv, NEW p
    PROVE  /\ Cardinality({i \in DOMAIN exitFuncVec_ : exitFuncVec_[i] = p})
                 \in 0..1
           /\ p \notin dynamicLibraryMap_ =>
                 Cardinality({i \in DOMAIN exitFuncVec_ : exitFuncVec_[i] = p}) = 0
<1> DEFINE I == {i \in DOMAIN exitFuncVec_ : exitFuncVec_[i] = p}
<1>1. /\ exitFuncVec_ \in [1..Len(exitFuncVec_) -> dynamicLibraryMap_]
      /\ DOMAIN exitFuncVec_ = 1..Len(exitFuncVec_)
  BY LenProperties DEF ManagerInv
<1>2. CASE I = {}
  BY <1>2, FS_EmptySet
<1>3. CASE I # {}
  <2>1. PICK i \in I : TRUE
    BY <1>3
  <2>2. I = {i}
    BY <1>1, <2>1 DEF ManagerInv
  <2>3. p \in dynamicLibraryMap_
    BY <1>1, <2>1
  <2>4. Cardinality({i}) = 1
    BY FS_Singleton
  <2>5. Cardinality(I) = 1
    BY <2>2, <2>4
  <2> HIDE DEF I
  <2>6. Cardinality(I) \in 0..1
    BY <2>5
  <2> QED BY <2>3, <2>6 DEF I
<1> QED BY <1>2, <1>3

LEMMA ShutdownKeeps ==
    ASSUME ManagerInv, Shutdown
    PROVE  /\ ManagerInv'
           /\ dynamicLibraryMap_' = {} /\ \A p \in Paths : handles'[p] = 0
<1> DEFINE C(p) == Cardinality({i \in DOMAIN exitFuncVec_ : exitFuncVec_[i] = p})
<1>1. /\ exits' = [p \in Paths |-> exits[p] + C(p)]
      /\ handles' = [p \in Paths |-> IF p \in dynamicLibraryMap_
                                     THEN handles[p] - 1 ELSE handles[p]]
      /\ dynamicLibraryMap_' = {} /\ exactMatchMap_' = <<>>
      /\ wildCardVec_' = <<>> /\ exitFuncVec_' = <<>>
      /\ UNCHANGED <<setup, unread>>
  BY DEF Shutdown
<1>2. \A p \in Paths : /\ C(p) \in 0..1
                       /\ p \notin dynamicLibraryMap_ => C(p) = 0
  BY OneExit
<1> HIDE DEF C
<1>3. exits' \in [Paths -> 0..1]
  <2>1. \A p \in Paths : exits[p] + C(p) \in 0..1
    BY <1>2 DEF ManagerInv
  <2> QED BY <1>1, <2>1
<1>4. handles' = [p \in Paths |-> IF p \in {} THEN 1 ELSE 0]
  BY <1>1 DEF ManagerInv
<1>5. exactMatchMap_' \in Exact({})
  <2>1. exactMatchMap_' \in [{} -> Known({})]
    BY <1>1
  <2> QED BY <2>1 DEF Exact
<1>6. /\ wildCardVec_' \in Seq(Known({})) /\ exitFuncVec_' \in Seq({})
      /\ Len(exitFuncVec_') = 0
  BY <1>1, EmptySeq
<1>7. \A i \in 1..Len(exitFuncVec_') : FALSE
  BY <1>6
<1>8. ManagerInv'
  BY <1>1, <1>3, <1>4, <1>5, <1>6, <1>7 DEF ManagerInv
<1> QED BY <1>1, <1>4, <1>8

\* Whoever makes an object was registered from a library in the map.
LEMMA CreatorKnown ==
    ASSUME ManagerInv, NEW type \in STRING, Creator(type) # NoCreator
    PROVE  /\ Creator(type) \in Known(dynamicLibraryMap_)
           /\ ~ByExactMatch(type) => type \notin DOMAIN exactMatchMap_
<1>1. CASE type # "*" /\ ByExactMatch(type)
  <2>1. Creator(type) = exactMatchMap_[type]
    BY <1>1 DEF Creator, ByWildCard
  <2>2. type \in DOMAIN exactMatchMap_
    BY <1>1 DEF ByExactMatch
  <2>3. exactMatchMap_ \in Exact(dynamicLibraryMap_)
    BY DEF ManagerInv
  <2>4. exactMatchMap_[type] \in Known(dynamicLibraryMap_)
    BY <2>2, <2>3, ExactTypes
  <2> QED BY <1>1, <2>1, <2>4
<1>2. CASE /\ type # "*" /\ ~ByExactMatch(type) /\ ByWildCard(type)
           /\ type \notin DOMAIN exactMatchMap_
  <2> DEFINE I == {i \in 1..Len(wildCardVec_) : type \in wildCardVec_[i].makes}
  <2>1. Creator(type) = FirstWildCard(type)
    BY <1>2 DEF Creator
  <2>2. /\ wildCardVec_ \in Seq(Known(dynamicLibraryMap_))
        /\ DOMAIN wildCardVec_ = 1..Len(wildCardVec_) /\ Len(wildCardVec_) \in Nat
    BY LenProperties DEF ManagerInv
  <2>3. I \in SUBSET Nat /\ I # {}
    BY <1>2, <2>2 DEF ByWildCard
  <2>4. Min(I) \in I
    <3>1. \E i \in I : \A j \in I : i <= j
      BY <2>3, LeastElement
    <3> HIDE DEF I
    <3> QED BY <3>1 DEF Min
  <2>5. FirstWildCard(type) = wildCardVec_[Min(I)]
    BY <2>3 DEF FirstWildCard, SelectInSeq
  <2>6. wildCardVec_[Min(I)] \in Known(dynamicLibraryMap_)
    <3> DEFINE m == Min(I)
    <3>1. m \in 1..Len(wildCardVec_)
      BY <2>4
    <3> HIDE DEF m
    <3>2. wildCardVec_[m] \in Known(dynamicLibraryMap_)
      BY <2>2, <3>1, ElementOfSeq
    <3> QED BY <3>2 DEF m
  <2> QED BY <1>2, <2>1, <2>5, <2>6
<1> QED BY <1>1, <1>2 DEF Creator, ByWildCard

LEMMA PromoteKeeps ==
    ASSUME ManagerInv, NEW type \in STRING, Promote(type)
    PROVE  /\ ManagerInv' /\ UNCHANGED <<exits, dynamicLibraryMap_, handles>>
           /\ \A k \in DOMAIN exactMatchMap_ :
                 /\ k \in DOMAIN exactMatchMap_'
                 /\ exactMatchMap_'[k] = exactMatchMap_[k]
<1>1. UNCHANGED <<setup, unread, dynamicLibraryMap_, wildCardVec_,
                  exitFuncVec_, handles, exits>>
  BY DEF Promote
<1>2. CASE Creator(type) # NoCreator /\ ~ByExactMatch(type)
  <2> DEFINE v == [Creator(type) EXCEPT !.key = type]
  <2>1. exactMatchMap_' = Put(exactMatchMap_, type, v)
    BY <1>2 DEF Promote
  <2>2. v \in Known(dynamicLibraryMap_) /\ type \notin DOMAIN exactMatchMap_
    <3>1. /\ Creator(type) \in Known(dynamicLibraryMap_)
          /\ type \notin DOMAIN exactMatchMap_
      BY <1>2, CreatorKnown
    <3>2. ASSUME NEW c \in Known(dynamicLibraryMap_)
          PROVE  [c EXCEPT !.key = type] \in Known(dynamicLibraryMap_)
      BY DEF Known, Registrations
    <3> QED BY <3>1, <3>2
  <2> HIDE DEF v
  <2>3. Put(exactMatchMap_, type, v) \in Exact(dynamicLibraryMap_)
    BY <2>2, PutKnown DEF ManagerInv
  <2>4. \A k \in DOMAIN exactMatchMap_ :
           /\ k \in DOMAIN Put(exactMatchMap_, type, v)
           /\ Put(exactMatchMap_, type, v)[k] = exactMatchMap_[k]
    BY <2>2 DEF Put
  <2> QED BY <1>1, <2>1, <2>3, <2>4 DEF ManagerInv
<1>3. CASE ~(Creator(type) # NoCreator /\ ~ByExactMatch(type))
  <2>1. exactMatchMap_' = exactMatchMap_
    BY <1>3 DEF Promote
  <2> QED BY <1>1, <2>1 DEF ManagerInv
<1> QED BY <1>2, <1>3

LEMMA OpenKeeps ==
    ASSUME ManagerInv, OpenDirectory
    PROVE  /\ ManagerInv'
           /\ UNCHANGED <<exits, dynamicLibraryMap_, handles, exactMatchMap_>>
BY DEF OpenDirectory, ManagerInv

LEMMA SameManager ==
    ASSUME ManagerInv, UNCHANGED pmVars
    PROVE  /\ ManagerInv'
           /\ UNCHANGED <<exits, dynamicLibraryMap_, handles, exactMatchMap_>>
BY DEF pmVars, ManagerInv

-----------------------------------------------------------------------------
(* Startup and tear-down.                                                  *)

Places == {"config", "loadAll", "baseboard", "baseboardHeader", "communicator",
           "initInterface", "header", "slot", "detect", "segment", "node",
           "server", "signature", "loop", "release", "exited"}

\* Objects that tear-down does not name: sensors go with the loop or the
\* node, and what the sensor set gave up stays.
Loose == {"sensors", "givenUp"}

(***************************************************************************)
(* Which objects exist where: everything that was created, and nothing     *)
(* else, is still to be released.                                          *)
(***************************************************************************)
RolesInv ==
    LET base == {"loggers", "config"}
        objects == DOMAIN live \ Loose
    IN
    /\ pc \in Places
    /\ pc = "config" => DOMAIN live = {"loggers"}
    /\ pc \in {"loadAll", "baseboard", "communicator"} => DOMAIN live = base
    /\ pc = "baseboardHeader" => DOMAIN live = base \cup {"baseboard"}
    /\ pc \in {"initInterface", "header", "slot", "segment", "node"} =>
          DOMAIN live = base \cup {"comm"}
    /\ pc = "detect" => DOMAIN live = base \cup {"comm", "detector"}
    /\ pc = "server" => objects = base \cup {"comm", "node"}
    /\ pc = "signature" =>
          objects = base \cup {"comm", "node", "server", "network"}
    /\ pc = "loop" =>
          objects = base \cup {"comm", "node", "server", "network", "signature"}
    /\ pc = "release" =>
          /\ InOrder(todo)
          /\ objects = {x \in Roles : Ahead(todo, x)}
          /\ "sensors" \in DOMAIN live => "node" \in DOMAIN live
    /\ pc = "exited" => DOMAIN live \subseteq {"givenUp"}

Unloaded == pc = "exited" \/ (pc = "release" /\ ~Ahead(todo, "plugins"))

\* An object is made from a library in the map, or by the daemon itself; what
\* the sensor set gave up keeps the library that it was made from.
MadeFromMap(r) ==
    \/ live[r] = ""
    \/ r = "givenUp" /\ live[r] \in Paths
    \/ live[r] \in dynamicLibraryMap_ /\ r \notin {"loggers", "config", "givenUp"}

\* Objects have their code in libraries of the map, which are all open until
\* they are all closed; exit functions run when that happens.
CodeInv ==
    /\ \A r \in DOMAIN live : MadeFromMap(r)
    /\ ~Unloaded => \A p \in Paths : exits[p] = 0
    /\ Unloaded => dynamicLibraryMap_ = {}

\* stop still comes before the server and its socket go, or is waiting.
Waited ==
    \/ Later(todo, "thread", "network") /\ Later(todo, "thread", "server")
    \/ todo # <<>> /\ Head(todo) = "join"

(***************************************************************************)
(* Unless stop came too early, the server and its socket are there as long *)
(* as the thread is, and a thread that was told to stop is waited for.     *)
(***************************************************************************)
ServerInv ==
    /\ late \in BOOLEAN /\ running \in BOOLEAN
    /\ server \in {"none", "created", "test", "accept", "done", "wild"}
    /\ \A s \in stray : s[1] # "main" /\ (s[1] = "server" => late)
    /\ pc \notin {"signature", "loop", "release", "exited"} => server = "none"
    /\ ~late => server # "wild"
    /\ ~late /\ server \in {"created", "test", "accept"} =>
          /\ {"server", "network"} \subseteq DOMAIN live
          /\ pc = "release" => Waited
    /\ ~late /\ server \in {"test", "accept"} /\ ~running =>
          pc = "release" /\ todo # <<>> /\ Head(todo) = "join"

RunInv == ManagerInv /\ RolesInv /\ CodeInv /\ ServerInv

\* An early return releases what exists.
LEMMA ReturnReleases ==
    ASSUME \/ Return(<<>>) /\ DOMAIN live' = {"loggers", "config"}
           \/ Return(<<"comm">>) /\ DOMAIN live' = {"loggers", "config", "comm"}
           \/ /\ Return(<<"detector", "comm">>)
              /\ DOMAIN live' = {"loggers", "config", "comm", "detector"}
           \/ /\ Return(<<"node", "comm">>)
              /\ DOMAIN live' \ Loose = {"loggers", "config", "comm", "node"}
    PROVE  RolesInv'
<1>1. CASE Return(<<>>) /\ DOMAIN live' = {"loggers", "config"}
  <2> DEFINE u == <<>> \o ReleaseOrder
  <2>1. InOrder(u) /\ \A x : Ahead(u, x) <=> x \in {"plugins", "loggers", "config"}
    BY EarlyPlans, EarlyRoles
  <2>2. pc' = "release" /\ todo' = u
    BY <1>1 DEF Return, Release
  <2> HIDE DEF u
  <2> QED BY <1>1, <2>1, <2>2 DEF RolesInv, Roles, Places, Loose
<1>2. CASE Return(<<"comm">>) /\ DOMAIN live' = {"loggers", "config", "comm"}
  <2> DEFINE u == <<"comm">> \o ReleaseOrder
  <2>1. /\ InOrder(u)
        /\ \A x : Ahead(u, x) <=> x \in {"plugins", "loggers", "config", "comm"}
    BY EarlyPlans, EarlyRoles
  <2>2. pc' = "release" /\ todo' = u
    BY <1>2 DEF Return, Release
  <2> HIDE DEF u
  <2> QED BY <1>2, <2>1, <2>2 DEF RolesInv, Roles, Places, Loose
<1>3. CASE /\ Return(<<"detector", "comm">>)
           /\ DOMAIN live' = {"loggers", "config", "comm", "detector"}
  <2> DEFINE u == <<"detector", "comm">> \o ReleaseOrder
  <2>1. /\ InOrder(u)
        /\ \A x : Ahead(u, x)
                    <=> x \in {"plugins", "loggers", "config", "detector", "comm"}
    BY EarlyPlans, EarlyRoles
  <2>2. pc' = "release" /\ todo' = u
    BY <1>3 DEF Return, Release
  <2> HIDE DEF u
  <2> QED BY <1>3, <2>1, <2>2 DEF RolesInv, Roles, Places, Loose
<1>4. CASE /\ Return(<<"node", "comm">>)
           /\ DOMAIN live' \ Loose = {"loggers", "config", "comm", "node"}
  <2> DEFINE u == <<"node", "comm">> \o ReleaseOrder
  <2>1. /\ InOrder(u)
        /\ \A x : Ahead(u, x)
                    <=> x \in {"plugins", "loggers", "config", "node", "comm"}
    BY EarlyPlans, EarlyRoles
  <2>2. pc' = "release" /\ todo' = u
    BY <1>4 DEF Return, Release
  <2> HIDE DEF u
  <2> QED BY <1>4, <2>1, <2>2 DEF RolesInv, Roles, Places, Loose
<1> QED BY <1>1, <1>2, <1>3, <1>4

LEMMA StartupRoles ==
    ASSUME RolesInv, Startup
    PROVE  RolesInv'
<1>1. CASE LoadConfig
  BY <1>1 DEF Put, Erase, LoadConfig, Goto, RolesInv, Places
<1>2. CASE LoadAll
  BY <1>2 DEF LoadAll, RolesInv
<1>3. CASE PluginsLoaded
  <2>1. /\ pc = "loadAll" /\ live' = live
        /\ \/ Return(<<>>)
           \/ pc' \in {"communicator", "baseboard"}
    BY <1>3 DEF PluginsLoaded, Goto
  <2> QED BY <2>1, ReturnReleases DEF RolesInv, Places
<1>4. CASE CreateBaseboardCommunicator
  <2>1. /\ pc = "baseboard"
        /\ \/ Return(<<>>) /\ live' = live
           \/ /\ pc' = "baseboardHeader"
              /\ DOMAIN live' = DOMAIN live \cup {"baseboard"}
    BY <1>4 DEF Put, Erase, CreateBaseboardCommunicator, NewPluginObject, Goto
  <2> QED BY <2>1, ReturnReleases DEF RolesInv, Places
<1>5. CASE ReadBaseboardHeader
  <2>1. /\ pc = "baseboardHeader"
        /\ DOMAIN live' = DOMAIN live \ {"baseboard"}
        /\ Return(<<>>) \/ pc' = "communicator"
    BY <1>5 DEF Put, Erase, ReadBaseboardHeader, Goto
  <2> QED BY <2>1, ReturnReleases DEF RolesInv, Places
<1>6. CASE CreateCommunicator
  <2>1. /\ pc = "communicator"
        /\ \/ Return(<<>>) /\ live' = live
           \/ /\ pc' = "initInterface"
              /\ DOMAIN live' = DOMAIN live \cup {"comm"}
    BY <1>6 DEF Put, Erase, CreateCommunicator, NewPluginObject, Goto
  <2> QED BY <2>1, ReturnReleases DEF RolesInv, Places
<1>7. CASE InitInterface \/ ReadMemoryHeader
  <2>1. /\ pc \in {"initInterface", "header"} /\ live' = live
        /\ Return(<<"comm">>) \/ pc' \in {"header", "slot"}
    BY <1>7 DEF InitInterface, ReadMemoryHeader, Goto
  <2>2. DOMAIN live = {"loggers", "config", "comm"}
    BY <2>1 DEF RolesInv
  <2>3. CASE Return(<<"comm">>)
    BY <2>1, <2>2, <2>3, ReturnReleases
  <2>4. CASE pc' \in {"header", "slot"}
    BY <2>1, <2>2, <2>4 DEF RolesInv, Places
  <2> QED BY <2>1, <2>3, <2>4
<1>8. CASE CreateSlotDetector
  <2>1. /\ pc = "slot"
        /\ \/ pc' = "segment" /\ live' = live
           \/ Return(<<"comm">>) /\ live' = live
           \/ pc' = "detect" /\ DOMAIN live' = DOMAIN live \cup {"detector"}
    BY <1>8 DEF Put, Erase, CreateSlotDetector, NewPluginObject, Goto
  <2>2. DOMAIN live = {"loggers", "config", "comm"}
    BY <2>1 DEF RolesInv
  <2>3. CASE Return(<<"comm">>) /\ live' = live
    BY <2>2, <2>3, ReturnReleases
  <2>4. CASE ~(Return(<<"comm">>) /\ live' = live)
    BY <2>1, <2>2, <2>4 DEF RolesInv, Places
  <2> QED BY <2>3, <2>4
<1>9. CASE DetectSlot
  <2>1. /\ pc = "detect"
        /\ \/ Return(<<"detector", "comm">>) /\ live' = live
           \/ pc' = "segment" /\ DOMAIN live' = DOMAIN live \ {"detector"}
    BY <1>9 DEF Put, Erase, DetectSlot, Goto
  <2>2. DOMAIN live = {"loggers", "config", "comm", "detector"}
    BY <2>1 DEF RolesInv
  <2>3. CASE Return(<<"detector", "comm">>) /\ live' = live
    BY <2>2, <2>3, ReturnReleases
  <2>4. CASE ~(Return(<<"detector", "comm">>) /\ live' = live)
    BY <2>1, <2>2, <2>4 DEF RolesInv, Places
  <2> QED BY <2>3, <2>4
<1>10. CASE CheckSegment
  <2> DEFINE u == <<"comm", "plugins", "config", "loggers">>
  <2>1. /\ pc = "segment" /\ live' = live
        /\ (pc' = "release" /\ todo' = u) \/ pc' = "node"
    BY <1>10 DEF CheckSegment, Goto, Release
  <2>2. DOMAIN live = {"loggers", "config", "comm"}
    BY <2>1 DEF RolesInv
  <2>3. /\ InOrder(u)
        /\ \A x : Ahead(u, x) <=> x \in {"comm", "plugins", "config", "loggers"}
    BY SmallSegmentPlan
  <2> HIDE DEF u
  <2>4. CASE pc' = "release" /\ todo' = u
    BY <2>1, <2>2, <2>3, <2>4 DEF RolesInv, Roles, Places, Loose
  <2>5. CASE pc' = "node"
    BY <2>1, <2>2, <2>5 DEF RolesInv, Places
  <2> QED BY <2>1, <2>4, <2>5
<1>11. CASE CreateNode
  <2>1. /\ pc = "node"
        /\ DOMAIN live' \ Loose = (DOMAIN live \cup {"node"}) \ Loose
        /\ pc' = "server" \/ Return(<<"node", "comm">>)
    <3> DEFINE L(made) == [x \in DOMAIN live \cup made |->
                              IF x \in made THEN Creator(conf.sensor).library
                              ELSE live[x]]
    <3>1. /\ pc = "node"
          /\ pc' = "server" \/ Return(<<"node", "comm">>)
          /\ \/ live' = Put(live, "node", "")
             \/ \E made \in SUBSET Loose : live' = Put(L(made), "node", "")
      BY <1>11 DEF CreateNode, Goto, Loose
    <3>2. CASE live' = Put(live, "node", "")
      BY <3>1, <3>2 DEF Put
    <3>3. ASSUME NEW made \in SUBSET Loose, live' = Put(L(made), "node", "")
          PROVE  DOMAIN live' \ Loose = (DOMAIN live \cup {"node"}) \ Loose
      <4>1. DOMAIN live' = DOMAIN L(made) \cup {"node"}
        BY <3>3 DEF Put
      <4>2. DOMAIN L(made) = DOMAIN live \cup made
        OBVIOUS
      <4> HIDE DEF L
      <4> QED BY <4>1, <4>2
    <3> HIDE DEF L
    <3> QED BY <3>1, <3>2, <3>3
  <2>2. DOMAIN live' \ Loose = {"loggers", "config", "comm", "node"}
    BY <2>1 DEF RolesInv, Loose
  <2>3. CASE Return(<<"node", "comm">>)
    BY <2>2, <2>3, ReturnReleases
  <2>4. CASE pc' = "server"
    BY <2>2, <2>4 DEF RolesInv, Places
  <2> QED BY <2>1, <2>3, <2>4
<1>12. CASE CreateServer
  <2>1. /\ pc = "server" /\ pc' = "signature"
        /\ DOMAIN live' = DOMAIN live \cup {"network", "server"}
    BY <1>12 DEF Put, Erase, CreateServer, Goto
  <2> QED BY <2>1 DEF RolesInv, Places, Loose
<1>13. CASE CreateSignature
  <2>1. /\ pc = "signature" /\ pc' = "loop"
        /\ DOMAIN live' = DOMAIN live \cup {"signature"}
    BY <1>13 DEF Put, Erase, CreateSignature, Goto
  <2> QED BY <2>1 DEF RolesInv, Places, Loose
<1> QED
  BY <1>1, <1>2, <1>3, <1>4, <1>5, <1>6, <1>7, <1>8, <1>9, <1>10, <1>11,
     <1>12, <1>13 DEF Startup

LEMMA EndLoopRoles ==
    ASSUME RolesInv, EndLoop
    PROVE  RolesInv'
<1> DEFINE u == TearDown \o ReleaseOrder
<1>1. /\ pc = "loop" /\ pc' = "release" /\ todo' = u
      /\ DOMAIN live' = DOMAIN live \ {"sensors"}
  BY DEF EndLoop, Return, Release, Erase
<1>2. /\ InOrder(u)
      /\ \A x \in Roles \cup {"plugins"} : Ahead(u, x) <=> x # "detector"
  BY TearDownPlan
<1> HIDE DEF u
<1>3. /\ DOMAIN live \ Loose = {"loggers", "config", "comm", "node",
                                      "server", "network", "signature"}
      /\ "node" \in DOMAIN live
  BY <1>1 DEF RolesInv
<1>4. {x \in Roles : Ahead(u, x)} = DOMAIN live' \ Loose
  BY <1>1, <1>2, <1>3 DEF Roles, Loose
<1> QED BY <1>1, <1>2, <1>3, <1>4 DEF RolesInv, Places

\* The main thread deletes an object that is there, and which then goes.
LEMMA DeleteRoles ==
    ASSUME RolesInv, DeleteObject
    PROVE  RolesInv' /\ UNCHANGED stray
<1>1. PICK role \in Roles :
         /\ Releasing(role) /\ Released
         /\ live' = Erase(live, Owned(role))
         /\ stray' = stray \cup Uses("main", {role})
  BY DEF DeleteObject, Roles
<1>2. /\ pc = "release" /\ todo # <<>> /\ Head(todo) = role
      /\ pc' = "release" /\ todo' = Tail(todo)
      /\ InOrder(todo) /\ todo \in Seq(Tasks)
      /\ DOMAIN live \ Loose = {x \in Roles : Ahead(todo, x)}
      /\ "sensors" \in DOMAIN live => "node" \in DOMAIN live
  BY <1>1 DEF Releasing, Released, RolesInv, InOrder
<1>3. /\ Ahead(todo, role) /\ ~Ahead(Tail(todo), role)
      /\ \A x : x # role => (Ahead(Tail(todo), x) <=> Ahead(todo, x))
  BY <1>2, OneReleased DEF InOrder
<1>4. role \in DOMAIN live
  BY <1>2, <1>3
<1>5. stray' = stray
  BY <1>1, <1>4 DEF Uses
<1>6. InOrder(Tail(todo))
  BY <1>2, ReleaseKeepsOrder DEF Roles
<1>7. DOMAIN live' = DOMAIN live \ Owned(role) /\ role \notin Loose
  BY <1>1 DEF Erase, Roles, Loose
<1>8. DOMAIN live' \ Loose = {x \in Roles : Ahead(Tail(todo), x)}
  BY <1>2, <1>3, <1>7 DEF Owned, Loose
<1>9. "sensors" \in DOMAIN live' => "node" \in DOMAIN live'
  BY <1>2, <1>7 DEF Owned
<1> QED BY <1>2, <1>5, <1>6, <1>8, <1>9 DEF RolesInv, Places

LEMMA OtherEndRoles ==
    ASSUME RolesInv, CloseSocket \/ Stop \/ Join \/ UnloadPlugins \/ Exit
    PROVE  RolesInv' /\ UNCHANGED <<live, stray>>
<1>1. UNCHANGED <<live, stray>>
  BY DEF CloseSocket, Stop, Join, UnloadPlugins, Exit
<1>2. pc = "release" /\ InOrder(todo) /\ todo \in Seq(Tasks)
      /\ DOMAIN live \ Loose = {x \in Roles : Ahead(todo, x)}
      /\ ("sensors" \in DOMAIN live => "node" \in DOMAIN live)
  BY DEF CloseSocket, Stop, Join, UnloadPlugins, Exit, Releasing, RolesInv,
     InOrder
<1>3. CASE /\ todo # <<>> /\ pc' = pc /\ todo' = Tail(todo)
           /\ Head(todo) \in {"socket", "thread", "join", "plugins"}
  <2>1. InOrder(Tail(todo))
    BY <1>2, <1>3, ReleaseKeepsOrder, UnloadKeepsOrder
  <2>2. \A x \in Roles : Ahead(Tail(todo), x) <=> Ahead(todo, x)
    BY <1>2, <1>3, OneReleased DEF Roles
  <2> QED BY <1>1, <1>2, <1>3, <2>1, <2>2 DEF RolesInv, Places
<1>4. CASE /\ todo # <<>> /\ pc' = pc /\ todo' = <<"join">> \o Tail(todo)
           /\ Head(todo) = "thread"
  <2> DEFINE u == <<"join">> \o Tail(todo)
  <2>1. InOrder(u) /\ \A x \in Roles : Ahead(u, x) <=> Ahead(todo, x)
    BY <1>2, <1>4, JoinKeepsOrder
  <2>2. todo' = u /\ pc' = "release"
    BY <1>2, <1>4
  <2> HIDE DEF u
  <2> QED BY <1>1, <1>2, <2>1, <2>2 DEF RolesInv, Places
<1>5. CASE Exit
  <2>1. todo = <<>> /\ pc' = "exited"
    BY <1>5 DEF Exit
  <2>2. \A x : ~Ahead(todo, x)
    <3>1. Len(todo) = 0
      BY <2>1, EmptySeq
    <3> QED BY <3>1 DEF Ahead
  <2>3. DOMAIN live \subseteq {"givenUp"}
    <3>1. {x \in Roles : Ahead(todo, x)} = {}
      BY <2>2
    <3>2. DOMAIN live \ Loose = {}
      BY <1>2, <3>1
    <3>3. "node" \notin DOMAIN live
      BY <3>2 DEF Loose
    <3> QED BY <1>2, <3>2, <3>3 DEF Loose
  <2> QED BY <1>1, <2>1, <2>3 DEF RolesInv, Places
<1> QED
  <2>1. ASSUME CloseSocket \/ Join \/ UnloadPlugins
        PROVE  /\ todo # <<>> /\ pc' = pc /\ todo' = Tail(todo)
               /\ Head(todo) \in {"socket", "thread", "join", "plugins"}
    BY <2>1 DEF CloseSocket, Join, UnloadPlugins, Releasing, Released
  <2>2. ASSUME Stop
        PROVE  /\ todo # <<>> /\ pc' = pc /\ Head(todo) = "thread"
               /\ todo' = Tail(todo) \/ todo' = <<"join">> \o Tail(todo)
    BY <2>2 DEF Stop, Releasing, Released
  <2> QED BY <1>3, <1>4, <1>5, <2>1, <2>2

LEMMA RolesStep ==
    ASSUME RolesInv, [Next]_vars
    PROVE  RolesInv'
<1>1. CASE Server \/ ClientThreads \/ UNCHANGED vars
  <2>1. UNCHANGED <<pc, todo, live>>
    BY <1>1 DEF Server, ClientThreads, ServerRun, ServerTest,
       ServerAcceptFails, ServerAccept, ClientRun, ClientCommand, ClientEnd, vars
  <2> QED BY <2>1 DEF RolesInv
<1> QED
  BY <1>1, StartupRoles, EndLoopRoles, DeleteRoles, OtherEndRoles
  DEF Next, End

-----------------------------------------------------------------------------
(* The code of the objects.                                                *)

\* The configuration names the plugins.
LEMMA Configured ==
    ASSUME ManagerInv
    PROVE  /\ conf.PluginName \in STRING /\ conf.BaseboardPluginName \in STRING
           /\ conf.slotPluginName \in STRING /\ conf.sensor \in STRING
<1>1. conf \in Configurations
  BY LifecycleAssumption DEF ManagerInv, LifecycleAssumption, conf
<1> HIDE DEF conf
<1> QED BY <1>1 DEF Configurations

\* What startup does to the plugin manager.
LEMMA StartupManager ==
    ASSUME ManagerInv, Startup, \A p \in Paths : exits[p] = 0
    PROVE  /\ ManagerInv' /\ UNCHANGED exits
           /\ dynamicLibraryMap_ \subseteq dynamicLibraryMap_'
           /\ \A k \in DOMAIN exactMatchMap_ :
                 /\ k \in DOMAIN exactMatchMap_'
                 /\ exactMatchMap_'[k] = exactMatchMap_[k]
<1>1. \/ OpenDirectory
      \/ LoadEntry
      \/ \E t \in STRING : Promote(t)
      \/ UNCHANGED pmVars
  <2>1. CASE LoadConfig \/ LoadAll
    BY <2>1 DEF LoadConfig, LoadAll
  <2>2. CASE CreateBaseboardCommunicator \/ CreateCommunicator
    BY <2>2, Configured DEF CreateBaseboardCommunicator, CreateCommunicator
  <2>3. CASE CreateSlotDetector
    <3>1. UNCHANGED pmVars \/ Promote(conf.slotPluginName)
      BY <2>3 DEF CreateSlotDetector
    <3> QED BY <3>1, Configured
  <2>4. CASE CreateNode
    <3>1. UNCHANGED pmVars \/ Promote(conf.sensor)
      BY <2>4 DEF CreateNode
    <3> QED BY <3>1, Configured
  <2>5. CASE PluginsLoaded \/ ReadBaseboardHeader \/ InitInterface
             \/ ReadMemoryHeader \/ DetectSlot \/ CheckSegment
             \/ CreateServer \/ CreateSignature
    BY <2>5 DEF PluginsLoaded, ReadBaseboardHeader, InitInterface,
       ReadMemoryHeader, DetectSlot, CheckSegment, CreateServer, CreateSignature
  <2> QED BY <2>1, <2>2, <2>3, <2>4, <2>5 DEF Startup
<1> QED BY <1>1, OpenKeeps, LoadKeeps, PromoteKeeps, SameManager

\* Every return from startup, and the end of the loop, will unload the plugins.
LEMMA ReturnUnloadsLater ==
    ASSUME NEW o \in {<<>>, <<"comm">>, <<"detector", "comm">>,
                      <<"node", "comm">>, TearDown}, Return(o)
    PROVE  ~Unloaded'
<1> DEFINE u == o \o ReleaseOrder
<1>1. Ahead(u, "plugins")
  BY EarlyPlans, TearDownPlan
<1>2. todo' = u /\ pc' = "release"
  BY DEF Return, Release
<1> HIDE DEF u
<1> QED BY <1>1, <1>2 DEF Unloaded

LEMMA StartupKeepsLoaded ==
    ASSUME RolesInv, Startup \/ EndLoop
    PROVE  ~Unloaded /\ ~Unloaded'
<1>1. pc \notin {"release", "exited"}
  BY DEF Startup, EndLoop, LoadConfig, LoadAll, PluginsLoaded,
       CreateBaseboardCommunicator, ReadBaseboardHeader, CreateCommunicator,
       InitInterface, ReadMemoryHeader, CreateSlotDetector, DetectSlot,
       CheckSegment, CreateNode, CreateServer, CreateSignature
<1>2. \/ pc' \notin {"release", "exited"}
      \/ \E o \in {<<>>, <<"comm">>, <<"detector", "comm">>,
                   <<"node", "comm">>, TearDown} : Return(o)
      \/ CheckSegment /\ Release(<<"comm", "plugins", "config", "loggers">>)
  <2>1. CASE LoadConfig \/ PluginsLoaded \/ CreateBaseboardCommunicator
             \/ ReadBaseboardHeader \/ CreateCommunicator
    BY <2>1 DEF LoadConfig, PluginsLoaded, CreateBaseboardCommunicator,
       ReadBaseboardHeader, CreateCommunicator, Goto
  <2>2. CASE LoadAll
    BY <1>1, <2>2 DEF LoadAll
  <2>3. CASE InitInterface \/ ReadMemoryHeader \/ CreateSlotDetector
             \/ DetectSlot \/ CheckSegment
    BY <2>3 DEF InitInterface, ReadMemoryHeader, CreateSlotDetector, DetectSlot,
       CheckSegment, Goto
  <2>4. CASE CreateNode \/ CreateServer \/ CreateSignature \/ EndLoop
    BY <2>4 DEF CreateNode, CreateServer, CreateSignature, EndLoop, Goto
  <2> QED BY <2>1, <2>2, <2>3, <2>4 DEF Startup
<1>3. ASSUME Release(<<"comm", "plugins", "config", "loggers">>)
      PROVE  ~Unloaded'
  <2> DEFINE u == <<"comm", "plugins", "config", "loggers">>
  <2>1. Ahead(u, "plugins")
    BY SmallSegmentPlan
  <2>2. todo' = u /\ pc' = "release"
    BY <1>3 DEF Release
  <2> HIDE DEF u
  <2> QED BY <2>1, <2>2 DEF Unloaded
<1>4. ASSUME pc' \notin {"release", "exited"} PROVE ~Unloaded'
  BY <1>4 DEF Unloaded
<1> QED BY <1>1, <1>2, <1>3, <1>4, ReturnUnloadsLater DEF Unloaded

\* The libraries are unloaded when only loggers and configuration are left,
\* and what the sensor set gave up.
LEMMA UnloadComesLast ==
    ASSUME RolesInv, UnloadPlugins \/ Exit
    PROVE  /\ Shutdown /\ Unloaded' /\ live' = live
           /\ DOMAIN live \subseteq {"loggers", "config", "givenUp"}
<1>1. Shutdown /\ live' = live
  BY DEF UnloadPlugins, Exit
<1>2. CASE UnloadPlugins
  <2>1. /\ pc = "release" /\ todo # <<>> /\ Head(todo) = "plugins"
        /\ pc' = "release" /\ todo' = Tail(todo) /\ InOrder(todo)
        /\ DOMAIN live \ Loose = {x \in Roles : Ahead(todo, x)}
        /\ "sensors" \in DOMAIN live => "node" \in DOMAIN live
    BY <1>2 DEF UnloadPlugins, Releasing, Released, RolesInv
  <2>2. /\ ~Ahead(Tail(todo), "plugins")
        /\ \A x : Ahead(todo, x) => x \in {"plugins", "loggers", "config"}
    BY <2>1, UnloadKeepsOrder
  <2>3. DOMAIN live \ Loose \subseteq {"loggers", "config"}
    BY <2>1, <2>2 DEF Roles
  <2>4. DOMAIN live \subseteq {"loggers", "config", "givenUp"}
    BY <2>1, <2>3 DEF Loose
  <2> QED BY <1>1, <2>1, <2>2, <2>4 DEF Unloaded
<1>3. CASE Exit
  <2>1. pc' = "exited"
    BY <1>3 DEF Exit
  <2>2. RolesInv'
    BY <1>3, OtherEndRoles
  <2> QED BY <1>1, <2>1, <2>2 DEF RolesInv, Unloaded
<1> QED BY <1>2, <1>3

\* Every other step leaves the plugin manager alone.
LEMMA OtherSteps ==
    ASSUME RolesInv,
           DeleteObject \/ CloseSocket \/ Stop \/ Join \/ Server
           \/ ClientThreads \/ UNCHANGED vars
    PROVE  /\ UNCHANGED pmVars /\ (Unloaded' <=> Unloaded)
           /\ \A r \in DOMAIN live' : r \in DOMAIN live /\ live'[r] = live[r]
<1>1. CASE Server \/ ClientThreads \/ UNCHANGED vars
  <2>1. UNCHANGED <<pc, todo, live, pmVars>>
    BY <1>1 DEF Server, ClientThreads, ServerRun, ServerTest,
       ServerAcceptFails, ServerAccept, ClientRun, ClientCommand, ClientEnd, vars
  <2> QED BY <2>1 DEF Unloaded
<1>2. CASE DeleteObject \/ CloseSocket \/ Stop \/ Join
  <2>1. /\ UNCHANGED pmVars
        /\ live' = live \/ \E role \in Roles : live' = Erase(live, Owned(role))
    BY <1>2 DEF DeleteObject, CloseSocket, Stop, Join, Roles
  <2>2. \A r \in DOMAIN live' : r \in DOMAIN live /\ live'[r] = live[r]
    BY <2>1 DEF Erase
  <2>3. /\ pc = "release" /\ pc' = "release" /\ todo # <<>>
        /\ Head(todo) \in Roles \cup {"socket", "thread", "join"}
        /\ \/ todo' = Tail(todo)
           \/ Head(todo) = "thread" /\ todo' = <<"join">> \o Tail(todo)
    BY <1>2 DEF DeleteObject, CloseSocket, Stop, Join, Roles, Releasing, Released
  <2>4. InOrder(todo) /\ todo \in Seq(Tasks)
    BY <2>3 DEF RolesInv, InOrder
  <2>5. Ahead(Tail(todo), "plugins") <=> Ahead(todo, "plugins")
    BY <2>3, <2>4, OneReleased DEF Roles
  <2>6. Head(todo) = "thread" =>
           (Ahead(<<"join">> \o Tail(todo), "plugins") <=> Ahead(todo, "plugins"))
    BY <2>3, <2>4, JoinKeepsOrder
  <2>7. (Ahead(todo, "plugins"))' <=> Ahead(todo, "plugins")
    <3>1. CASE todo' = Tail(todo)
      BY <2>5, <3>1
    <3>2. CASE Head(todo) = "thread" /\ todo' = <<"join">> \o Tail(todo)
      BY <2>6, <3>2
    <3> QED BY <2>3, <3>1, <3>2
  <2> QED BY <2>1, <2>2, <2>3, <2>7 DEF Unloaded
<1> QED BY <1>1, <1>2

LEMMA StartupObjects ==
    ASSUME ManagerInv, Startup, \A r \in DOMAIN live : MadeFromMap(r),
           dynamicLibraryMap_ \subseteq dynamicLibraryMap_'
    PROVE  (\A r \in DOMAIN live : MadeFromMap(r))'
<1> DEFINE OK(x, l) ==
             \/ l = ""
             \/ x = "givenUp" /\ l \in Paths
             \/ /\ l \in dynamicLibraryMap_'
                /\ x \notin {"loggers", "config", "givenUp"}
<1>0. Paths' = Paths
  BY DEF Paths
<1> SUFFICES ASSUME NEW r \in DOMAIN live'
             PROVE  OK(r, live'[r])
  BY <1>0 DEF MadeFromMap
<1>1. ASSUME r \in DOMAIN live, live'[r] = live[r]
      PROVE  OK(r, live'[r])
  BY <1>1 DEF MadeFromMap
<1>2. ASSUME NEW t \in STRING, Creator(t) # NoCreator
      PROVE  Creator(t).library \in dynamicLibraryMap_' \cap Paths
  <2>1. Creator(t) \in Known(dynamicLibraryMap_)
    BY <1>2, CreatorKnown
  <2>2. dynamicLibraryMap_ \subseteq Paths
    BY DEF ManagerInv
  <2> QED BY <2>1, <2>2 DEF Known
<1>3. CASE live' = live
  BY <1>1, <1>3
<1>4. CASE LoadConfig
  <2>1. live' = Put(live, "config", "")
    BY <1>4 DEF LoadConfig
  <2> QED BY <1>1, <2>1 DEF Put
<1>5. CASE ReadBaseboardHeader \/ DetectSlot
  <2>1. live' = live \/ live' = Erase(live, {"baseboard"})
        \/ live' = Erase(live, {"detector"})
    BY <1>5 DEF ReadBaseboardHeader, DetectSlot
  <2> QED BY <1>1, <2>1 DEF Erase
<1>6. ASSUME NEW role \in {"baseboard", "comm", "detector"}, NEW t \in STRING,
             Creator(t) # NoCreator, NewPluginObject(role, t)
      PROVE  OK(r, live'[r])
  <2>1. live' = Put(live, role, Creator(t).library)
    BY <1>6 DEF NewPluginObject
  <2>2. Creator(t).library \in dynamicLibraryMap_'
    BY <1>2, <1>6
  <2> QED BY <1>1, <2>1, <2>2 DEF Put
<1>7. CASE CreateBaseboardCommunicator \/ CreateCommunicator \/ CreateSlotDetector
  <2>1. \/ live' = live
        \/ \E role \in {"baseboard", "comm", "detector"} : \E t \in STRING :
              Creator(t) # NoCreator /\ NewPluginObject(role, t)
    BY <1>7, Configured DEF CreateBaseboardCommunicator, CreateCommunicator,
       CreateSlotDetector
  <2> QED BY <1>3, <1>6, <2>1
<1>8. CASE CreateNode
  <2> DEFINE c == Creator(conf.sensor).library
             L(made) == [x \in DOMAIN live \cup made |->
                            IF x \in made THEN c ELSE live[x]]
  <2>1. \/ live' = Put(live, "node", "")
        \/ /\ Creator(conf.sensor) # NoCreator
           /\ \E made \in SUBSET {"sensors", "givenUp"} :
                 live' = Put(L(made), "node", "")
    BY <1>8 DEF CreateNode
  <2>2. CASE live' = Put(live, "node", "")
    BY <1>1, <2>2 DEF Put
  <2>3. ASSUME Creator(conf.sensor) # NoCreator,
               NEW made \in SUBSET {"sensors", "givenUp"},
               live' = Put(L(made), "node", "")
        PROVE  OK(r, live'[r])
    <3>1. c \in dynamicLibraryMap_' \cap Paths
      BY <1>2, <2>3, Configured
    <3> HIDE DEF c
    <3>2. \/ r = "node" /\ live'[r] = ""
          \/ r \in {"sensors", "givenUp"} /\ live'[r] = c
          \/ r \in DOMAIN live /\ live'[r] = live[r]
      BY <2>3 DEF Put
    <3> QED BY <1>1, <3>1, <3>2
  <2> QED BY <2>1, <2>2, <2>3
<1>9. CASE CreateServer
  <2>1. live' = Put(Put(live, "network", ""), "server", "")
    BY <1>9 DEF CreateServer
  <2> QED BY <1>1, <2>1 DEF Put
<1>10. CASE CreateSignature
  <2>1. live' = Put(live, "signature", "")
    BY <1>10 DEF CreateSignature
  <2> QED BY <1>1, <2>1 DEF Put
<1>11. CASE LoadAll \/ PluginsLoaded \/ InitInterface \/ ReadMemoryHeader
            \/ CheckSegment
  BY <1>3, <1>11 DEF LoadAll, PluginsLoaded, InitInterface, ReadMemoryHeader,
     CheckSegment
<1> QED BY <1>4, <1>5, <1>7, <1>8, <1>9, <1>10, <1>11 DEF Startup

\* The tables of the plugin manager grow, until they are all emptied.
LEMMA CodeStep ==
    ASSUME ManagerInv, RolesInv, CodeInv, [Next]_vars
    PROVE  /\ ManagerInv' /\ CodeInv'
           /\ \A k \in DOMAIN exactMatchMap_ :
                 k \in DOMAIN exactMatchMap_' =>
                     exactMatchMap_'[k] = exactMatchMap_[k]
<1>1. \A r \in DOMAIN live : MadeFromMap(r)
  BY DEF CodeInv, MadeFromMap
<1>2. CASE Startup
  <2>1. ~Unloaded /\ ~Unloaded'
    BY <1>2, StartupKeepsLoaded
  <2>2. \A p \in Paths : exits[p] = 0
    BY <2>1 DEF CodeInv, MadeFromMap
  <2>3. /\ ManagerInv' /\ UNCHANGED exits
        /\ dynamicLibraryMap_ \subseteq dynamicLibraryMap_'
        /\ \A k \in DOMAIN exactMatchMap_ :
              /\ k \in DOMAIN exactMatchMap_'
              /\ exactMatchMap_'[k] = exactMatchMap_[k]
    BY <1>2, <2>2, StartupManager
  <2>4. (\A r \in DOMAIN live : MadeFromMap(r))'
    BY <1>1, <1>2, <2>3, StartupObjects
  <2>5. Paths' = Paths
    BY DEF Paths
  <2> QED BY <2>1, <2>2, <2>3, <2>4, <2>5 DEF CodeInv, MadeFromMap
<1>3. CASE UnloadPlugins \/ Exit
  <2>1. /\ Shutdown /\ Unloaded' /\ live' = live
        /\ DOMAIN live \subseteq {"loggers", "config", "givenUp"}
    BY <1>3, UnloadComesLast
  <2>2. ManagerInv' /\ dynamicLibraryMap_' = {} /\ DOMAIN exactMatchMap_' = {}
    BY <2>1, ShutdownKeeps DEF Shutdown
  <2>3. \A r \in DOMAIN live :
           live[r] = "" \/ (r = "givenUp" /\ live[r] \in Paths)
    BY <1>1, <2>1 DEF MadeFromMap
  <2>4. Paths' = Paths
    BY DEF Paths
  <2> QED BY <2>1, <2>2, <2>3, <2>4 DEF CodeInv, MadeFromMap
<1>4. CASE EndLoop
  <2>1. /\ UNCHANGED pmVars /\ ~Unloaded /\ ~Unloaded'
        /\ \A r \in DOMAIN live' : r \in DOMAIN live /\ live'[r] = live[r]
    BY <1>4, StartupKeepsLoaded DEF EndLoop, Erase
  <2> QED BY <2>1, SameManager DEF CodeInv, MadeFromMap, pmVars, Paths
<1>5. CASE DeleteObject \/ CloseSocket \/ Stop \/ Join \/ Server
           \/ ClientThreads \/ UNCHANGED vars
  <2>1. /\ UNCHANGED pmVars /\ (Unloaded' <=> Unloaded)
        /\ \A r \in DOMAIN live' : r \in DOMAIN live /\ live'[r] = live[r]
    BY <1>5, OtherSteps
  <2> QED BY <2>1, SameManager DEF CodeInv, MadeFromMap, pmVars, Paths
<1> QED BY <1>2, <1>3, <1>4, <1>5 DEF Next, End

-----------------------------------------------------------------------------
(* The thread of the server.                                               *)

\* stop comes before the network and the server go.
LEMMA WaitedKept ==
    ASSUME InOrder(todo), todo # <<>>, Waited, Head(todo) \notin {"thread", "join"}
    PROVE  /\ Later(Tail(todo), "thread", "network")
           /\ Later(Tail(todo), "thread", "server")
           /\ Head(todo) \notin {"network", "server"}
<1>1. /\ todo \in Seq(Tasks)
      /\ Later(todo, "thread", "network") /\ Later(todo, "thread", "server")
  BY DEF Waited, InOrder
<1>2. /\ Later(Tail(todo), "thread", "network")
      /\ Later(Tail(todo), "thread", "server")
  BY <1>1, OneReleased
<1>3. Ahead(Tail(todo), "network") /\ Ahead(Tail(todo), "server")
  BY <1>2 DEF Ahead, Later
<1>4. ASSUME Head(todo) \in {"network", "server"} PROVE FALSE
  <2>1. Later(todo, Head(todo), Head(todo))
    BY <1>1, <1>3, <1>4, OneReleased
  <2> QED BY <1>4, <2>1 DEF InOrder, Roles
<1> QED BY <1>2, <1>4

\* Tear-down by the main thread, one task at a time.
LEMMA EndServer ==
    ASSUME RolesInv, ServerInv, End
    PROVE  ServerInv'
<1>1. pc = "release" /\ InOrder(todo)
  BY DEF End, DeleteObject, CloseSocket, Stop, Join, UnloadPlugins, Exit,
     Releasing, RolesInv
<1>2. CASE DeleteObject
  <2>1. PICK role \in Roles :
           /\ Releasing(role) /\ Released
           /\ live' = Erase(live, Owned(role)) /\ UNCHANGED threadVars
    BY <1>2 DEF DeleteObject, Roles
  <2>2. /\ todo # <<>> /\ Head(todo) = role /\ pc' = "release"
        /\ todo' = Tail(todo) /\ role \notin {"thread", "join"}
        /\ UNCHANGED <<server, running, late>>
    BY <1>1, <2>1 DEF Releasing, Released, Roles, threadVars
  <2>3. UNCHANGED stray
    BY <1>2, DeleteRoles
  <2>4. CASE ~late /\ server \in {"created", "test", "accept"}
    <3>1. Waited /\ {"server", "network"} \subseteq DOMAIN live
      BY <1>1, <2>4 DEF ServerInv
    <3>2. /\ Later(Tail(todo), "thread", "network")
          /\ Later(Tail(todo), "thread", "server")
          /\ role \notin {"network", "server"}
      BY <1>1, <2>2, <3>1, WaitedKept
    <3>3. {"server", "network"} \subseteq DOMAIN live'
      BY <2>1, <3>1, <3>2 DEF Erase, Owned
    <3>4. Waited'
      BY <2>2, <3>2 DEF Waited
    <3>5. server \in {"test", "accept"} => running
      BY <2>2, <2>4 DEF ServerInv
    <3> QED BY <2>2, <2>3, <2>4, <3>3, <3>4, <3>5 DEF ServerInv
  <2>5. CASE ~(~late /\ server \in {"created", "test", "accept"})
    BY <2>2, <2>3, <2>5 DEF ServerInv
  <2> QED BY <2>4, <2>5
<1>3. CASE CloseSocket \/ UnloadPlugins
  <2>1. /\ todo # <<>> /\ Head(todo) \in {"socket", "plugins"}
        /\ pc' = "release" /\ todo' = Tail(todo)
        /\ UNCHANGED <<server, running, late, stray, live>>
    BY <1>1, <1>3 DEF CloseSocket, UnloadPlugins, Releasing, Released, threadVars
  <2>2. CASE ~late /\ server \in {"created", "test", "accept"}
    <3>1. Waited /\ {"server", "network"} \subseteq DOMAIN live
      BY <1>1, <2>2 DEF ServerInv
    <3>2. /\ Later(Tail(todo), "thread", "network")
          /\ Later(Tail(todo), "thread", "server")
      BY <1>1, <2>1, <3>1, WaitedKept
    <3>3. Waited'
      BY <2>1, <3>2 DEF Waited
    <3>4. server \in {"test", "accept"} => running
      BY <2>1, <2>2 DEF ServerInv
    <3> QED BY <2>1, <2>2, <3>1, <3>3, <3>4 DEF ServerInv
  <2>3. CASE ~(~late /\ server \in {"created", "test", "accept"})
    BY <2>1, <2>3 DEF ServerInv
  <2> QED BY <2>2, <2>3
<1>4. CASE Stop
  <2>1. /\ todo # <<>> /\ Head(todo) = "thread" /\ pc' = "release"
        /\ running' = FALSE /\ late' = (late \/ server = "created")
        /\ UNCHANGED <<server, stray, live>>
        /\ IF running THEN todo' = <<"join">> \o Tail(todo)
           ELSE todo' = Tail(todo)
    BY <1>1, <1>4 DEF Stop, Releasing, Released
  <2>2. late' \in BOOLEAN /\ (late => late') /\ (~late' => server # "created")
    BY <2>1 DEF ServerInv
  <2>3. CASE running
    <3>1. todo' # <<>> /\ Head(todo') = "join"
      BY <1>1, <2>1, <2>3, JoinKeepsOrder
    <3> QED BY <1>1, <2>1, <2>2, <3>1 DEF ServerInv, Waited
  <2>4. CASE ~running
    <3>1. ~late' => server \notin {"created", "test", "accept"}
      BY <2>1, <2>2, <2>4 DEF ServerInv
    <3> QED BY <1>1, <2>1, <2>2, <3>1 DEF ServerInv
  <2> QED BY <2>3, <2>4 DEF ServerInv
<1>5. CASE Join
  BY <1>1, <1>5 DEF Join, Releasing, Released, threadVars, ServerInv
<1>6. CASE Exit
  <2>1. /\ todo = <<>> /\ pc' = "exited"
        /\ UNCHANGED <<server, running, late, stray, live>>
    BY <1>6 DEF Exit, threadVars
  <2>2. ~late => server \notin {"test", "accept"} \/ running
    BY <2>1 DEF ServerInv
  <2> QED BY <2>1, <2>2 DEF ServerInv
<1> QED BY <1>2, <1>3, <1>4, <1>5, <1>6 DEF End

\* The main thread before tear-down.
LEMMA StartupServer ==
    ASSUME RolesInv, ServerInv, Startup \/ EndLoop
    PROVE  ServerInv'
<1>1. UNCHANGED stray
  BY DEF Startup, EndLoop, LoadConfig, LoadAll, PluginsLoaded,
       CreateBaseboardCommunicator, ReadBaseboardHeader, CreateCommunicator,
       InitInterface, ReadMemoryHeader, CreateSlotDetector, DetectSlot,
       CheckSegment, CreateNode, CreateServer, CreateSignature
<1>2. CASE EndLoop
  <2> DEFINE u == TearDown \o ReleaseOrder
  <2>1. /\ pc = "loop" /\ pc' = "release" /\ todo' = u
        /\ UNCHANGED <<server, running, late>>
        /\ DOMAIN live' = DOMAIN live \ {"sensors"}
    BY <1>2 DEF EndLoop, Return, Release, threadVars, Erase
  <2>2. Later(u, "thread", "network") /\ Later(u, "thread", "server")
    BY TearDownPlan
  <2> HIDE DEF u
  <2>3. Waited'
    BY <2>1, <2>2 DEF Waited
  <2> QED BY <1>1, <2>1, <2>3 DEF ServerInv
<1>3. CASE CreateSignature
  <2>1. /\ pc = "signature" /\ pc' = "loop"
        /\ UNCHANGED <<server, running, late>>
        /\ DOMAIN live \subseteq DOMAIN live'
    BY <1>3 DEF CreateSignature, Goto, threadVars, Put
  <2> QED BY <1>1, <2>1 DEF ServerInv
<1>4. CASE CreateServer
  <2>1. /\ pc = "server" /\ pc' = "signature" /\ server' = "created"
        /\ UNCHANGED <<running, late>>
        /\ {"server", "network"} \subseteq DOMAIN live'
    BY <1>4 DEF CreateServer, Goto, Put
  <2> QED BY <1>1, <2>1 DEF ServerInv
<1>5. CASE Startup /\ ~CreateSignature /\ ~CreateServer
  <2>1. /\ UNCHANGED <<server, running, late>>
        /\ pc \notin {"signature", "loop", "release", "exited"}
    BY <1>5 DEF Startup, LoadConfig, LoadAll, PluginsLoaded,
       CreateBaseboardCommunicator, ReadBaseboardHeader, CreateCommunicator,
       InitInterface, ReadMemoryHeader, CreateSlotDetector, DetectSlot,
       CheckSegment, CreateNode, threadVars
  <2>2. server = "none"
    BY <2>1 DEF ServerInv
  <2> QED BY <1>1, <2>1, <2>2 DEF ServerInv
<1> QED BY <1>2, <1>3, <1>4, <1>5

\* The threads of the server and of the clients.
LEMMA ThreadSteps ==
    ASSUME ServerInv, Server \/ ClientThreads \/ UNCHANGED vars
    PROVE  ServerInv'
<1>1. /\ UNCHANGED <<pc, todo, live, late>>
  BY DEF Server, ClientThreads, ServerRun, ServerTest, ServerAcceptFails,
     ServerAccept, ClientRun, ClientCommand, ClientEnd, vars
<1>2. Waited' <=> Waited
  BY <1>1 DEF Waited
<1>3. CASE ClientThreads \/ UNCHANGED vars
  <2>1. UNCHANGED <<server, running>>
    BY <1>3 DEF ClientThreads, ClientRun, ClientCommand, ClientEnd, vars
  <2>2. \A s \in stray' : s \in stray \/ s[1] = "client"
    <3>1. stray' = stray \/ \E roles : stray' = stray \cup Uses("client", roles)
      BY <1>3 DEF ClientThreads, ClientRun, ClientCommand, ClientEnd, vars
    <3> QED BY <3>1 DEF Uses
  <2> QED BY <1>1, <1>2, <2>1, <2>2 DEF ServerInv
<1>4. CASE Server
  <2>1. /\ server \in {"created", "test", "accept"}
        /\ \/ /\ server = "created" /\ ServerUses({"server"}, "test")
              /\ running' = Present({"server"})
           \/ /\ server = "test" /\ running' = running
              /\ ServerUses({"server"}, IF running THEN "accept" ELSE "done")
           \/ /\ server = "accept" /\ running' = running
              /\ ServerUses({"server", "network"}, "test")
    BY <1>4 DEF Server, ServerRun, ServerTest, ServerAcceptFails, ServerAccept
  <2>2. \A s \in stray' : s \in stray \/ s[1] = "server"
    <3>1. \E roles : stray' = stray \cup Uses("server", roles)
      BY <2>1 DEF ServerUses
    <3> QED BY <3>1 DEF Uses
  <2>3. /\ server' \in {"test", "accept", "done", "wild"}
        /\ running' \in BOOLEAN
    BY <2>1 DEF ServerUses, Present, ServerInv
  <2>4. pc \in {"signature", "loop", "release", "exited"}
    BY <2>1 DEF ServerInv
  <2>5. CASE late
    BY <1>1, <2>2, <2>3, <2>4, <2>5 DEF ServerInv
  <2>6. CASE ~late
    <3>1. {"server", "network"} \subseteq DOMAIN live
      BY <2>1, <2>6 DEF ServerInv
    <3>2. /\ stray' = stray /\ server' # "wild"
          /\ server = "created" => server' = "test" /\ running' = TRUE
          /\ server = "test" => /\ running' = running
                                /\ server' = IF running THEN "accept" ELSE "done"
          /\ server = "accept" => server' = "test" /\ running' = running
      BY <2>1, <3>1 DEF ServerUses, Present, Uses
    <3> QED BY <1>1, <1>2, <2>1, <2>3, <2>4, <2>6, <3>1, <3>2 DEF ServerInv
  <2> QED BY <2>5, <2>6 DEF ServerInv
<1> QED BY <1>3, <1>4

-----------------------------------------------------------------------------
(* The theorems.                                                           *)

LEMMA RunStarts == Init => RunInv
<1> SUFFICES ASSUME Init PROVE RunInv
  OBVIOUS
<1>1. ManagerInv
  BY ManagerStarts DEF Init
<1>2. RolesInv
  BY DEF Init, RolesInv, Places
<1>3. CodeInv
  BY DEF Init, PMInit, CodeInv, MadeFromMap, Unloaded
<1>4. ServerInv
  BY DEF Init, ServerInv
<1> QED BY <1>1, <1>2, <1>3, <1>4 DEF RunInv

LEMMA RunStep ==
    ASSUME RunInv, [Next]_vars
    PROVE  /\ RunInv'
           /\ \A k \in DOMAIN exactMatchMap_ :
                 k \in DOMAIN exactMatchMap_' =>
                     exactMatchMap_'[k] = exactMatchMap_[k]
<1>1. ManagerInv /\ RolesInv /\ CodeInv /\ ServerInv
  BY DEF RunInv
<1>2. ServerInv'
  BY <1>1, StartupServer, EndServer, ThreadSteps DEF Next
<1> QED BY <1>1, <1>2, RolesStep, CodeStep DEF RunInv

LEMMA RunAlways == Spec => []RunInv
<1>1. RunInv /\ [Next]_vars => RunInv'
  BY RunStep
<1> QED BY <1>1, RunStarts, PTL DEF Spec

(***************************************************************************)
(* Daemon::run, for any plugin directory, configuration, header and number *)
(* of clients: whatever path leaves it, what was created is deleted once,  *)
(* except what the sensor set gave up, which is never deleted; every       *)
(* library is closed, and no exit function runs twice.                     *)
(***************************************************************************)
THEOREM EverythingIsReleasedOnce == Spec => []ReleasedOnce
<1>1. RunInv => ReleasedOnce
  <2> SUFFICES ASSUME RunInv PROVE ReleasedOnce
    OBVIOUS
  <2>1. \A s \in stray : s[1] # "main"
    BY DEF RunInv, ServerInv
  <2>2. /\ \A p \in Paths : handles[p] \in 0..1 /\ exits[p] \in 0..1
        /\ dynamicLibraryMap_ = {} => \A p \in Paths : handles[p] = 0
    BY DEF RunInv, ManagerInv
  <2>3. pc = "exited" =>
           DOMAIN live \subseteq {"givenUp"} /\ dynamicLibraryMap_ = {}
    BY DEF RunInv, RolesInv, CodeInv, MadeFromMap, Unloaded
  <2> QED BY <2>1, <2>2, <2>3 DEF ReleasedOnce
<1> QED BY <1>1, RunAlways, PTL

(***************************************************************************)
(* shutdown of the plugin manager comes after the deletion of every object *)
(* that a plugin made and the daemon still refers to, and before that of   *)
(* the loggers, on every path.                                             *)
(***************************************************************************)
THEOREM CodeIsLoadedWhileUsed == Spec => []CodeStaysLoaded
<1>1. RunInv => CodeStaysLoaded
  <2> SUFFICES ASSUME RunInv PROVE CodeStaysLoaded
    OBVIOUS
  <2>1. /\ dynamicLibraryMap_ \subseteq Paths
        /\ \A p \in Paths : handles[p] = IF p \in dynamicLibraryMap_ THEN 1 ELSE 0
    BY DEF RunInv, ManagerInv
  <2>2. \A r \in DOMAIN live \ {"givenUp"} :
           live[r] # "" => live[r] \in dynamicLibraryMap_
    BY DEF RunInv, CodeInv, MadeFromMap
  <2>3. \A r \in DOMAIN live \ {"givenUp"} :
           live[r] # "" => handles[live[r]] > 0
    <3>1. ASSUME NEW r \in DOMAIN live \ {"givenUp"}, live[r] # ""
          PROVE  handles[live[r]] > 0
      <4> DEFINE h == handles[live[r]]
      <4>1. h = 1
        BY <2>1, <2>2, <3>1
      <4> HIDE DEF h
      <4>2. h > 0
        BY <4>1
      <4> QED BY <4>2 DEF h
    <3> QED BY <3>1
  <2>4. "loggers" \notin DOMAIN live => Unloaded
    <3> SUFFICES ASSUME "loggers" \notin DOMAIN live PROVE Unloaded
      OBVIOUS
    <3>1. RolesInv
      BY DEF RunInv
    <3>2. pc \in {"release", "exited"}
      BY <3>1 DEF RolesInv, Places
    <3>3. CASE pc = "release"
      <4>1. InOrder(todo) /\ ~Ahead(todo, "loggers")
        BY <3>1, <3>3 DEF RolesInv, Roles
      <4> QED BY <3>3, <4>1 DEF InOrder, Unloaded
    <3> QED BY <3>2, <3>3 DEF Unloaded
  <2>5. Unloaded => dynamicLibraryMap_ = {}
    BY DEF RunInv, CodeInv, MadeFromMap
  <2> QED BY <2>1, <2>3, <2>4, <2>5 DEF CodeStaysLoaded
<1> QED BY <1>1, RunAlways, PTL

(***************************************************************************)
(* The thread that accepts telnet connections never meets a deleted server *)
(* or socket, unless Thread::stop ran before it had reached Run.           *)
(***************************************************************************)
THEOREM ServerIsOutlived == Spec => []ServerOutlived
<1>1. RunInv => ServerOutlived
  BY DEF RunInv, ServerInv, ServerOutlived
<1> QED BY <1>1, RunAlways, PTL

(***************************************************************************)
(* registerObject refuses a type that is registered already, and a wild    *)
(* card is promoted only for a type that is not: no step changes the       *)
(* library of a type.                                                      *)
(***************************************************************************)
THEOREM RegistrationsStay == Spec => FirstRegistrationWins
<1> DEFINE A == \A t \in DOMAIN exactMatchMap_ :
                   t \in DOMAIN exactMatchMap_' =>
                       exactMatchMap_'[t].library = exactMatchMap_[t].library
<1>1. RunInv /\ [Next]_vars => A
  BY RunStep
<1>2. RunInv /\ [Next]_vars => [A]_vars
  BY <1>1
<1> HIDE DEF A
<1>3. Spec => [][A]_vars
  BY <1>2, RunAlways, PTL DEF Spec
<1> QED BY <1>3 DEF A, FirstRegistrationWins

-----------------------------------------------------------------------------
(* Types.                                                                  *)

DataInv ==
    /\ hdr \in Headers \cup {NoHeader}
    /\ mSlot \in Slots \cup {0} \cup {s.conf.defaultSlot : s \in Setups}
    /\ clients \in [Clients -> {"none", "created", "readline", "done", "wild"}]

LEMMA DataStep ==
    ASSUME DataInv, setup \in Setups, [Next]_vars
    PROVE  DataInv'
<1>1. hdr' \in Headers \cup {NoHeader}
  BY HeaderKept DEF DataInv, NoHeader
<1>2. mSlot' = mSlot \/ mSlot' \in Slots \/ mSlot' = setup.conf.defaultSlot
  <2>1. CASE Startup
    BY <2>1 DEF Startup, LoadConfig, LoadAll, PluginsLoaded,
       CreateBaseboardCommunicator, ReadBaseboardHeader, CreateCommunicator,
       InitInterface, ReadMemoryHeader, CreateSlotDetector, DetectSlot,
       CheckSegment, CreateNode, CreateServer, CreateSignature, dataVars, conf
  <2>2. CASE EndLoop \/ End
    BY <2>2 DEF EndLoop, End, DeleteObject, CloseSocket, Stop, Join,
       UnloadPlugins, Exit, dataVars
  <2>3. CASE Server \/ ClientThreads
    BY <2>3 DEF Server, ClientThreads, ServerRun, ServerTest,
       ServerAcceptFails, ServerAccept, ClientRun, ClientCommand, ClientEnd,
       dataVars
  <2>4. CASE UNCHANGED vars
    BY <2>4 DEF vars
  <2> QED BY <2>1, <2>2, <2>3, <2>4 DEF Next
<1>3. clients' \in [Clients -> {"none", "created", "readline", "done", "wild"}]
  <2>1. CASE Startup \/ EndLoop \/ End
    <3>1. clients' = clients
      BY <2>1 DEF Startup, LoadConfig, LoadAll, PluginsLoaded,
         CreateBaseboardCommunicator, ReadBaseboardHeader, CreateCommunicator,
         InitInterface, ReadMemoryHeader, CreateSlotDetector, DetectSlot,
         CheckSegment, CreateNode, CreateServer, CreateSignature, EndLoop, End,
         DeleteObject, CloseSocket, Stop, Join, UnloadPlugins, Exit, threadVars
    <3> QED BY <3>1 DEF DataInv
  <2>2. CASE Server \/ UNCHANGED vars
    BY <2>2 DEF DataInv, Server, ServerRun, ServerTest, ServerAcceptFails,
       ServerAccept, vars
  <2>3. CASE ClientThreads
    BY <2>3 DEF DataInv, ClientThreads, ClientRun, ClientCommand, ClientEnd
  <2> QED BY <2>1, <2>2, <2>3 DEF Next
<1> QED BY <1>1, <1>2, <1>3 DEF DataInv

(***************************************************************************)
(* Every table of the plugin manager holds libraries of the directory,     *)
(* and every variable of Daemon::run a value of its type.                  *)
(***************************************************************************)
THEOREM LifecycleTypeCorrect == Spec => []LifecycleTypeOK
<1>1. Init => DataInv
  BY DEF Init, DataInv
<1>2. RunInv /\ DataInv /\ [Next]_vars => DataInv'
  BY DataStep DEF RunInv, ManagerInv
<1>3. RunInv /\ DataInv => LifecycleTypeOK
  <2> SUFFICES ASSUME RunInv, DataInv PROVE LifecycleTypeOK
    OBVIOUS
  <2>1. /\ unread \subseteq setup.directory
        /\ dynamicLibraryMap_ \subseteq Paths
        /\ exactMatchMap_ \in Exact(dynamicLibraryMap_)
        /\ exitFuncVec_ \in Seq(dynamicLibraryMap_)
        /\ handles \in [Paths -> Nat] /\ exits \in [Paths -> Nat]
    BY DEF RunInv, ManagerInv
  <2>2. \A t \in DOMAIN exactMatchMap_ : exactMatchMap_[t].library \in Paths
    <3> TAKE t \in DOMAIN exactMatchMap_
    <3>1. exactMatchMap_[t] \in Known(dynamicLibraryMap_)
      BY <2>1, ExactTypes
    <3> QED BY <2>1, <3>1 DEF Known
  <2>3. ToSet(exitFuncVec_) \subseteq Paths
    <3>1. /\ DOMAIN exitFuncVec_ = 1..Len(exitFuncVec_)
          /\ \A i \in 1..Len(exitFuncVec_) : exitFuncVec_[i] \in dynamicLibraryMap_
      BY <2>1, LenProperties, ElementOfSeq
    <3> QED BY <2>1, <3>1 DEF ToSet
  <2>4. \A r \in DOMAIN live : live[r] \in Paths \cup {""}
    BY <2>1 DEF RunInv, CodeInv, MadeFromMap
  <2>5. server \in {"none", "created", "test", "accept", "done", "wild"}
    BY DEF RunInv, ServerInv
  <2> QED BY <2>1, <2>2, <2>3, <2>4, <2>5 DEF LifecycleTypeOK, DataInv
<1> QED BY <1>1, <1>2, <1>3, RunAlways, PTL DEF Spec
=============================================================================
