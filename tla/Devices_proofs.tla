---------------------------- MODULE Devices_proofs ----------------------------
(***************************************************************************)
(* Proofs about the parts of Devices, for every number of clients and of   *)
(* addresses and every memory of the board: the monitoring data is read    *)
(* from a monitoring chunk, and what a communicator opened is closed.      *)
(***************************************************************************)
EXTENDS Devices, NaturalFacts, FiniteSetTheorems, SequenceTheorems

-----------------------------------------------------------------------------
(* The search for the monitoring data.                                     *)

\* The offset is one that a search found.
AtMonitoringChunk(offset) ==
    \E k \in chunks : k[2].monitoring /\ offset = k[1] + ChunkHeaderSize - 2

\* What is remembered and what was read, while no read had failed.
Remembered ==
    ~stray => /\ mMonitoringDataOffset # 0 =>
                    AtMonitoringChunk(mMonitoringDataOffset)
              /\ readAt # 0 => AtMonitoringChunk(readAt)

Searching ==
    /\ header \in Layouts
    /\ chunks \subseteq (0..(OffsetLimit - 1)) \X ChunkHeader
    /\ client \in [Clients -> [at : {"idle", "header", "chunk", "found"},
                               pos : 0..(OffsetLimit - 1),
                               end : 0..(OffsetLimit - 1), lap : Int]]

SearchInv == Searching /\ Remembered

\* An offset that was cut off at OffsetLimit is too small to be used.
LEMMA CutOff ==
    ASSUME NEW pos \in 0..(OffsetLimit - 1),
           (pos + ChunkHeaderSize) % OffsetLimit > 2
    PROVE  (pos + ChunkHeaderSize) % OffsetLimit = pos + ChunkHeaderSize
  <1> DEFINE L == OffsetLimit
             d == (pos + 3) \div L
             r == (pos + 3) % L
  <1>1. L \in Nat \ {0} /\ pos \in Nat /\ pos < L
    BY NodeAssumption DEF NodeAssumption
  <1>2. d \in Nat /\ r \in 0..(L - 1) /\ pos + 3 = L * d + r
    BY <1>1, SMT
  <1>3. r > 2
    BY DEF ChunkHeaderSize
  <1> HIDE DEF L, d, r
  <1>4. ~ (d >= 1)
    <2> SUFFICES ASSUME d >= 1 PROVE FALSE
      OBVIOUS
    <2>1. L * d >= L
      BY <1>1, <1>2, SMT
    <2> QED BY <1>1, <1>2, <1>3, <2>1, SMT
  <1>5. d = 0
    BY <1>2, <1>4, SMT
  <1>6. r = pos + 3
    BY <1>1, <1>2, <1>5, SMT
  <1> QED BY <1>6 DEF r, L, ChunkHeaderSize

\* An offset is a value of uint16_t.
LEMMA Offsets ==
    ASSUME NEW n \in Nat, NEW pos \in 0..(OffsetLimit - 1)
    PROVE  /\ 0 \in 0..(OffsetLimit - 1)
           /\ n % OffsetLimit \in 0..(OffsetLimit - 1)
  <1>1. OffsetLimit \in Nat /\ OffsetLimit > 0
    BY NodeAssumption DEF NodeAssumption
  <1> QED BY <1>1, SMT

\* At keeps what is known of the clients.
LEMMA AtKeeps ==
    ASSUME Searching, NEW c \in Clients,
           NEW state \in {"idle", "header", "chunk", "found"},
           NEW pos \in 0..(OffsetLimit - 1), NEW end \in 0..(OffsetLimit - 1),
           At(c, state, pos, end), header' = header,
           chunks' \subseteq (0..(OffsetLimit - 1)) \X ChunkHeader
    PROVE  Searching'
  BY DEF Searching, At

\* A chunk that a search goes on from has an offset of uint16_t.
LEMMA PositionOf ==
    ASSUME Searching, NEW c \in Clients
    PROVE  /\ client[c].pos \in 0..(OffsetLimit - 1)
           /\ client[c].end \in 0..(OffsetLimit - 1)
           /\ client[c].pos \in Nat
           /\ 0 \in 0..(OffsetLimit - 1)
  <1>1. /\ client[c].pos \in 0..(OffsetLimit - 1)
        /\ client[c].end \in 0..(OffsetLimit - 1)
    BY DEF Searching
  <1>2. OffsetLimit \in Nat
    BY NodeAssumption DEF NodeAssumption
  <1> QED BY <1>1, <1>2

LEMMA HeaderKeeps ==
    ASSUME SearchInv, NEW c \in Clients, ReadDaemonHeader(c)
    PROVE  SearchInv'
  <1> USE DEF SearchInv
  <1>0. /\ 0 \in 0..(OffsetLimit - 1) /\ header' = header
        /\ chunks' \subseteq (0..(OffsetLimit - 1)) \X ChunkHeader
    BY PositionOf DEF ReadDaemonHeader, Searching
  <1>1. ASSUME NEW hdr \in Layouts, UseHeader(c, hdr)
        PROVE  Searching'
    <2>1. /\ hdr.chunksOffset \in 0..(OffsetLimit - 1)
          /\ hdr.dynamicAreaOffset \in 0..(OffsetLimit - 1)
      BY NodeAssumption DEF NodeAssumption
    <2> QED BY <1>0, <1>1, <2>1, AtKeeps DEF UseHeader, Found
  <1>2. Searching'
    <2>1. CASE UseHeader(c, header)
      BY <1>1, <2>1 DEF Searching
    <2>2. CASE NotFound(c)
      BY <1>0, <2>2, AtKeeps DEF NotFound
    <2>3. CASE \E hdr \in Layouts : UseHeader(c, hdr)
      BY <1>1, <2>3
    <2> QED BY <2>1, <2>2, <2>3 DEF ReadDaemonHeader
  <1>3. Remembered'
    <2> SUFFICES ASSUME ~stray'
                 PROVE  /\ ~stray
                        /\ UNCHANGED <<mMonitoringDataOffset, readAt, chunks>>
      BY DEF Remembered, AtMonitoringChunk
    <2>1. UNCHANGED <<readAt, chunks>>
      BY DEF ReadDaemonHeader
    <2>2. CASE UseHeader(c, header) /\ stray' = (stray \/ header.version < 3)
      BY <2>1, <2>2 DEF UseHeader
    <2>3. CASE NotFound(c) /\ UNCHANGED stray
      BY <2>1, <2>3 DEF NotFound
    <2> QED BY <2>2, <2>3 DEF ReadDaemonHeader
  <1> QED BY <1>2, <1>3

\* A chunk that is read is known, or any.
LEMMA KnownChunks ==
    ASSUME Searching, NEW pos
    PROVE  ChunkAt(pos) \subseteq ChunkHeader
  <1> DEFINE before == {known[2] : known \in {k \in chunks : k[1] = pos}}
  <1>1. before \subseteq ChunkHeader
    <2> SUFFICES ASSUME NEW k \in chunks
                 PROVE  k[2] \in ChunkHeader
      OBVIOUS
    <2> QED BY DEF Searching
  <1> QED BY <1>1 DEF ChunkAt

LEMMA ChunkKeeps ==
    ASSUME SearchInv, NEW c \in Clients, ReadChunk(c)
    PROVE  SearchInv'
  <1> USE DEF SearchInv
  <1> DEFINE pos == client[c].pos
  <1>0. /\ pos \in 0..(OffsetLimit - 1) /\ pos \in Nat
        /\ client[c].end \in 0..(OffsetLimit - 1)
        /\ 0 \in 0..(OffsetLimit - 1) /\ header' = header /\ readAt' = readAt
        /\ ChunkAt(pos) \subseteq ChunkHeader
    BY PositionOf, KnownChunks DEF ReadChunk
  <1>1. chunks' \subseteq (0..(OffsetLimit - 1)) \X ChunkHeader
    <2>1. CASE \E chunk \in ChunkAt(pos) : chunks' = chunks \cup {<<pos, chunk>>}
      BY <1>0, <2>1 DEF Searching
    <2>2. CASE UNCHANGED chunks
      BY <2>2 DEF Searching
    <2> QED BY <2>1, <2>2 DEF ReadChunk
  <1>2. ASSUME NEW chunk \in ChunkHeader, UseChunk(c, chunk)
        PROVE  Searching'
    <2>1. chunk.length \in Nat
      <3>1. chunk.length \in Lengths
        BY DEF ChunkHeader
      <3>2. \A n \in Lengths : n \in Nat
        BY NodeAssumption DEF NodeAssumption
      <3> QED BY <3>1, <3>2
    <2>2. Skip(pos, chunk) \in Nat
      BY <1>0, <2>1 DEF Skip, ChunkHeaderSize
    <2>3. Skip(pos, chunk) % OffsetLimit \in 0..(OffsetLimit - 1)
      BY <1>0, <2>2, Offsets
    <2> QED BY <1>0, <1>1, <1>2, <2>3, AtKeeps DEF UseChunk, Found, NotFound
  <1>3. Searching'
    <2>1. CASE \E chunk \in ChunkAt(pos) : UseChunk(c, chunk)
      BY <1>0, <1>2, <2>1
    <2>2. CASE NotFound(c)
      BY <1>0, <1>1, <2>2, AtKeeps DEF NotFound
    <2>3. CASE \E chunk \in ChunkHeader : UseChunk(c, chunk)
      BY <1>2, <2>3
    <2> QED BY <2>1, <2>2, <2>3 DEF ReadChunk
  <1>4. ASSUME NEW chunk \in ChunkAt(pos), UseChunk(c, chunk),
               chunks' = chunks \cup {<<pos, chunk>>}, UNCHANGED stray
        PROVE  Remembered'
    <2> DEFINE offset == (pos + ChunkHeaderSize) % OffsetLimit
    <2>1. \A o : AtMonitoringChunk(o) => AtMonitoringChunk(o)'
      BY <1>4 DEF AtMonitoringChunk
    <2>2. CASE chunk.monitoring /\ offset > 2
      <3>1. mMonitoringDataOffset' = offset - 2
        BY <1>4, <2>2 DEF UseChunk, Found
      <3>2. offset = pos + ChunkHeaderSize
        BY <1>0, <2>2, CutOff
      <3>3. mMonitoringDataOffset' = <<pos, chunk>>[1] + ChunkHeaderSize - 2
        <4>1. <<pos, chunk>>[1] = pos
          OBVIOUS
        <4> HIDE DEF pos, offset
        <4> QED BY <1>0, <3>1, <3>2, <4>1 DEF ChunkHeaderSize
      <3>4. AtMonitoringChunk(mMonitoringDataOffset)'
        BY <1>4, <2>2, <3>3 DEF AtMonitoringChunk
      <3> QED BY <1>0, <1>4, <2>1, <3>4 DEF Remembered
    <2>3. CASE ~ (chunk.monitoring /\ offset > 2)
      <3>1. UNCHANGED mMonitoringDataOffset
        BY <1>4, <2>3 DEF UseChunk, Found, NotFound
      <3> QED BY <1>0, <1>4, <2>1, <3>1 DEF Remembered
    <2> QED BY <2>2, <2>3
  <1>5. Remembered'
    <2>1. CASE \E chunk \in ChunkAt(pos) :
                  /\ UseChunk(c, chunk)
                  /\ chunks' = chunks \cup {<<pos, chunk>>}
                  /\ UNCHANGED <<stray, nodeFaults>>
      BY <1>4, <2>1
    <2>2. CASE NotFound(c) /\ UNCHANGED <<chunks, stray>>
      BY <1>0, <2>2 DEF NotFound, Remembered, AtMonitoringChunk
    <2>3. CASE stray' = TRUE
      BY <2>3 DEF Remembered
    <2> QED BY <2>1, <2>2, <2>3 DEF ReadChunk
  <1> QED BY <1>3, <1>5

\* The other two steps of a client.
LEMMA CallKeeps ==
    ASSUME SearchInv, NEW c \in Clients,
           getJSONMonitoringData(c) \/ ReadMonitoring(c)
    PROVE  SearchInv'
  <1> USE DEF SearchInv
  <1>0. /\ 0 \in 0..(OffsetLimit - 1)
        /\ UNCHANGED <<header, chunks, stray, mMonitoringDataOffset>>
    BY PositionOf DEF getJSONMonitoringData, ReadMonitoring
  <1>1. chunks' \subseteq (0..(OffsetLimit - 1)) \X ChunkHeader
    BY <1>0 DEF Searching
  <1>2. Searching'
    <2>1. PICK state \in {"idle", "header", "found"} : At(c, state, 0, 0)
      BY DEF getJSONMonitoringData, ReadMonitoring
    <2> QED BY <1>0, <1>1, <2>1, AtKeeps
  <1>3. readAt' = readAt \/ readAt' = mMonitoringDataOffset
    BY DEF getJSONMonitoringData, ReadMonitoring
  <1>4. Remembered'
    BY <1>0, <1>3 DEF Remembered, AtMonitoringChunk
  <1> QED BY <1>2, <1>4

\* Every step of Devices keeps what is known of the search.
LEMMA SearchKeeps ==
    ASSUME SearchInv, [Next]_vars
    PROVE  SearchInv'
  <1>1. CASE UNCHANGED searchVars
    BY <1>1 DEF searchVars, SearchInv, Searching, Remembered,
                AtMonitoringChunk
  <1>2. CASE SearchNext
    BY <1>2, HeaderKeeps, ChunkKeeps, CallKeeps DEF SearchNext, ClientStep
  <1>3. UNCHANGED searchVars \/ SearchNext
    <2>1. CASE UNCHANGED nodeVars
      BY <2>1 DEF nodeVars, searchVars
    <2>2. CASE AnswerNext
      BY <2>2 DEF AnswerNext, getBasicInformationBlock, executeCommand
    <2>3. CASE SearchNext
      BY <2>3
    <2> QED BY <2>1, <2>2, <2>3 DEF Next, vars
  <1> QED BY <1>1, <1>2, <1>3

(***************************************************************************)
(* Node::getJSONMonitoringData reads from the length field of a monitoring *)
(* chunk, however many telnet clients search and remember at the same      *)
(* time, and whatever chunks and lengths the memory of the board holds.    *)
(***************************************************************************)
THEOREM MonitoringDataFound == Spec => []MonitoringAtChunk
  <1>1. Init => SearchInv
    <2> SUFFICES ASSUME Init PROVE SearchInv
      OBVIOUS
    <2>1. 0 \in 0..(OffsetLimit - 1)
      <3>1. header.chunksOffset \in 0..(OffsetLimit - 1)
        BY NodeAssumption DEF Init, NodeInit, NodeAssumption
      <3> QED BY <3>1, NodeAssumption DEF NodeAssumption
    <2>2. Searching
      BY <2>1 DEF Init, NodeInit, Searching
    <2>3. Remembered
      BY DEF Init, NodeInit, Remembered
    <2> QED BY <2>2, <2>3 DEF SearchInv
  <1>2. SearchInv /\ [Next]_vars => SearchInv'
    BY SearchKeeps
  <1>3. SearchInv => MonitoringAtChunk
    BY DEF SearchInv, Remembered, AtMonitoringChunk, MonitoringAtChunk
  <1> QED BY <1>1, <1>2, <1>3, PTL DEF Spec

-----------------------------------------------------------------------------
(* The adapters.                                                           *)

\* FirstOf and Back choose an element of their set.
LEMMA FrontChosen ==
    ASSUME NEW S \in SUBSET Nat, S # {}
    PROVE  Front(S) \in S
  BY LeastElement DEF Front

LEMMA BackChosen ==
    ASSUME NEW n \in Nat, NEW S \in SUBSET (1..n), S # {}
    PROVE  Back(S) \in S
  <1> DEFINE T == {n - i : i \in S}
  <1>1. T \in SUBSET Nat /\ T # {}
    <2>1. PICK i \in S : TRUE
      OBVIOUS
    <2>2. n - i \in T
      BY <2>1
    <2>3. \A j \in S : n - j \in Nat
      OBVIOUS
    <2> QED BY <2>2, <2>3
  <1>2. PICK k \in T : \A j \in T : k <= j
    BY <1>1, LeastElement
  <1>3. PICK i \in S : k = n - i
    BY <1>2
  <1>4. ASSUME NEW j \in S PROVE j <= i
    <2>1. n - i <= n - j
      BY <1>2, <1>3
    <2> QED BY <2>1
  <1> QED BY <1>4 DEF Back

LEMMA FirstOfChosen ==
    ASSUME NEW S \in SUBSET (Nat \ {0})
    PROVE  IF S = {} THEN FirstOf(S) = 0 ELSE FirstOf(S) \in S
  BY FrontChosen DEF FirstOf

\* What the two searches in a list of adapters give.
LEMMA AdaptersChosen ==
    ASSUME NEW list \in AdapterLists, list # <<>>
    PROVE  LET m == getManagementAdapter(list)
               c == getComputeAdapter(list)
           IN  /\ m # c
               /\ Len(list) > 1 /\ c # 0 => list[c].christmann
               /\ Cardinality(Christmann(list)) = 1 /\ m # 0 =>
                     ~list[m].christmann
  <1> DEFINE n == Len(list)
             ours == Christmann(list)
             odd == Odd(list)
             m == getManagementAdapter(list)
             c == getComputeAdapter(list)
  <1>1. n \in Nat /\ list \in [1..n -> AdapterInfo]
    <2>1. PICK k \in 0..Adapters : list \in [1..k -> AdapterInfo]
      BY DEF AdapterLists
    <2>2. k \in Nat
      BY NodeAssumption DEF NodeAssumption
    <2> QED BY <2>1, <2>2
  <1>2. n >= 1
    BY <1>1
  <1>3. /\ ours \subseteq 1..n /\ odd \subseteq ours
        /\ \A i \in 1..n : i \in ours <=> list[i].christmann
    BY DEF Christmann, Odd
  <1>4. IsFiniteSet(ours) /\ Cardinality(ours) \in Nat
    <2>1. IsFiniteSet(1..n)
      BY <1>1, FS_Interval
    <2>2. IsFiniteSet(ours)
      BY <1>3, <2>1, FS_Subset
    <2> QED BY <2>2, FS_CardinalityType
  <1>5. CASE n = 1
    <2>1. m = 0 /\ c = 1
      BY <1>5 DEF getManagementAdapter, getComputeAdapter
    <2> QED BY <1>5, <2>1
  <1>6. CASE n >= 2 /\ Cardinality(ours) = 1
    <2>1. PICK o : ours = {o}
      BY <1>4, <1>6, FS_Singleton
    <2>2. m = Back(1..n \ ours) /\ c = Front(ours)
      <3> HIDE DEF n, ours, odd
      <3>1. n \in Nat /\ n >= 2 /\ Cardinality(ours) = 1 /\ ours # {}
        BY <1>1, <1>6, <2>1
      <3>2. m = Back(1..n \ ours)
        BY <3>1 DEF getManagementAdapter, n, ours
      <3>3. c = Front(ours)
        BY <3>1 DEF getComputeAdapter, n, ours
      <3> QED BY <3>2, <3>3
    <2> HIDE DEF n, ours, odd, m, c
    <2>3. 1..n \ ours # {}
      <3>1. 1 \in 1..n /\ 2 \in 1..n
        BY <1>1, <1>6
      <3>2. 1 \notin ours \/ 2 \notin ours
        BY <2>1
      <3> QED BY <3>1, <3>2
    <2>4. m \in 1..n \ ours
      BY <1>1, <2>2, <2>3, BackChosen
    <2>5. ours \in SUBSET Nat /\ ours # {}
      BY <1>1, <1>3, <2>1
    <2>6. c \in ours
      BY <2>2, <2>5, FrontChosen
    <2>7. m # c /\ list[c].christmann /\ ~list[m].christmann
      BY <1>3, <2>4, <2>6
    <2> QED BY <2>7 DEF n, ours, m, c
  <1>7. CASE n >= 2 /\ Cardinality(ours) > 1
    <2>1. ours # {}
      <3> HIDE DEF ours
      <3> QED BY <1>7, FS_EmptySet
    <2>2. m = FirstOf(odd) /\ c = FirstOf(ours \ odd)
      <3> DEFINE k == Cardinality(ours)
      <3>1. k \in Nat /\ k > 1 /\ n \in Nat /\ n >= 2
        BY <1>1, <1>4, <1>7
      <3>2. ~ (n < 2) /\ n # 0 /\ n # 1 /\ k # 1
        BY <3>1
      <3>3. m = FirstOf(odd)
        BY <2>1, <3>1, <3>2 DEF getManagementAdapter
      <3>4. c = FirstOf(ours \ odd)
        BY <2>1, <3>1, <3>2 DEF getComputeAdapter
      <3> QED BY <3>3, <3>4
    <2> HIDE DEF n, ours, odd, m, c
    <2>3. /\ odd \in SUBSET (Nat \ {0}) /\ ours \ odd \in SUBSET (Nat \ {0})
      BY <1>1, <1>3
    <2>4. IF odd = {} THEN m = 0 ELSE m \in odd
      BY <2>2, <2>3, FirstOfChosen
    <2>5. IF ours \ odd = {} THEN c = 0 ELSE c \in ours \ odd
      BY <2>2, <2>3, FirstOfChosen
    <2>6. m # c /\ (c # 0 => list[c].christmann)
      BY <1>3, <2>1, <2>3, <2>4, <2>5
    <2>7. Cardinality(ours) # 1
      BY <1>4, <1>7
    <2> QED BY <2>6, <2>7 DEF n, ours, m, c
  <1>8. CASE n >= 2 /\ Cardinality(ours) = 0
    <2>1. ours = {}
      BY <1>4, <1>8, FS_EmptySet
    <2>2. m = 1
      BY <1>1, <1>8, <2>1 DEF getManagementAdapter
    <2>3. c = FirstOf(ours \ odd)
      BY <1>1, <1>8 DEF getComputeAdapter
    <2>4. c = 0
      BY <2>1, <2>3 DEF FirstOf
    <2> QED BY <1>8, <2>2, <2>4
  <1> QED BY <1>1, <1>2, <1>4, <1>5, <1>6, <1>7, <1>8

(***************************************************************************)
(* Node::getBasicInformationBlock never names one adapter twice, and tells *)
(* the Christmann adapters from the others as AdaptersTold says, for a     *)
(* list of adapters of any length.                                         *)
(***************************************************************************)
THEOREM AdaptersToldApart == Spec => []AdaptersTold
  <1>1. Init => AdaptersTold
    BY DEF Init, NodeInit, NotYet, AdaptersTold
  <1>2. AdaptersTold /\ [Next]_vars => AdaptersTold'
    <2> SUFFICES ASSUME AdaptersTold, [Next]_vars PROVE AdaptersTold'
      OBVIOUS
    <2>1. CASE UNCHANGED block
      BY <2>1 DEF AdaptersTold
    <2>2. CASE getBasicInformationBlock
      <3>1. PICK present \in AdapterLists, listed \in {FALSE, sockets < FileLimit} :
               LET list == getNetworkAdapters(present, listed) IN
               block' = [told |-> TRUE, present |-> present, listed |-> listed,
                         management |-> getManagementAdapter(list),
                         compute |-> getComputeAdapter(list)]
        BY <2>2 DEF getBasicInformationBlock
      <3> SUFFICES ASSUME listed, present # <<>>
                   PROVE  AdaptersTold'
        BY <3>1 DEF AdaptersTold
      <3>2. getNetworkAdapters(present, listed) = present
        BY DEF getNetworkAdapters
      <3>3. /\ block'.present = present
            /\ block'.management = getManagementAdapter(present)
            /\ block'.compute = getComputeAdapter(present)
        BY <3>1, <3>2
      <3> QED BY <3>3, AdaptersChosen DEF AdaptersTold
    <2>3. UNCHANGED block \/ getBasicInformationBlock
      <3>1. CASE UNCHANGED nodeVars
        BY <3>1 DEF nodeVars
      <3>2. CASE AnswerNext
        BY <3>2 DEF AnswerNext, executeCommand
      <3>3. CASE SearchNext
        BY <3>3 DEF SearchNext, ClientStep, getJSONMonitoringData,
                    ReadDaemonHeader, ReadChunk, ReadMonitoring
      <3> QED BY <3>1, <3>2, <3>3 DEF Next, vars
    <2> QED BY <2>1, <2>2, <2>3
  <1> QED BY <1>1, <1>2, PTL DEF Spec

-----------------------------------------------------------------------------
(* The communicators.                                                      *)

\* The handles that are open, by what became of the communicator's own; with
\* devices on several buses they are not accounted for.
Counted ==
    /\ handles \in Int
    /\ buses = 1 \/ (kind = "TinyUSB" /\ buses \in Nat /\ buses > 1)
    /\ buses = 1 => handles = IF mHandle = "open" THEN 1 ELSE 0

\* A probe comes before every access and ends with a result of its own.
Probing ==
    /\ "op" \in DOMAIN call
    /\ call.op = "probe" => /\ result.op = "init"
                            /\ DOMAIN call = {"op", "tried", "lost"}

BusInv == Counted /\ Probing /\ AddressSettles

\* What a call returns is a result of this call.
LEMMA DoneCall ==
    ASSUME NEW c, NEW v, "op" \in DOMAIN c
    PROVE  /\ Done(c, v).op = c.op
           /\ Done(c, v).value = v
  BY DEF Done

LEMMA SetupKeeps ==
    ASSUME BusInv, initInterface \/ Destroy
    PROVE  BusInv'
  <1>1. CASE initInterface
    <2>1. Counted'
      BY <1>1 DEF BusInv, Counted, initInterface, Opened, OpenedInVain
    <2>2. Probing' /\ AddressSettles'
      BY <1>1 DEF initInterface, Idle, Probing, AddressSettles
    <2> QED BY <2>1, <2>2 DEF BusInv
  <1>2. CASE Destroy
    <2>1. Counted'
      BY <1>2 DEF BusInv, Counted, Destroy
    <2>2. Probing' /\ AddressSettles'
      BY <1>2 DEF Destroy, Idle, Probing, AddressSettles
    <2> QED BY <2>1, <2>2 DEF BusInv
  <1> QED BY <1>1, <1>2

LEMMA ProbeKeeps ==
    ASSUME BusInv, StartProbe \/ ProbeFound \/ ProbeGarbage \/ ProbeNext
    PROVE  BusInv'
  <1>0. Counted'
    BY DEF BusInv, Counted, StartProbe, ProbeFound, ProbeGarbage, ProbeNext,
           setup
  <1>1. CASE StartProbe
    <2>1. Probing' /\ AddressSettles'
      BY <1>1 DEF StartProbe, Probing, AddressSettles
    <2> QED BY <1>0, <2>1 DEF BusInv
  <1>2. CASE ProbeFound
    <2>1. call' = Idle /\ result'.value = MemorySize
      BY <1>2, DoneCall DEF BusInv, Probing, ProbeFound, Return
    <2>2. MemorySize > 0 /\ MemorySize \in Nat
      BY BusAssumption DEF BusAssumption
    <2>3. (slave = board \/ kind = "Dummy") /\ UNCHANGED <<kind, slave, board>>
      BY <1>2 DEF ProbeFound, Answers, setup
    <2>4. AddressSettles'
      BY <2>1, <2>2, <2>3 DEF AddressSettles
    <2>5. Probing'
      BY <2>1 DEF Idle, Probing
    <2> QED BY <1>0, <2>4, <2>5 DEF BusInv
  <1>3. CASE ProbeGarbage
    <2>1. /\ call' = Idle
          /\ result' = [op |-> "probe", value |-> MemorySize, lost |-> TRUE]
      BY <1>3 DEF ProbeGarbage
    <2>2. MemorySize > 0 /\ MemorySize \in Nat
      BY BusAssumption DEF BusAssumption
    <2>3. AddressSettles'
      BY <2>1, <2>2 DEF AddressSettles
    <2>4. Probing'
      BY <2>1 DEF Idle, Probing
    <2> QED BY <1>0, <2>3, <2>4 DEF BusInv
  <1>4. CASE ProbeNext
    <2>1. CASE call.tried = I2C_ADDRESS_OLD2
      <3>1. /\ call' = Idle /\ mI2CAddress' = I2C_ADDRESS
            /\ result' = [op |-> "probe", value |-> 0,
                          lost |-> slave' # mI2CAddress']
        BY <1>4, <2>1 DEF ProbeNext, SetAddress, Following, I2C_ADDRESS,
                          I2C_ADDRESS_OLD1, I2C_ADDRESS_OLD2
      <3>2. AddressSettles'
        <4>1. ~ (result'.value > 0) /\ result'.lost = (slave' # mI2CAddress')
          BY <3>1
        <4>2. slave' = I2C_ADDRESS \/ result'.lost
          BY <3>1, <4>1
        <4> QED BY <3>1, <4>1, <4>2 DEF AddressSettles
      <3>3. Probing'
        BY <3>1 DEF Idle, Probing
      <3> QED BY <1>0, <3>2, <3>3 DEF BusInv
    <2>2. CASE call.tried # I2C_ADDRESS_OLD2
      <3>1. /\ call' = [op |-> "probe", tried |-> Following(call.tried),
                        lost |-> slave' # mI2CAddress']
            /\ result' = result /\ result.op = "init"
        BY <1>4, <2>2 DEF ProbeNext, BusInv, Probing
      <3>2. AddressSettles' /\ Probing'
        BY <3>1 DEF AddressSettles, Probing
      <3> QED BY <1>0, <3>2 DEF BusInv
    <2> QED BY <2>1, <2>2
  <1> QED BY <1>1, <1>2, <1>3, <1>4

\* An access that begins, goes on or ends.
LEMMA AccessKeeps ==
    ASSUME BusInv, UNCHANGED setup, call'.op # "probe", "op" \in DOMAIN call',
           \/ result' = result
           \/ result'.op # "probe"
    PROVE  BusInv'
  BY DEF BusInv, setup, Counted, Probing, AddressSettles

LEMMA TransferKeeps ==
    ASSUME BusInv,
           \/ readData \/ writeData \/ AdlinkReads \/ AdlinkWrites
           \/ AdlinkFails \/ WriteOffset \/ OffsetLost \/ ReadBytes
           \/ WriteBytes \/ StatusUnread \/ TransferFails \/ DummyAccess
           \/ ControllerChanges
    PROVE  BusInv'
  <1>0. "op" \in DOMAIN call
    BY DEF BusInv, Probing
  <1>1. CASE readData \/ writeData
    BY <1>1, AccessKeeps DEF readData, writeData, Begin, Past
  <1>2. ASSUME NEW c, NEW n, NEW v, Continue(c, n, v),
               "op" \in DOMAIN c, c.op \in {"read", "write"}
        PROVE  /\ call'.op # "probe" /\ "op" \in DOMAIN call'
               /\ result' = result \/ result'.op # "probe"
    <2>1. CASE c.pos + n < c.count
      <3>1. call' = [c EXCEPT !.pos = @ + n, !.retry = FALSE] /\ result' = result
        BY <1>2, <2>1 DEF Continue
      <3> QED BY <1>2, <3>1
    <2>2. CASE ~ (c.pos + n < c.count)
      <3>1. call' = Idle /\ result' = Done(c, v)
        BY <1>2, <2>2 DEF Continue
      <3> QED BY <1>2, <3>1, DoneCall DEF Idle
    <2> QED BY <2>1, <2>2
  <1>3. ASSUME NEW v, Return(v), call.op \in {"read", "write"}
        PROVE  /\ call'.op # "probe" /\ "op" \in DOMAIN call'
               /\ result'.op # "probe"
    BY <1>0, <1>3, DoneCall DEF Return, Idle
  <1>4. ASSUME NEW b
        PROVE  /\ "op" \in DOMAIN [call EXCEPT !.buf = b]
               /\ [call EXCEPT !.buf = b].op = call.op
    BY <1>0
  <1>5. ASSUME NEW b, NEW v, call' = Idle, call.op \in {"read", "write"},
               result' = Done([call EXCEPT !.buf = b], v)
        PROVE  /\ call'.op # "probe" /\ "op" \in DOMAIN call'
               /\ result'.op # "probe"
    BY <1>4, <1>5, DoneCall DEF Idle
  <1>6. CASE AdlinkReads
    BY <1>2, <1>4, <1>6, AccessKeeps DEF AdlinkReads
  <1>7. CASE AdlinkWrites
    BY <1>0, <1>2, <1>7, AccessKeeps DEF AdlinkWrites
  <1>8. CASE AdlinkFails
    <2>1. CASE Return(-1)
      BY <1>3, <1>8, <2>1, AccessKeeps DEF AdlinkFails
    <2>2. CASE call' = [call EXCEPT !.retry = TRUE] /\ UNCHANGED result
      BY <1>0, <1>8, <2>2, AccessKeeps DEF AdlinkFails
    <2> QED BY <1>8, <2>1, <2>2 DEF AdlinkFails
  <1>9. CASE WriteOffset \/ OffsetLost \/ ReadBytes \/ WriteBytes \/ StatusUnread
    <2>1. /\ UNCHANGED setup /\ call.op \in {"read", "write"}
          /\ \/ \E d : /\ "op" \in DOMAIN d /\ d.op = call.op
                        /\ call' = d /\ result' = result
             \/ /\ call' = Idle
                /\ \E d, v : /\ "op" \in DOMAIN d /\ d.op = call.op
                             /\ result' = Done(d, v)
      <3>1. CASE WriteOffset
        BY <1>0, <3>1 DEF WriteOffset
      <3>2. CASE OffsetLost
        BY <1>0, <3>2 DEF OffsetLost
      <3>3. CASE ReadBytes
        BY <1>0, <3>3 DEF ReadBytes
      <3>4. CASE WriteBytes
        BY <1>0, <3>4 DEF WriteBytes
      <3>5. CASE StatusUnread
        BY <1>0, <3>5 DEF StatusUnread
      <3> QED BY <1>9, <3>1, <3>2, <3>3, <3>4, <3>5
    <2> QED BY <2>1, DoneCall, AccessKeeps DEF Idle
  <1>10. CASE TransferFails
    BY <1>3, <1>10, AccessKeeps DEF TransferFails
  <1>11. CASE DummyAccess
    <2>1. CASE call.op = "read"
      BY <1>5, <1>11, <2>1, AccessKeeps DEF DummyAccess
    <2>2. CASE call.op = "write"
      BY <1>3, <1>11, <2>2, AccessKeeps DEF DummyAccess
    <2> QED BY <1>11, <2>1, <2>2 DEF DummyAccess
  <1>12. CASE ControllerChanges
    <2>1. UNCHANGED setup
      BY <1>12 DEF ControllerChanges
    <2>2. CASE call.op \in {"read", "write"}
      <3>1. "op" \in DOMAIN call' /\ call'.op # "probe"
        BY <1>0, <1>12, <2>2 DEF ControllerChanges
      <3>2. result' = result \/ result'.op # "probe"
        BY <1>12 DEF ControllerChanges, Past
      <3> QED BY <2>1, <3>1, <3>2, AccessKeeps
    <2>3. CASE call.op \notin {"read", "write"}
      <3>1. call' = call
        BY <1>12, <2>3 DEF ControllerChanges
      <3>2. \/ result' = result
            \/ result.op \in {"read", "write"} /\ result' = Past
        BY <1>12 DEF ControllerChanges
      <3> QED BY <2>1, <3>1, <3>2 DEF BusInv, setup, Counted, Probing,
                                      AddressSettles, Past
    <2> QED BY <2>2, <2>3
  <1> QED BY <1>1, <1>6, <1>7, <1>8, <1>9, <1>10, <1>11, <1>12

\* Every step of Devices keeps what is known of a communicator.
LEMMA BusKeeps ==
    ASSUME BusInv, [Next]_vars
    PROVE  BusInv'
  <1>1. CASE UNCHANGED busVars
    BY <1>1 DEF busVars, setup, BusInv, Counted, Probing, AddressSettles
  <1>2. CASE BusNext
    BY <1>2, SetupKeeps, ProbeKeeps, TransferKeeps DEF BusNext
  <1> QED BY <1>1, <1>2 DEF Next, vars

\* A communicator starts without a handle and without a call.
LEMMA BusStarts == Init => BusInv
  <1> SUFFICES ASSUME Init PROVE BusInv
    OBVIOUS
  <1>1. Counted
    <2>1. \A n \in 1..UsbBuses : n \in Nat /\ (n = 1 \/ n > 1)
      BY BusAssumption DEF BusAssumption
    <2>2. buses \in IF kind = "TinyUSB" THEN 1..UsbBuses ELSE {1}
      BY DEF Init, BusInit
    <2>3. buses = 1 \/ (kind = "TinyUSB" /\ buses \in Nat /\ buses > 1)
      BY <2>1, <2>2
    <2> QED BY <2>3 DEF Init, BusInit, Counted
  <1> QED BY <1>1 DEF Init, BusInit, Idle, BusInv, Probing, AddressSettles

(***************************************************************************)
(* Whatever a communicator opened in initInterface is closed by its        *)
(* destructor, except by TinyUSB when it finds devices on several buses.   *)
(***************************************************************************)
THEOREM HandlesAreClosed == Spec => []HandlesClosed
  <1>1. BusInv /\ [Next]_vars => BusInv'
    BY BusKeeps
  <1>2. BusInv => HandlesClosed
    BY DEF BusInv, Counted, HandlesClosed
  <1> QED BY <1>1, <1>2, BusStarts, PTL DEF Spec

(***************************************************************************)
(* getMaxDataSize leaves a communicator at the address of the board when   *)
(* it found a header, and at the current one when every read failed or     *)
(* found none.  It says nothing after an ioctl failed, nor of a header     *)
(* that was made up of what a bus without an answer delivers.              *)
(***************************************************************************)
THEOREM AddressIsSettled == Spec => []AddressSettles
  <1>1. BusInv /\ [Next]_vars => BusInv'
    BY BusKeeps
  <1>2. BusInv => AddressSettles
    BY DEF BusInv
  <1> QED BY <1>1, <1>2, BusStarts, PTL DEF Spec

-----------------------------------------------------------------------------
(* What readData and writeData return.                                     *)

Memories == [Cells -> Int]

Access == [op : {"read", "write"}, offset : Cells, count : Nat, pos : Nat,
           from : Cells \cup {NoOffset}, exact : BOOLEAN, retry : BOOLEAN,
           buf : Seq(Int), data : Int, seen : SUBSET Memories, stamp : Nat]

AccessFields == {"op", "offset", "count", "pos", "from", "exact", "retry",
                 "buf", "data", "seen", "stamp"}

\* The bytes at positions below n were read from the memory, as it was at some
\* moment of the call.
TakenUpTo(c, buf, n) ==
    \A i \in 1..n : \E m \in c.seen : buf[i] = m[c.offset + i - 1]

\* The bytes at positions below n have arrived, or were replaced since.
ArrivedUpTo(c, mem, n) ==
    \A x \in Cells : x >= c.offset /\ x < c.offset + n =>
        mem[x] = c.data \/ mem[x] > c.stamp

\* Every byte outside of the range is one that was there during the call.
OutsideKept(c, mem) ==
    \A x \in Cells : ~(x >= c.offset /\ x < c.offset + c.count) =>
        \E m \in c.seen : mem[x] = m[x]

InProgress(c) ==
    /\ c \in Access
    /\ c.pos < c.count /\ c.stamp <= changes
    /\ kind # "Dummy" => c.offset + c.count <= MemorySize
    /\ kind # "Adlink" => c.pos = 0
    /\ kind # "TinyUSB" => c.exact
    /\ c.exact => c.from \in {NoOffset, c.offset}
    /\ c.op = "read" => /\ memory \in c.seen
                        /\ Len(c.buf) = c.pos
                        /\ TakenUpTo(c, c.buf, c.pos)
    /\ c.op = "write" => /\ ArrivedUpTo(c, memory, c.pos)
                         /\ OutsideKept(c, memory)

TransferInv ==
    /\ memory \in Memories /\ changes \in Nat /\ accesses \in Nat
    /\ "op" \in DOMAIN call
    /\ call.op \in {"read", "write"} => InProgress(call)
    /\ TransfersTruthful

\* The result of an access holds what the access held.
LEMMA AccessDone ==
    ASSUME NEW c, AccessFields \subseteq DOMAIN c, NEW v
    PROVE  /\ Done(c, v).op = c.op /\ Done(c, v).value = v
           /\ Done(c, v).exact = c.exact
           /\ Done(c, v).offset = c.offset /\ Done(c, v).count = c.count
           /\ Done(c, v).buf = c.buf /\ Done(c, v).data = c.data
           /\ Done(c, v).seen = c.seen /\ Done(c, v).stamp = c.stamp
  <1>1. \A f \in AccessFields : f # "value" /\ Done(c, v)[f] = c[f]
    BY DEF Done, AccessFields
  <1>2. Done(c, v).value = v
    BY DEF Done
  <1> QED BY <1>1, <1>2 DEF AccessFields

LEMMA AccessDomain == \A c \in Access : DOMAIN c = AccessFields
  BY DEF Access, AccessFields

LEMMA BusNumbers ==
    /\ MemorySize \in Nat /\ MemorySize > 0 /\ Cells \subseteq Nat
    /\ \A x \in Nat : x < MemorySize => x \in Cells
    /\ \A x \in Cells : x < MemorySize
    /\ mMaxBlockLen \in Nat /\ mMaxBlockLen > 2
  BY BusAssumption DEF BusAssumption, Cells

\* The blocks of an access advance it, and do not go beyond its end.
LEMMA Blocks ==
    ASSUME NEW c \in Access, c.pos < c.count
    PROVE  /\ ReadBlock(c) \in Nat /\ ReadBlock(c) > 0
           /\ c.pos + ReadBlock(c) <= c.count
           /\ c.pos + ReadBlock(c) < c.count => c.count > mMaxBlockLen
           /\ WriteBlock(c) \in Nat /\ WriteBlock(c) > 0
           /\ c.pos + WriteBlock(c) <= c.count
           /\ WriteBlock(c) + 2 <= mMaxBlockLen
  <1>1. c.pos \in Nat /\ c.count \in Nat
    BY DEF Access
  <1> QED BY <1>1, BusNumbers DEF ReadBlock, WriteBlock, Least

\* A window of the memory.
LEMMA Windows ==
    ASSUME NEW mem \in Memories, NEW offset \in Nat, NEW n \in Nat,
           offset + n <= MemorySize
    PROVE  /\ Window(mem, offset, n) \in Seq(Int)
           /\ Len(Window(mem, offset, n)) = n
           /\ \A i \in 1..n : Window(mem, offset, n)[i] = mem[offset + i - 1]
  <1>1. \A i \in 1..n : offset + i - 1 \in Nat /\ offset + i - 1 < MemorySize
    BY BusNumbers
  <1>2. \A i \in 1..n : mem[offset + i - 1] \in Int
    BY <1>1, BusNumbers DEF Memories
  <1>3. Window(mem, offset, n) \in [1..n -> Int]
    BY <1>2 DEF Window
  <1> QED BY <1>3 DEF Window

\* The memory after a block was written.
LEMMA BlockWritten ==
    ASSUME NEW c \in Access, NEW n \in Nat, c.pos + n <= c.count,
           NEW mem \in Memories, c.seen \subseteq Memories
    PROVE  /\ Put(mem, c, n) \in Memories
           /\ ArrivedUpTo(c, mem, c.pos) => ArrivedUpTo(c, Put(mem, c, n), c.pos + n)
           /\ ArrivedUpTo(c, mem, c.pos) => ArrivedUpTo(c, Put(mem, c, n), c.pos)
           /\ OutsideKept(c, mem) => OutsideKept(c, Put(mem, c, n))
  <1>1. /\ c.pos \in Nat /\ c.count \in Nat /\ c.offset \in Nat /\ c.data \in Int
        /\ Cells \subseteq Nat
    BY BusNumbers DEF Access
  <1>2. \A x \in Cells :
           Put(mem, c, n)[x] = IF x >= c.offset + c.pos /\ x < c.offset + c.pos + n
                               THEN c.data ELSE mem[x]
    BY DEF Put
  <1>3. Put(mem, c, n) \in Memories
    BY <1>1 DEF Put, Memories
  <1>4. ASSUME ArrivedUpTo(c, mem, c.pos)
        PROVE  ArrivedUpTo(c, Put(mem, c, n), c.pos + n)
    <2> SUFFICES ASSUME NEW x \in Cells, x >= c.offset, x < c.offset + (c.pos + n)
                 PROVE  \/ Put(mem, c, n)[x] = c.data
                        \/ Put(mem, c, n)[x] > c.stamp
      BY DEF ArrivedUpTo
    <2>1. CASE x < c.offset + c.pos
      <3>1. mem[x] = c.data \/ mem[x] > c.stamp
        BY <1>4, <2>1 DEF ArrivedUpTo
      <3>2. Put(mem, c, n)[x] = mem[x]
        BY <1>1, <1>2, <2>1
      <3> QED BY <3>1, <3>2
    <2>2. CASE ~(x < c.offset + c.pos)
      BY <1>1, <1>2, <2>2
    <2> QED BY <2>1, <2>2
  <1>5. ASSUME ArrivedUpTo(c, mem, c.pos)
        PROVE  ArrivedUpTo(c, Put(mem, c, n), c.pos)
    BY <1>1, <1>2, <1>5 DEF ArrivedUpTo
  <1>6. ASSUME OutsideKept(c, mem) PROVE OutsideKept(c, Put(mem, c, n))
    <2> SUFFICES ASSUME NEW x \in Cells,
                        ~(x >= c.offset /\ x < c.offset + c.count)
                 PROVE  \E m \in c.seen : Put(mem, c, n)[x] = m[x]
      BY DEF OutsideKept
    <2>1. Put(mem, c, n)[x] = mem[x]
      BY <1>1, <1>2
    <2>2. PICK m \in c.seen : mem[x] = m[x]
      BY <1>6 DEF OutsideKept
    <2> QED BY <2>1, <2>2
  <1> QED BY <1>3, <1>4, <1>5, <1>6

\* While a call goes on, the last result says what it said.
LEMMA StillTruthful ==
    ASSUME TransfersTruthful, UNCHANGED <<kind, result>>, call'.op # "idle"
    PROVE  TransfersTruthful'
  <1>1. ReadTruthful'
    BY DEF TransfersTruthful, ReadTruthful, Unconfirmed
  <1>2. WriteTruthful'
    BY DEF WriteTruthful, Idle
  <1> QED BY <1>1, <1>2 DEF TransfersTruthful

LEMMA ReadReturns ==
    ASSUME NEW c, AccessFields \subseteq DOMAIN c, c.op = "read", NEW v,
           result' = Done(c, v), UNCHANGED kind,
           v > 0 /\ ~Unconfirmed(c) => Len(c.buf) = v /\ TakenUpTo(c, c.buf, v)
    PROVE  TransfersTruthful'
  <1>1. /\ result'.op = "read" /\ result'.value = v /\ result'.buf = c.buf
        /\ result'.seen = c.seen /\ result'.offset = c.offset
        /\ result'.exact = c.exact
    BY AccessDone
  <1>2. ReadTruthful'
    <2> SUFFICES ASSUME v > 0, ~Unconfirmed(c) PROVE ReadTruthful'
      BY <1>1 DEF ReadTruthful, Unconfirmed
    <2>1. TakenUpTo(c, c.buf, v) /\ Len(c.buf) = v
      OBVIOUS
    <2>2. \A i \in 1..v : \E m \in c.seen : c.buf[i] = m[c.offset + i - 1]
      BY <2>1 DEF TakenUpTo
    <2> QED BY <1>1, <2>1, <2>2 DEF ReadTruthful
  <1>3. WriteTruthful'
    BY <1>1 DEF WriteTruthful
  <1> QED BY <1>2, <1>3 DEF TransfersTruthful

LEMMA WriteReturns ==
    ASSUME NEW c, AccessFields \subseteq DOMAIN c, c.op = "write", NEW v,
           result' = Done(c, v), kind # "Dummy", UNCHANGED kind,
           \/ Unconfirmed(c)
           \/ ArrivedUpTo(c, memory', IF kind = "Dev" THEN v - 2 ELSE v),
           OutsideKept(c, memory')
    PROVE  TransfersTruthful'
  <1>1. /\ result'.op = "write" /\ result'.value = v /\ result'.data = c.data
        /\ result'.seen = c.seen /\ result'.offset = c.offset
        /\ result'.count = c.count /\ result'.stamp = c.stamp
        /\ result'.exact = c.exact
    BY AccessDone
  <1>2. WriteTruthful'
    <2> DEFINE n == IF kind = "Dev" THEN v - 2 ELSE v
    <2>1. Claimed(result)' = n /\ Unconfirmed(result)' = Unconfirmed(c)
      BY <1>1 DEF Claimed, Unconfirmed
    <2> SUFFICES ASSUME NEW x \in Cells
                 PROVE  LET inside == x >= c.offset /\ x < c.offset + c.count
                        IN  /\ inside /\ ~Unconfirmed(c) /\ x < c.offset + n =>
                                  memory'[x] = c.data \/ memory'[x] > c.stamp
                            /\ ~inside => \E m \in c.seen : memory'[x] = m[x]
      BY <1>1, <2>1 DEF WriteTruthful, Cells
    <2> QED BY DEF ArrivedUpTo, OutsideKept
  <1>3. ReadTruthful'
    BY <1>1 DEF ReadTruthful
  <1> QED BY <1>2, <1>3 DEF TransfersTruthful

\* One more block of a read.
LEMMA BlockRead ==
    ASSUME NEW c \in Access, NEW n \in Nat, c.offset + (c.pos + n) <= MemorySize,
           NEW mem \in Memories, mem \in c.seen, Len(c.buf) = c.pos,
           TakenUpTo(c, c.buf, c.pos)
    PROVE  LET b == c.buf \o Window(mem, c.offset + c.pos, n)
           IN  /\ b \in Seq(Int) /\ Len(b) = c.pos + n
               /\ TakenUpTo(c, b, c.pos + n)
  <1> DEFINE p == c.pos
             o == c.offset
             w == Window(mem, o + p, n)
             b == c.buf \o w
  <1>1. p \in Nat /\ o \in Nat /\ c.buf \in Seq(Int) /\ Len(c.buf) = p
    BY BusNumbers DEF Access
  <1>2. o + (p + n) <= MemorySize
    OBVIOUS
  <1>3. \A i \in 1..p : \E m \in c.seen : c.buf[i] = m[o + i - 1]
    BY DEF TakenUpTo
  <1> SUFFICES /\ b \in Seq(Int) /\ Len(b) = p + n
               /\ \A i \in 1..(p + n) : \E m \in c.seen : b[i] = m[o + i - 1]
    BY DEF TakenUpTo
  <1> HIDE DEF p, o
  <1>4. o + p \in Nat /\ (o + p) + n <= MemorySize
    BY <1>1, <1>2, BusNumbers
  <1>5. /\ w \in Seq(Int) /\ Len(w) = n
        /\ \A i \in 1..n : w[i] = mem[(o + p) + i - 1]
    BY <1>4, Windows
  <1> HIDE DEF w
  <1>6. /\ b \in Seq(Int) /\ Len(b) = p + n
        /\ \A i \in 1..(p + n) : b[i] = IF i <= p THEN c.buf[i] ELSE w[i - p]
    <2> DEFINE u == c.buf
    <2>1. u \in Seq(Int) /\ Len(u) = p
      BY <1>1
    <2> HIDE DEF u
    <2>2. /\ u \o w \in Seq(Int) /\ Len(u \o w) = p + n
          /\ \A i \in 1..(p + n) : (u \o w)[i] = IF i <= p THEN u[i] ELSE w[i - p]
      BY <1>5, <2>1, ConcatProperties
    <2> QED BY <2>2 DEF u
  <1> HIDE DEF b
  <1>7. ASSUME NEW i \in 1..(p + n)
        PROVE  \E m \in c.seen : b[i] = m[o + i - 1]
    <2>1. CASE i <= p
      <3>1. i \in 1..p /\ b[i] = c.buf[i]
        BY <1>1, <1>6, <2>1
      <3> QED BY <1>3, <3>1
    <2>2. CASE ~(i <= p)
      <3>1. i - p \in 1..n /\ (o + p) + (i - p) - 1 = o + i - 1
        BY <1>1, <2>2
      <3>2. b[i] = mem[o + i - 1]
        BY <1>5, <1>6, <2>2, <3>1
      <3> QED BY <3>2
    <2> QED BY <2>1, <2>2
  <1> QED BY <1>6, <1>7

\* A call that goes on with the next block.
Advanced(c, n) == [c EXCEPT !.pos = @ + n, !.retry = FALSE]

LEMMA NextBlock ==
    ASSUME NEW c \in Access, NEW n \in Nat
    PROVE  LET d == Advanced(c, n)
           IN  /\ d \in Access /\ d.pos = c.pos + n /\ d.op = c.op
               /\ d.buf = c.buf /\ d.offset = c.offset /\ d.count = c.count
               /\ d.data = c.data /\ d.seen = c.seen /\ d.stamp = c.stamp
               /\ d.from = c.from /\ d.exact = c.exact
  <1>1. c.pos + n \in Nat
    BY DEF Access
  <1> QED BY <1>1 DEF Access, Advanced

LEMMA AdlinkReadKeeps ==
    ASSUME TransferInv, AdlinkReads
    PROVE  TransferInv'
  <1> DEFINE n == ReadBlock(call)
             b == call.buf \o Window(memory, call.offset + call.pos, n)
             c == [call EXCEPT !.buf = b]
             p == call.pos
             k == call.count
             o == call.offset
  <1>1. /\ kind = "Adlink" /\ call.op = "read" /\ InProgress(call)
        /\ Continue(c, n, k)
        /\ UNCHANGED <<kind, memory, changes, accesses>>
    BY DEF AdlinkReads, TransferInv, setup
  <1>2. /\ call \in Access /\ p < k /\ o + k <= MemorySize
        /\ memory \in call.seen /\ memory \in Memories
        /\ Len(call.buf) = p /\ TakenUpTo(call, call.buf, p)
        /\ call.exact => call.from \in {NoOffset, o}
    BY <1>1 DEF InProgress, TransferInv
  <1>3. n \in Nat /\ n > 0 /\ p + n <= k
    BY <1>2, Blocks
  <1>4. p \in Nat /\ k \in Nat /\ o \in Nat
    BY <1>2, BusNumbers DEF Access
  <1> HIDE DEF n
  <1>5. o + (p + n) <= MemorySize
    <2> HIDE DEF p, k, o
    <2> QED BY <1>2, <1>3, <1>4, BusNumbers
  <1>6. b \in Seq(Int) /\ Len(b) = p + n /\ TakenUpTo(call, b, p + n)
    BY <1>2, <1>3, <1>5, BlockRead
  <1> HIDE DEF b
  <1>7. /\ c \in Access /\ c.buf = b /\ c.op = "read"
        /\ c.offset = o /\ c.count = k /\ c.pos = p
        /\ c.seen = call.seen /\ c.stamp = call.stamp
        /\ c.from = call.from /\ c.exact = call.exact
    BY <1>1, <1>2, <1>6 DEF Access
  <1> HIDE DEF c
  <1>8. TakenUpTo(c, b, p + n)
    BY <1>6, <1>7 DEF TakenUpTo
  <1>9. call.stamp <= changes
    BY <1>1 DEF InProgress
  <1> HIDE DEF p, k, o
  <1>10. CASE p + n < k
    <2>1. call' = Advanced(c, n) /\ result' = result
      BY <1>1, <1>7, <1>10 DEF Continue, Advanced
    <2>2. /\ call' \in Access /\ call'.buf = b /\ call'.op = "read"
          /\ call'.offset = o /\ call'.count = k /\ call'.pos = p + n
          /\ call'.seen = call.seen /\ call'.stamp = call.stamp
          /\ call'.from = call.from /\ call'.exact = call.exact
      BY <1>3, <1>7, <2>1, NextBlock
    <2>3. "op" \in DOMAIN call'
      BY <2>2 DEF Access
    <2>4. TakenUpTo(call', b, p + n)
      BY <1>7, <1>8, <2>2 DEF TakenUpTo
    <2>5. call.exact
      BY <1>1 DEF InProgress
    <2>6. InProgress(call)'
      BY <1>1, <1>2, <1>6, <1>9, <1>10, <2>2, <2>4, <2>5 DEF InProgress
    <2>7. TransfersTruthful'
      BY <1>1, <2>1, <2>2, StillTruthful DEF TransferInv
    <2> QED BY <1>1, <2>3, <2>6, <2>7 DEF TransferInv
  <1>11. CASE ~(p + n < k)
    <2>1. call' = Idle /\ result' = Done(c, k)
      BY <1>1, <1>7, <1>11 DEF Continue
    <2>2. p + n = k
      BY <1>3, <1>4, <1>11
    <2>3. Len(c.buf) = k /\ TakenUpTo(c, c.buf, k)
      BY <1>6, <1>7, <1>8, <2>2
    <2>4. TransfersTruthful'
      BY <1>1, <1>7, <2>1, <2>3, AccessDomain, ReadReturns
    <2> QED BY <1>1, <2>1, <2>4 DEF TransferInv, Idle
  <1> QED BY <1>10, <1>11

LEMMA AdlinkWriteKeeps ==
    ASSUME TransferInv, AdlinkWrites
    PROVE  TransferInv'
  <1> DEFINE n == WriteBlock(call)
             p == call.pos
             k == call.count
  <1>1. /\ kind = "Adlink" /\ call.op = "write" /\ InProgress(call)
        /\ Continue(call, n, k)
        /\ memory' = IF n + 2 > mMaxBlockLen THEN memory ELSE Put(memory, call, n)
        /\ UNCHANGED <<kind, changes, accesses>>
    BY DEF AdlinkWrites, TransferInv, setup
  <1>2. /\ call \in Access /\ p < k /\ call.offset + k <= MemorySize
        /\ memory \in Memories /\ call.seen \subseteq Memories
        /\ ArrivedUpTo(call, memory, p) /\ OutsideKept(call, memory)
        /\ call.stamp <= changes /\ call.exact
        /\ call.from \in {NoOffset, call.offset}
    BY <1>1 DEF InProgress, TransferInv, Access
  <1>3. /\ n \in Nat /\ n > 0 /\ p + n <= k /\ ~(n + 2 > mMaxBlockLen)
    BY <1>2, Blocks, BusNumbers
  <1>4. p \in Nat /\ k \in Nat
    BY <1>2 DEF Access
  <1> HIDE DEF n
  <1>5. memory' = Put(memory, call, n)
    BY <1>1, <1>3
  <1>6. /\ memory' \in Memories
        /\ ArrivedUpTo(call, memory', p + n) /\ OutsideKept(call, memory')
    BY <1>2, <1>3, <1>5, BlockWritten
  <1> HIDE DEF p, k
  <1>7. CASE p + n < k
    <2>1. call' = Advanced(call, n) /\ result' = result
      BY <1>1, <1>7 DEF Continue, Advanced, p, k
    <2>2. /\ call' \in Access /\ call'.op = "write" /\ call'.data = call.data
          /\ call'.offset = call.offset /\ call'.count = k /\ call'.pos = p + n
          /\ call'.seen = call.seen /\ call'.stamp = call.stamp
          /\ call'.from = call.from /\ call'.exact = call.exact
      BY <1>1, <1>2, <1>3, <2>1, NextBlock DEF p, k
    <2>3. "op" \in DOMAIN call'
      BY <2>2 DEF Access
    <2>4. ArrivedUpTo(call', memory', p + n)
      BY <1>6, <2>2 DEF ArrivedUpTo
    <2>5. OutsideKept(call', memory')
      BY <1>6, <2>2 DEF OutsideKept, k
    <2>6. InProgress(call)'
      BY <1>1, <1>2, <1>7, <2>2, <2>4, <2>5 DEF InProgress
    <2>7. TransfersTruthful'
      BY <1>1, <2>1, <2>2, StillTruthful DEF TransferInv
    <2> QED BY <1>1, <1>6, <2>3, <2>6, <2>7 DEF TransferInv
  <1>8. CASE ~(p + n < k)
    <2>1. call' = Idle /\ result' = Done(call, k)
      BY <1>1, <1>8 DEF Continue, p, k
    <2>2. p + n = k
      BY <1>3, <1>4, <1>8
    <2>3. ArrivedUpTo(call, memory', k)
      BY <1>6, <2>2
    <2>4. TransfersTruthful'
      BY <1>1, <1>2, <1>6, <2>1, <2>3, AccessDomain, WriteReturns
    <2> QED BY <1>1, <1>6, <2>1, <2>4 DEF TransferInv, Idle
  <1> QED BY <1>7, <1>8

\* A transfer that fails: the result is not positive, or there is a retry.
LEMMA FailureKeeps ==
    ASSUME TransferInv, call.op \in {"read", "write"}, kind # "Dummy",
           UNCHANGED <<kind, changes, accesses>>,
           \/ memory' = memory
           \/ /\ call.op = "write"
              /\ \E n \in 0..(call.count - call.pos) : memory' = Put(memory, call, n),
           \/ \E v \in Int : Return(v) /\ ~(v > 0)
           \/ call' = [call EXCEPT !.retry = TRUE] /\ UNCHANGED result
    PROVE  TransferInv'
  <1>1. InProgress(call) /\ call \in Access /\ call.seen \subseteq Memories
        /\ memory \in Memories /\ call.pos \in Nat /\ call.count \in Nat
    BY DEF TransferInv, InProgress, Access
  <1>2. /\ memory' \in Memories
        /\ call.op = "read" => memory' = memory
        /\ call.op = "write" => /\ ArrivedUpTo(call, memory', call.pos)
                                /\ OutsideKept(call, memory')
    <2>1. CASE memory' = memory
      BY <1>1, <2>1 DEF InProgress
    <2>2. CASE /\ call.op = "write"
               /\ \E n \in 0..(call.count - call.pos) : memory' = Put(memory, call, n)
      <3>1. PICK n \in 0..(call.count - call.pos) : memory' = Put(memory, call, n)
        BY <2>2
      <3>2. n \in Nat /\ call.pos + n <= call.count
        BY <1>1
      <3>3. ArrivedUpTo(call, memory, call.pos) /\ OutsideKept(call, memory)
        BY <1>1, <2>2 DEF InProgress
      <3> QED BY <1>1, <2>2, <3>1, <3>2, <3>3, BlockWritten
    <2> QED BY <2>1, <2>2
  <1>3. CASE \E v \in Int : Return(v) /\ ~(v > 0)
    <2>1. PICK v \in Int : Return(v) /\ ~(v > 0)
      BY <1>3
    <2>2. call' = Idle /\ result' = Done(call, v)
      BY <2>1 DEF Return
    <2>3. ASSUME NEW n \in Int, ~(n > 0)
          PROVE  ArrivedUpTo(call, memory', n)
      <3>1. \A x \in Cells : ~(x >= call.offset /\ x < call.offset + n)
        BY <1>1, <2>3, BusNumbers DEF Access
      <3> QED BY <3>1 DEF ArrivedUpTo
    <2>4. ArrivedUpTo(call, memory', IF kind = "Dev" THEN v - 2 ELSE v)
      <3>1. v - 2 \in Int /\ ~(v - 2 > 0)
        BY <2>1
      <3> QED BY <2>1, <2>3, <3>1
    <2>5. TransfersTruthful'
      BY <1>1, <1>2, <2>1, <2>2, <2>4, AccessDomain, ReadReturns, WriteReturns
    <2> QED BY <1>2, <2>2, <2>5 DEF TransferInv, Idle
  <1>4. CASE call' = [call EXCEPT !.retry = TRUE] /\ UNCHANGED result
    <2>1. /\ call' \in Access /\ call'.op = call.op /\ call'.data = call.data
          /\ call'.offset = call.offset /\ call'.count = call.count
          /\ call'.pos = call.pos /\ call'.buf = call.buf
          /\ call'.seen = call.seen /\ call'.stamp = call.stamp
          /\ call'.from = call.from /\ call'.exact = call.exact
      BY <1>1, <1>4 DEF Access
    <2>2. "op" \in DOMAIN call'
      BY <2>1 DEF Access
    <2>3. TransfersTruthful'
      BY <1>4, <2>1, StillTruthful DEF TransferInv
    <2>4. CASE call.op = "read"
      <3>1. TakenUpTo(call', call'.buf, call'.pos)
        BY <1>1, <2>1, <2>4 DEF InProgress, TakenUpTo
      <3>2. InProgress(call)'
        BY <1>1, <1>2, <2>1, <2>4, <3>1 DEF InProgress
      <3> QED BY <1>2, <2>2, <2>3, <3>2 DEF TransferInv
    <2>5. CASE call.op = "write"
      <3>1. ArrivedUpTo(call', memory', call'.pos) /\ OutsideKept(call', memory')
        BY <1>2, <2>1, <2>5 DEF ArrivedUpTo, OutsideKept
      <3>2. InProgress(call)'
        BY <1>1, <1>2, <2>1, <2>5, <3>1 DEF InProgress
      <3> QED BY <1>2, <2>2, <2>3, <3>2 DEF TransferInv
    <2> QED BY <2>4, <2>5
  <1> QED BY <1>3, <1>4

LEMMA NothingPut ==
    ASSUME NEW c \in Access, NEW mem \in Memories
    PROVE  Put(mem, c, 0) = mem
  <1> DEFINE y == c.offset + c.pos
  <1>0. c.offset \in Nat /\ c.pos \in Nat /\ Cells \subseteq Nat
    BY BusNumbers DEF Access
  <1>1. y \in Nat /\ Cells \subseteq Nat
    BY <1>0
  <1>2. ASSUME NEW x \in Cells
        PROVE  ~(x >= y /\ x < y + 0)
    <2> HIDE DEF y
    <2> QED BY <1>1
  <1>3. Put(mem, c, 0) = [x \in Cells |-> mem[x]]
    <2>1. Put(mem, c, 0) =
             [x \in Cells |-> IF x >= y /\ x < y + 0 THEN c.data ELSE mem[x]]
      BY DEF Put
    <2> QED BY <1>2, <2>1, Zenon
  <1> QED BY <1>3 DEF Memories

LEMMA BusFailureKeeps ==
    ASSUME TransferInv, AdlinkFails \/ TransferFails
    PROVE  TransferInv'
  <1>1. call.op \in {"read", "write"} /\ kind # "Dummy"
        /\ UNCHANGED <<kind, changes, accesses>>
    BY DEF AdlinkFails, TransferFails, setup
  <1>2. /\ InProgress(call) /\ call \in Access /\ call.pos < call.count
        /\ call.pos \in Nat /\ call.count \in Nat
        /\ kind # "Adlink" => call.pos = 0
    BY <1>1 DEF TransferInv, InProgress, Access
  <1>3. CASE AdlinkFails
    <2>1. WriteBlock(call) \in 0..(call.count - call.pos)
      BY <1>2, Blocks
    <2>2. \/ memory' = memory
          \/ call.op = "write" /\ memory' = Put(memory, call, WriteBlock(call))
      BY <1>3 DEF AdlinkFails
    <2>3. -1 \in Int /\ ~(-1 > 0)
      OBVIOUS
    <2>4. \/ \E v \in Int : Return(v) /\ ~(v > 0)
          \/ call' = [call EXCEPT !.retry = TRUE] /\ UNCHANGED result
      BY <1>3, <2>3 DEF AdlinkFails
    <2> QED BY <1>1, <2>1, <2>2, <2>4, FailureKeeps
  <1>4. CASE TransferFails
    <2>1. \/ call.op = "read" /\ \E n \in 0..0 : memory' = Put(memory, call, n)
          \/ /\ call.op = "write"
             /\ \E n \in 0..call.count : memory' = Put(memory, call, n)
          \/ \E n \in 0..0 : memory' = Put(memory, call, n)
      BY <1>1, <1>4 DEF TransferFails
    <2>2. Put(memory, call, 0) = memory
      BY <1>2, NothingPut DEF TransferInv
    <2>3. \A n \in 0..0 : n = 0
      OBVIOUS
    <2>4. call.count - call.pos = call.count
      BY <1>2, <1>4 DEF TransferFails
    <2>5. \/ memory' = memory
          \/ /\ call.op = "write"
             /\ \E n \in 0..(call.count - call.pos) : memory' = Put(memory, call, n)
      BY <2>1, <2>2, <2>3, <2>4
    <2>6. \A op : kind \in {"Congatec", "Dev", "TinyUSB"} =>
             ErrorValue(op) \subseteq {-1, -2, 0}
      BY DEF ErrorValue
    <2>7. \A v \in {-1, -2, 0} : v \in Int /\ ~(v > 0)
      OBVIOUS
    <2>8. \E v \in Int : Return(v) /\ ~(v > 0)
      BY <1>4, <2>6, <2>7 DEF TransferFails
    <2> QED BY <1>1, <2>5, <2>8, FailureKeeps
  <1> QED BY <1>3, <1>4

\* The transfers of the communicators that need no blocks.
LEMMA InOneTransfer ==
    ASSUME TransferInv, call.op \in {"read", "write"},
           kind \in {"Congatec", "Dev", "TinyUSB"}
    PROVE  /\ InProgress(call) /\ call \in Access /\ call.seen \subseteq Memories
           /\ memory \in Memories /\ call.pos = 0 /\ call.count \in Nat
           /\ call.offset \in Cells /\ call.offset \in Nat
           /\ call.offset + call.count <= MemorySize
           /\ AccessFields = DOMAIN call
  BY BusNumbers, AccessDomain DEF TransferInv, InProgress, Access

LEMMA OffsetKeeps ==
    ASSUME TransferInv, WriteOffset \/ OffsetLost
    PROVE  TransferInv'
  <1>1. /\ kind \in {"Congatec", "Dev", "TinyUSB"} /\ call.op = "read"
        /\ call.from = NoOffset /\ UNCHANGED <<kind, memory, changes, accesses>>
    BY DEF WriteOffset, OffsetLost, Moved, setup
  <1>2. /\ InProgress(call) /\ call \in Access /\ memory \in Memories
        /\ call.offset \in Cells /\ AccessFields = DOMAIN call
    BY <1>1, InOneTransfer
  <1>3. CASE \E o \in Cells, e \in BOOLEAN :
                /\ call' = [call EXCEPT !.from = o, !.exact = e]
                /\ kind = "TinyUSB" \/ e = call.exact
                /\ e => o = call.offset
                /\ result' = result
    <2>1. PICK o \in Cells, e \in BOOLEAN :
             /\ call' = [call EXCEPT !.from = o, !.exact = e]
             /\ kind = "TinyUSB" \/ e = call.exact
             /\ e => o = call.offset
             /\ result' = result
      BY <1>3
    <2>2. /\ call' \in Access /\ call'.op = "read" /\ call'.data = call.data
          /\ call'.offset = call.offset /\ call'.count = call.count
          /\ call'.pos = call.pos /\ call'.buf = call.buf
          /\ call'.seen = call.seen /\ call'.stamp = call.stamp
          /\ call'.from = o /\ call'.exact = e
      BY <1>1, <1>2, <2>1 DEF Access
    <2>3. "op" \in DOMAIN call'
      BY <2>2 DEF Access
    <2>4. TakenUpTo(call', call'.buf, call'.pos)
      BY <1>1, <1>2, <2>2 DEF InProgress, TakenUpTo
    <2>5. InProgress(call)'
      BY <1>1, <1>2, <2>1, <2>2, <2>4 DEF InProgress
    <2>6. TransfersTruthful'
      BY <1>1, <2>1, <2>2, StillTruthful DEF TransferInv
    <2> QED BY <1>1, <1>2, <2>3, <2>5, <2>6 DEF TransferInv
  <1>4. CASE OffsetLost
    <2>1. PICK o \in Cells : call' = [call EXCEPT !.from = o, !.exact = FALSE]
      BY <1>4 DEF OffsetLost
    <2> QED BY <1>3, <1>4, <2>1 DEF OffsetLost
  <1>5. CASE WriteOffset
    <2>1. CASE call' = [call EXCEPT !.from = call.offset] /\ UNCHANGED result
      <3>1. call.exact \in BOOLEAN
        BY <1>2 DEF Access
      <3>2. [call EXCEPT !.from = call.offset] =
               [call EXCEPT !.from = call.offset, !.exact = call.exact]
        BY <1>2 DEF AccessFields
      <3> QED BY <1>2, <1>3, <2>1, <3>1, <3>2
    <2>2. CASE \E n : /\ kind = "Dev" /\ call' = Idle
                      /\ result' = Done([call EXCEPT !.exact = FALSE], n)
      <3> DEFINE c == [call EXCEPT !.exact = FALSE]
      <3>1. PICK n : kind = "Dev" /\ call' = Idle /\ result' = Done(c, n)
        BY <2>2
      <3>2. DOMAIN c = AccessFields /\ c.op = "read" /\ c.exact = FALSE
        BY <1>1, <1>2 DEF AccessFields
      <3> HIDE DEF c
      <3>3. Unconfirmed(c)
        BY <3>1, <3>2 DEF Unconfirmed
      <3>4. TransfersTruthful'
        BY <1>1, <3>1, <3>2, <3>3, ReadReturns
      <3> QED BY <1>1, <1>2, <3>1, <3>4 DEF TransferInv, Idle
    <2> QED BY <1>5, <2>1, <2>2 DEF WriteOffset
  <1> QED BY <1>4, <1>5

\* What arrives from the board when the offset is the one that was asked for.
LEMMA WindowsFrom ==
    ASSUME NEW mem \in Memories, NEW offset \in Nat, NEW n \in Nat,
           offset + n <= MemorySize
    PROVE  /\ Len(WindowFrom(mem, offset, n)) = n
           /\ \A i \in 1..n :
                 WindowFrom(mem, offset, n)[i] = mem[offset + i - 1]
  <1>1. \A i \in 1..n : offset + i - 1 \in Nat /\ offset + i - 1 < MemorySize
    BY BusNumbers
  <1>2. \A i \in 1..n : (offset + i - 1) % MemorySize = offset + i - 1
    BY <1>1, BusNumbers, SmallRemainder
  <1>3. \A i \in 1..n : mem[offset + i - 1] \in Int
    BY <1>1, BusNumbers DEF Memories
  <1>4. WindowFrom(mem, offset, n) = [i \in 1..n |-> mem[offset + i - 1]]
    BY <1>2 DEF WindowFrom
  <1>5. WindowFrom(mem, offset, n) \in [1..n -> Int]
    BY <1>3, <1>4
  <1> QED BY <1>4, <1>5

LEMMA ReadBytesKeeps ==
    ASSUME TransferInv, ReadBytes
    PROVE  TransferInv'
  <1> DEFINE k == call.count
  <1>1. /\ kind \in {"Congatec", "Dev", "TinyUSB"} /\ call.op = "read"
        /\ call.from # NoOffset /\ call' = Idle
        /\ UNCHANGED <<kind, memory, changes, accesses>>
    BY DEF ReadBytes, Moved, setup
  <1>2. /\ InProgress(call) /\ call \in Access /\ memory \in Memories
        /\ k \in Nat /\ call.offset \in Nat
        /\ call.offset + k <= MemorySize /\ AccessFields = DOMAIN call
    BY <1>1, InOneTransfer
  <1>3. /\ memory \in call.seen
        /\ call.exact => call.from = call.offset
        /\ kind # "TinyUSB" => call.exact
    BY <1>1, <1>2 DEF InProgress
  <1>4. PICK n \in Moved(k) :
           LET bytes == WindowFrom(memory, call.from, n) IN
           IF kind = "Dev"
           THEN result' = Done([call EXCEPT !.buf = bytes], n)
           ELSE result' = Done([call EXCEPT !.buf = Filled(bytes, k),
                                            !.exact = @ /\ n = k], k)
    BY DEF ReadBytes
  <1>5. n \in Nat /\ n <= k /\ call.offset + n <= MemorySize
    <2>1. n \in 0..k
      BY <1>1, <1>2 DEF Moved
    <2> HIDE DEF k
    <2> QED BY <1>2, <2>1, BusNumbers
  <1> DEFINE w == WindowFrom(memory, call.from, n)
  <1>6. call.exact => /\ Len(w) = n
                      /\ \A i \in 1..n : w[i] = memory[call.offset + i - 1]
    BY <1>2, <1>3, <1>5, WindowsFrom
  <1> HIDE DEF w
  <1>7. TransfersTruthful'
    <2>1. CASE kind = "Dev"
      <3> DEFINE c == [call EXCEPT !.buf = w]
      <3>1. result' = Done(c, n)
        BY <1>4, <2>1 DEF w
      <3>2. /\ DOMAIN c = AccessFields /\ c.op = "read" /\ c.buf = w
            /\ c.seen = call.seen /\ c.offset = call.offset
        BY <1>1, <1>2 DEF AccessFields
      <3> HIDE DEF c
      <3>3. Len(c.buf) = n /\ TakenUpTo(c, c.buf, n)
        BY <1>3, <1>6, <2>1, <3>2 DEF TakenUpTo
      <3> QED BY <1>1, <3>1, <3>2, <3>3, ReadReturns
    <2>2. CASE kind # "Dev"
      <3> DEFINE b == Filled(w, k)
                 c == [call EXCEPT !.buf = b, !.exact = call.exact /\ n = k]
      <3>1. result' = Done(c, k)
        BY <1>4, <2>2 DEF w
      <3>2. /\ DOMAIN c = AccessFields /\ c.op = "read" /\ c.buf = b
            /\ c.seen = call.seen /\ c.offset = call.offset
            /\ c.exact = (call.exact /\ n = k)
        BY <1>1, <1>2 DEF AccessFields
      <3> HIDE DEF c
      <3>3. ASSUME ~Unconfirmed(c)
            PROVE  Len(b) = k /\ TakenUpTo(c, b, k)
        <4>1. call.exact /\ n = k
          <5>1. CASE kind = "TinyUSB"
            BY <3>2, <3>3, <5>1 DEF Unconfirmed
          <5>2. CASE kind # "TinyUSB"
            BY <1>1, <1>3, <2>2, <5>2 DEF Moved
          <5> QED BY <5>1, <5>2
        <4>2. Len(w) = k /\ \A i \in 1..k : w[i] = memory[call.offset + i - 1]
          BY <1>6, <4>1
        <4>3. \A i \in 1..k : memory[call.offset + i - 1] \in Int
          <5> HIDE DEF k
          <5> QED BY <1>2, BusNumbers DEF Memories
        <4>4. b = [i \in 1..k |-> memory[call.offset + i - 1]]
          <5> HIDE DEF k
          <5> QED BY <1>2, <4>2 DEF Filled
        <4>5. b \in [1..k -> Int]
          BY <4>3, <4>4
        <4> HIDE DEF b, k
        <4>6. Len(b) = k
          BY <1>2, <4>5
        <4>7. \A i \in 1..k : b[i] = memory[call.offset + i - 1]
          BY <4>4
        <4> QED BY <1>3, <3>2, <4>6, <4>7 DEF TakenUpTo
      <3> QED BY <1>1, <3>1, <3>2, <3>3, ReadReturns
    <2> QED BY <2>1, <2>2
  <1> QED BY <1>1, <1>2, <1>7 DEF TransferInv, Idle

LEMMA WriteBytesKeeps ==
    ASSUME TransferInv, WriteBytes
    PROVE  TransferInv'
  <1> DEFINE k == call.count
  <1>1. /\ kind \in {"Congatec", "Dev", "TinyUSB"} /\ call.op = "write"
        /\ call' = Idle /\ UNCHANGED <<kind, changes, accesses>>
    BY DEF WriteBytes, Moved, setup
  <1>2. /\ InProgress(call) /\ call \in Access /\ memory \in Memories
        /\ call.seen \subseteq Memories /\ call.pos = 0
        /\ k \in Nat /\ call.offset \in Nat /\ AccessFields = DOMAIN call
    BY <1>1, InOneTransfer
  <1>3. ArrivedUpTo(call, memory, call.pos) /\ OutsideKept(call, memory)
    BY <1>1, <1>2 DEF InProgress
  <1>4. PICK n \in Moved(k + 2) :
           /\ memory' = Put(memory, call, Behind(n))
           /\ result' = IF kind = "Dev" THEN Done(call, n)
                        ELSE Done([call EXCEPT !.exact = (n = k + 2)], k)
    BY DEF WriteBytes
  <1>5. /\ n \in Nat /\ Behind(n) \in Nat /\ Behind(n) <= k /\ n - 2 <= Behind(n)
        /\ n = k + 2 => Behind(n) = k
    <2>1. n \in 0..(k + 2)
      BY <1>1, <1>2 DEF Moved
    <2> HIDE DEF k
    <2> QED BY <1>2, <2>1 DEF Behind
  <1>6. /\ memory' \in Memories /\ OutsideKept(call, memory')
        /\ ArrivedUpTo(call, memory', Behind(n))
    <2>1. call.pos + Behind(n) = Behind(n)
      BY <1>2, <1>5
    <2> QED BY <1>2, <1>3, <1>4, <1>5, <2>1, BlockWritten
  <1>7. TransfersTruthful'
    <2>1. CASE kind = "Dev"
      <3>1. ArrivedUpTo(call, memory', n - 2)
        <4>1. \A x \in Cells : x < call.offset + (n - 2) => x < call.offset + Behind(n)
          BY <1>2, <1>5, BusNumbers
        <4> QED BY <1>6, <4>1 DEF ArrivedUpTo
      <3> QED BY <1>1, <1>2, <1>4, <1>6, <2>1, <3>1, WriteReturns
    <2>2. CASE kind # "Dev"
      <3> DEFINE c == [call EXCEPT !.exact = (n = k + 2)]
      <3>1. result' = Done(c, k)
        BY <1>4, <2>2
      <3>2. /\ DOMAIN c = AccessFields /\ c.op = "write" /\ c.data = call.data
            /\ c.seen = call.seen /\ c.offset = call.offset /\ c.count = k
            /\ c.stamp = call.stamp /\ c.exact = (n = k + 2)
        BY <1>1, <1>2 DEF AccessFields
      <3> HIDE DEF c
      <3>3. OutsideKept(c, memory')
        BY <1>6, <3>2 DEF OutsideKept
      <3>4. Unconfirmed(c) \/ ArrivedUpTo(c, memory', k)
        <4>1. kind = "Congatec" => n = k + 2
          BY <1>1 DEF Moved
        <4>2. Unconfirmed(c) \/ n = k + 2
          BY <1>1, <2>2, <3>2, <4>1 DEF Unconfirmed
        <4> QED BY <1>5, <1>6, <3>2, <4>2 DEF ArrivedUpTo
      <3> QED BY <1>1, <2>2, <3>1, <3>2, <3>3, <3>4, WriteReturns
    <2> QED BY <2>1, <2>2
  <1> QED BY <1>1, <1>6, <1>7 DEF TransferInv, Idle

LEMMA StatusUnreadKeeps ==
    ASSUME TransferInv, StatusUnread
    PROVE  TransferInv'
  <1> DEFINE c == [call EXCEPT !.buf = Filled(<<>>, call.count), !.exact = FALSE]
  <1>1. /\ kind = "TinyUSB" /\ call.op \in {"read", "write"} /\ call' = Idle
        /\ result' = Done(c, call.count)
        /\ UNCHANGED <<kind, changes, accesses>>
    BY DEF StatusUnread, setup
  <1>2. /\ InProgress(call) /\ call \in Access /\ memory \in Memories
        /\ call.seen \subseteq Memories /\ call.pos = 0 /\ call.count \in Nat
        /\ AccessFields = DOMAIN call
    BY <1>1, InOneTransfer
  <1>3. /\ DOMAIN c = AccessFields /\ c.op = call.op /\ c.exact = FALSE
        /\ c.seen = call.seen /\ c.offset = call.offset /\ c.count = call.count
    BY <1>2 DEF AccessFields
  <1> HIDE DEF c
  <1>4. Unconfirmed(c)
    BY <1>1, <1>3 DEF Unconfirmed
  <1>5. PICK n \in 0..call.count :
           /\ memory' = Put(memory, call, n)
           /\ call.op = "read" => n = 0
    BY <1>2 DEF StatusUnread
  <1>6. n \in Nat /\ call.pos + n <= call.count
    BY <1>2
  <1>7. CASE call.op = "read"
    <2>1. memory' = memory
      BY <1>2, <1>5, <1>7, NothingPut
    <2>2. TransfersTruthful'
      BY <1>1, <1>3, <1>4, <1>7, ReadReturns
    <2> QED BY <1>1, <1>2, <2>1, <2>2 DEF TransferInv, Idle
  <1>8. CASE call.op = "write"
    <2>1. OutsideKept(call, memory)
      BY <1>2, <1>8 DEF InProgress
    <2>2. memory' \in Memories /\ OutsideKept(call, memory')
      BY <1>2, <1>5, <1>6, <2>1, BlockWritten
    <2>3. OutsideKept(c, memory')
      BY <1>3, <2>2 DEF OutsideKept
    <2>4. TransfersTruthful'
      BY <1>1, <1>3, <1>4, <1>8, <2>3, WriteReturns
    <2> QED BY <1>1, <2>2, <2>4 DEF TransferInv, Idle
  <1> QED BY <1>1, <1>7, <1>8

\* The bytes that the dummy takes are where the daemon puts its messages.
LEMMA DummyTypeBytes ==
    LET size == (MemorySize - HeaderBytes) \div SLOTS
    IN  \A i \in 0..(SLOTS - 1) :
            messageOffset(DummyHeader, i) =
                HeaderBytes + (IF SLOTS > 1 THEN i * size ELSE 0)
  <1> DEFINE h == DummyHeader
             a == MemorySize - HeaderBytes
  <1>1. /\ SLOTS \in Nat \ {0} /\ HeaderBytes \in Nat /\ a \in Nat
        /\ a < SizeLimit /\ SizeLimit \in Nat \ {0}
    BY BusAssumption, SegmentAssumption DEF BusAssumption, SegmentAssumption
  <1>2. /\ h.size = MemorySize /\ h.maxSlots = SLOTS /\ h.version = 3
        /\ h.dynamicAreaOffset = HeaderBytes
    BY DEF DummyHeader
  <1>3. AreaOffset(h) = HeaderBytes
    BY <1>2 DEF AreaOffset
  <1>4. AreaSize(h) = a % SizeLimit
    BY <1>2, <1>3 DEF AreaSize
  <1>5. AreaSize(h) = a
    <2> HIDE DEF a, h
    <2> QED BY <1>1, <1>4, SmallRemainder
  <1>6. SLOTS > 1 => messageMaxSize(h) = a \div SLOTS
    BY <1>2, <1>5 DEF messageMaxSize
  <1> HIDE DEF h, a
  <1>7. ASSUME NEW i \in 0..(SLOTS - 1)
        PROVE  messageOffset(h, i) =
                  HeaderBytes + (IF SLOTS > 1 THEN i * (a \div SLOTS) ELSE 0)
    <2>1. CASE SLOTS > 1
      BY <1>2, <1>3, <1>6, <2>1 DEF messageOffset
    <2>2. CASE ~(SLOTS > 1)
      BY <1>1, <1>2, <1>3, <2>2 DEF messageOffset
    <2> QED BY <2>1, <2>2
  <1> QED BY <1>7 DEF h, a

LEMMA MarkedBytes ==
    ASSUME NEW mem \in Memories
    PROVE  /\ Marked(mem) \in Memories
           /\ \A x \in Cells :
                 Marked(mem)[x] = IF x \in TypeBytes THEN 0 ELSE mem[x]
  <1> DEFINE size == (MemorySize - HeaderBytes) \div SLOTS
             At0(x) == \E i \in 0..(SLOTS - 1) :
                          x = HeaderBytes + (IF SLOTS > 1 THEN i * size ELSE 0)
  <1>1. \A x : At0(x) <=> x \in TypeBytes
    BY DummyTypeBytes DEF TypeBytes
  <1>2. Marked(mem) = [x \in Cells |-> IF At0(x) THEN 0 ELSE mem[x]]
    BY DEF Marked
  <1> HIDE DEF At0
  <1>3. \A x \in Cells : mem[x] \in Int
    BY DEF Memories
  <1>4. Marked(mem) \in Memories
    BY <1>2, <1>3 DEF Memories
  <1> QED BY <1>1, <1>2, <1>4

LEMMA DummyKeeps ==
    ASSUME TransferInv, DummyAccess
    PROVE  TransferInv'
  <1> DEFINE k == Clipped(call)
  <1>1. /\ kind = "Dummy" /\ call.op \in {"read", "write"}
        /\ UNCHANGED <<kind, changes, accesses>> /\ call' = Idle
    BY DEF DummyAccess, setup, Return
  <1>2. /\ InProgress(call) /\ call \in Access /\ call.seen \subseteq Memories
        /\ memory \in Memories /\ call.pos = 0 /\ call.count \in Nat
        /\ call.offset \in Cells /\ call.offset \in Nat
    BY <1>1, BusNumbers DEF TransferInv, InProgress, Access
  <1>3. /\ k \in Nat /\ k <= call.count /\ call.offset + k <= MemorySize
        /\ \A x \in Cells : x < call.offset + call.count => x < call.offset + k
    <2> DEFINE o == call.offset
               n == call.count
    <2>1. o \in Nat /\ o < MemorySize /\ n \in Nat /\ MemorySize \in Nat
          /\ Cells \subseteq Nat /\ \A x \in Cells : x < MemorySize
      BY <1>2, BusNumbers
    <2>2. k = IF o + n > MemorySize THEN MemorySize - o ELSE n
      BY DEF Clipped
    <2> HIDE DEF o, n, k
    <2>3. /\ k \in Nat /\ k <= n /\ o + k <= MemorySize
          /\ \A x \in Cells : x < o + n => x < o + k
      BY <2>1, <2>2
    <2> QED BY <2>3 DEF o, n
  <1> HIDE DEF k
  <1>4. CASE call.op = "read"
    <2> DEFINE w == Window(memory, call.offset, k)
               c == [call EXCEPT !.buf = w]
    <2>1. result' = Done(c, k) /\ memory' = memory
      BY <1>4 DEF DummyAccess, k
    <2>2. /\ w \in Seq(Int) /\ Len(w) = k
          /\ \A i \in 1..k : w[i] = memory[call.offset + i - 1]
      BY <1>2, <1>3, Windows
    <2> HIDE DEF w
    <2>3. /\ c \in Access /\ c.buf = w /\ c.op = "read" /\ c.seen = call.seen
          /\ c.offset = call.offset /\ c.count = call.count
      BY <1>2, <1>4, <2>2 DEF Access
    <2> HIDE DEF c
    <2>4. memory \in call.seen
      BY <1>2, <1>4 DEF InProgress
    <2>5. TakenUpTo(c, c.buf, k)
      BY <2>2, <2>3, <2>4 DEF TakenUpTo
    <2>6. TransfersTruthful'
      BY <1>1, <2>1, <2>2, <2>3, <2>5, AccessDomain, ReadReturns
    <2> QED BY <1>1, <1>2, <2>1, <2>6 DEF TransferInv, Idle
  <1>5. CASE call.op = "write"
    <2> DEFINE mem == Put(memory, call, k)
    <2>1. memory' = Marked(mem) /\ result' = Done(call, k)
      BY <1>5 DEF DummyAccess, Return, k
    <2>2. /\ ArrivedUpTo(call, memory, call.pos) /\ OutsideKept(call, memory)
      BY <1>2, <1>5 DEF InProgress
    <2>3. call.pos + k = k
      BY <1>2, <1>3
    <2>4. /\ mem \in Memories /\ OutsideKept(call, mem)
          /\ ArrivedUpTo(call, mem, k)
      BY <1>2, <1>3, <2>2, <2>3, BlockWritten
    <2> HIDE DEF mem
    <2>5. /\ memory' \in Memories
          /\ \A x \in Cells : memory'[x] = IF x \in TypeBytes THEN 0 ELSE mem[x]
      BY <2>1, <2>4, MarkedBytes
    <2>6. /\ result'.op = "write" /\ result'.value = k
          /\ result'.data = call.data /\ result'.seen = call.seen
          /\ result'.offset = call.offset /\ result'.count = call.count
          /\ result'.stamp = call.stamp
      BY <1>2, <1>5, <2>1, AccessDomain, AccessDone
    <2>7. ASSUME NEW x \in Cells
          PROVE  /\ x >= call.offset /\ x < call.offset + call.count =>
                       mem[x] = call.data \/ mem[x] > call.stamp
                 /\ ~(x >= call.offset /\ x < call.offset + call.count) =>
                       \E m \in call.seen : mem[x] = m[x]
      <3>1. x >= call.offset /\ x < call.offset + call.count =>
               mem[x] = call.data \/ mem[x] > call.stamp
        BY <1>3, <2>4 DEF ArrivedUpTo
      <3>2. ~(x >= call.offset /\ x < call.offset + call.count) =>
               \E m \in call.seen : mem[x] = m[x]
        BY <2>4 DEF OutsideKept
      <3> QED BY <3>1, <3>2
    <2>8. WriteTruthful'
      <3> SUFFICES ASSUME NEW x \in Cells
                   PROVE  LET inside == /\ x >= call.offset
                                        /\ x < call.offset + call.count
                              taken == x \in TypeBytes
                          IN  /\ taken => memory'[x] = 0
                              /\ inside /\ ~taken =>
                                    memory'[x] = call.data
                                    \/ memory'[x] > call.stamp
                              /\ ~inside /\ ~taken =>
                                    \E m \in call.seen : memory'[x] = m[x]
        BY <1>1, <2>6 DEF WriteTruthful
      <3>1. memory'[x] = IF x \in TypeBytes THEN 0 ELSE mem[x]
        BY <2>5
      <3>2. CASE x \in TypeBytes
        BY <3>1, <3>2
      <3>3. CASE x \notin TypeBytes
        BY <2>7, <3>1, <3>3
      <3> QED BY <3>2, <3>3
    <2>9. ReadTruthful'
      BY <2>6 DEF ReadTruthful
    <2> QED BY <1>1, <2>5, <2>8, <2>9 DEF TransferInv, TransfersTruthful, Idle
  <1> QED BY <1>1, <1>4, <1>5

LEMMA BeginKeeps ==
    ASSUME TransferInv, readData \/ writeData
    PROVE  TransferInv'
  <1>1. PICK op \in {"read", "write"}, a \in Accesses, data \in Int :
           Begin(op, a[1], a[2], data)
    <2>1. 0 \in Int /\ -(accesses + 1) \in Int
      BY DEF TransferInv
    <2> QED BY <2>1 DEF readData, writeData
  <1>2. /\ UNCHANGED <<kind, memory, changes>>
        /\ accesses' = accesses + 1
    BY DEF readData, writeData, setup
  <1> DEFINE o == a[1]
             k == a[2]
  <1>3. /\ o \in Cells /\ k \in 1..MemorySize
        /\ kind # "Dummy" => o + k <= MemorySize
    BY DEF Accesses
  <1>4. k \in Nat /\ 0 < k
    BY <1>3, BusNumbers
  <1> HIDE DEF o, k
  <1>5. /\ call' = [op |-> op, offset |-> o, count |-> k, pos |-> 0,
                    from |-> NoOffset, exact |-> TRUE, retry |-> FALSE,
                    buf |-> <<>>, data |-> data, seen |-> {memory},
                    stamp |-> changes]
        /\ result' = Past
    BY <1>1 DEF Begin, o, k
  <1>6. memory \in Memories /\ changes \in Nat /\ <<>> \in Seq(Int) /\ Len(<<>>) = 0
    BY EmptySeq DEF TransferInv
  <1>7. /\ call' \in Access /\ call'.pos = 0 /\ call'.count = k /\ call'.buf = <<>>
        /\ call'.seen = {memory} /\ call'.stamp = changes /\ call'.offset = o
        /\ call'.op = op /\ "op" \in DOMAIN call'
        /\ call'.exact = TRUE /\ call'.from = NoOffset
    BY <1>3, <1>4, <1>5, <1>6 DEF Access
  <1>8. TakenUpTo(call', <<>>, 0)
    BY DEF TakenUpTo
  <1>9. ArrivedUpTo(call', memory, 0)
    <2>1. \A x \in Cells : ~(x >= o /\ x < o + 0)
      BY <1>3, BusNumbers
    <2> QED BY <1>7, <2>1 DEF ArrivedUpTo
  <1>10. OutsideKept(call', memory)
    BY <1>7 DEF OutsideKept
  <1>11. changes <= changes
    BY <1>6
  <1>12. InProgress(call)'
    BY <1>2, <1>3, <1>4, <1>6, <1>7, <1>8, <1>9, <1>10, <1>11 DEF InProgress
  <1>13. TransfersTruthful'
    BY <1>5 DEF Past, TransfersTruthful, ReadTruthful, WriteTruthful
  <1>14. accesses' \in Nat
    BY <1>2 DEF TransferInv
  <1> QED BY <1>2, <1>6, <1>7, <1>12, <1>13, <1>14 DEF TransferInv

\* The controller writes while a call is in progress.
LEMMA ControllerKeeps ==
    ASSUME TransferInv, ControllerChanges
    PROVE  TransferInv'
  <1>1. PICK z \in Cells : memory' = [memory EXCEPT ![z] = changes + 1]
    BY DEF ControllerChanges
  <1>2. /\ kind # "Dummy" /\ changes' = changes + 1
        /\ UNCHANGED <<kind, accesses>>
        /\ memory \in Memories /\ changes \in Nat /\ accesses \in Nat
    BY DEF ControllerChanges, setup, TransferInv
  <1>3. /\ memory' \in Memories /\ changes' \in Nat
        /\ \A x \in Cells : memory'[x] = IF x = z THEN changes + 1 ELSE memory[x]
    BY <1>1, <1>2 DEF Memories
  <1>4. TransfersTruthful'
    <2>1. result'.op \notin {"read", "write"}
      BY DEF ControllerChanges, Past
    <2> QED BY <2>1 DEF TransfersTruthful, ReadTruthful, WriteTruthful
  <1>5. CASE call.op \notin {"read", "write"}
    <2>1. call' = call
      BY <1>5 DEF ControllerChanges
    <2> QED BY <1>2, <1>3, <1>4, <1>5, <2>1 DEF TransferInv
  <1>6. CASE call.op \in {"read", "write"}
    <2> DEFINE S == call.seen \cup {memory'}
    <2>1. /\ InProgress(call) /\ call \in Access
          /\ call.seen \subseteq Memories /\ call.stamp \in Nat
          /\ call.stamp <= changes
      BY <1>6 DEF TransferInv, InProgress, Access
    <2>2. call' = [call EXCEPT !.seen = S]
      BY <1>6 DEF ControllerChanges
    <2>3. S \in SUBSET Memories /\ memory' \in S /\ call.seen \subseteq S
      BY <1>3, <2>1
    <2> HIDE DEF S
    <2>4. /\ call' \in Access /\ call'.op = call.op /\ call'.data = call.data
          /\ call'.offset = call.offset /\ call'.count = call.count
          /\ call'.pos = call.pos /\ call'.buf = call.buf
          /\ call'.seen = S /\ call'.stamp = call.stamp
          /\ call'.from = call.from /\ call'.exact = call.exact
      BY <2>1, <2>2, <2>3 DEF Access
    <2>5. "op" \in DOMAIN call'
      BY <2>4 DEF Access
    <2>6. call'.stamp <= changes' /\ changes + 1 > call.stamp
      BY <1>2, <2>1, <2>4
    <2>7. ASSUME call.op = "read"
          PROVE  TakenUpTo(call', call'.buf, call'.pos)
      <3>1. TakenUpTo(call, call.buf, call.pos)
        BY <2>1, <2>7 DEF InProgress
      <3> QED BY <2>3, <2>4, <3>1 DEF TakenUpTo
    <2>8. ASSUME call.op = "write"
          PROVE  ArrivedUpTo(call', memory', call'.pos)
      <3>1. ArrivedUpTo(call, memory, call.pos)
        BY <2>1, <2>8 DEF InProgress
      <3>2. ASSUME NEW x \in Cells, x >= call.offset, x < call.offset + call.pos
            PROVE  memory'[x] = call.data \/ memory'[x] > call.stamp
        <4>1. CASE x = z
          BY <1>3, <2>6, <4>1
        <4>2. CASE x # z
          BY <1>3, <3>1, <3>2, <4>2 DEF ArrivedUpTo
        <4> QED BY <4>1, <4>2
      <3> QED BY <2>4, <3>2 DEF ArrivedUpTo
    <2>9. OutsideKept(call', memory')
      BY <2>3, <2>4 DEF OutsideKept
    <2>10. InProgress(call)'
      BY <1>2, <2>1, <2>3, <2>4, <2>6, <2>7, <2>8, <2>9 DEF InProgress
    <2> QED BY <1>2, <1>3, <1>4, <2>5, <2>10 DEF TransferInv
  <1> QED BY <1>5, <1>6

\* Set-up, probing and the destructor do not touch the memory.
LEMMA OtherCallsKeep ==
    ASSUME TransferInv,
           \/ initInterface \/ Destroy
           \/ StartProbe \/ ProbeFound \/ ProbeGarbage \/ ProbeNext
    PROVE  TransferInv'
  <1>1. UNCHANGED <<memory, changes, accesses, kind>>
    BY DEF initInterface, Destroy, StartProbe, ProbeFound, ProbeGarbage,
       ProbeNext, setup
  <1>2. /\ call'.op \in {"idle", "probe"} /\ "op" \in DOMAIN call'
    BY DEF initInterface, Destroy, StartProbe, ProbeFound, ProbeGarbage,
       ProbeNext, Return, Idle
  <1>3. \/ result'.op \notin {"read", "write"}
        \/ result' = result /\ call'.op # "idle"
    <2>1. CASE ProbeFound
      <3>1. result' = Done(call, MemorySize) /\ call.op = "probe"
        BY <2>1 DEF ProbeFound, Return
      <3> QED BY <3>1, DoneCall DEF TransferInv
    <2>2. CASE ~ProbeFound
      BY <2>2 DEF initInterface, Destroy, StartProbe, ProbeGarbage, ProbeNext
    <2> QED BY <2>1, <2>2
  <1>4. TransfersTruthful'
    <2>1. CASE result'.op \notin {"read", "write"}
      BY <2>1 DEF TransfersTruthful, ReadTruthful, WriteTruthful
    <2>2. CASE result' = result /\ call'.op # "idle"
      BY <1>1, <2>2, StillTruthful DEF TransferInv
    <2> QED BY <1>3, <2>1, <2>2
  <1> QED BY <1>1, <1>2, <1>4 DEF TransferInv

(***************************************************************************)
(* What readData and writeData return is true of the memory, however many  *)
(* blocks, retries and accesses there are and whatever the controller      *)
(* writes in between, except for the results of Dev and TinyUSB that       *)
(* nothing vouches for (Unconfirmed).                                      *)
(***************************************************************************)
THEOREM TransfersAreTruthful == Spec => []TransfersTruthful
  <1>1. Init => TransferInv
    <2> SUFFICES ASSUME Init PROVE TransferInv
      OBVIOUS
    <2>1. /\ memory = [c \in Cells |-> 0] /\ call = Idle /\ result = Idle
          /\ changes = 0 /\ accesses = 0
      BY DEF Init, BusInit
    <2>2. memory \in Memories
      BY <2>1 DEF Memories
    <2> QED BY <2>1, <2>2 DEF TransferInv, TransfersTruthful, ReadTruthful,
                              WriteTruthful, Idle
  <1>2. TransferInv /\ [Next]_vars => TransferInv'
    <2> SUFFICES ASSUME TransferInv, [Next]_vars PROVE TransferInv'
      OBVIOUS
    <2>1. CASE UNCHANGED busVars
      BY <2>1 DEF busVars, setup, TransferInv, InProgress, TransfersTruthful,
         ReadTruthful, WriteTruthful, Unconfirmed, Claimed
    <2>2. CASE BusNext
      BY <2>2, OtherCallsKeep, BeginKeeps, AdlinkReadKeeps, AdlinkWriteKeeps,
         BusFailureKeeps, OffsetKeeps, ReadBytesKeeps, WriteBytesKeeps,
         StatusUnreadKeeps, DummyKeeps, ControllerKeeps
         DEF BusNext
    <2> QED BY <2>1, <2>2 DEF Next, vars
  <1>3. TransferInv => TransfersTruthful
    BY DEF TransferInv
  <1> QED BY <1>1, <1>2, <1>3, PTL DEF Spec

-----------------------------------------------------------------------------
(* The serial line.  What the provider received for its request, what has  *)
(* arrived and what the module has yet to send are one stream of bytes,    *)
(* which requests lengthen at its end and reading shortens at its front.   *)

AnyRequest == [letter : {"d", "m"}, number : Nat]
Mark == {[letter |-> "d"], [letter |-> "m"]}
Bytes == AnyRequest \cup Mark \cup {Cr, Nl}

Stream == received \o (line \o pending)

\* What comes after a byte of an answer is text of the same kind, or its end.
Follows(b, next) ==
    next = Cr \/ (next \in AnyRequest /\ next.letter = b.letter)

\* A stream of answers, of which the first may have lost its beginning.
AnswerStream(s) ==
    /\ s \in Seq(Bytes)
    /\ \A k \in 1..Len(s) :
          /\ s[k] \in AnyRequest => k < Len(s) /\ Follows(s[k], s[k + 1])
          /\ s[k] \in Mark => k + 3 <= Len(s) /\ Follows(s[k], s[k + 3])

\* The kinds of bytes can be told apart.
LEMMA BytesDiffer ==
    /\ Cr # Nl /\ Cr \notin Mark /\ Nl \notin Mark
    /\ \A r \in AnyRequest :
          /\ r # Cr /\ r # Nl /\ r \notin Mark
          /\ Letter(r) \in Mark /\ Letter(r).letter = r.letter
          /\ Letter(r) \notin AnyRequest /\ Letter(r) # Cr /\ Letter(r) # Nl
    /\ Cr \notin AnyRequest /\ Nl \notin AnyRequest
  <1>1. Cr.letter = "cr" /\ Nl.letter = "nl"
    BY DEF Cr, Nl
  <1>2. \A m \in Mark : m.letter \in {"d", "m"} /\ DOMAIN m = {"letter"}
    BY DEF Mark
  <1>3. \A r \in AnyRequest :
           r.letter \in {"d", "m"} /\ DOMAIN r = {"letter", "number"}
    BY DEF AnyRequest
  <1>4. {"letter"} # {"letter", "number"}
    <2>1. "number" \notin {"letter"}
      OBVIOUS
    <2> QED BY <2>1
  <1>5. \A r \in AnyRequest : Letter(r) \in Mark /\ Letter(r).letter = r.letter
    BY <1>3 DEF Letter, Mark
  <1> QED BY <1>1, <1>2, <1>3, <1>4, <1>5

\* The bytes of an answer.
LEMMA AnswerBytes ==
    ASSUME NEW r \in AnyRequest, NEW n \in Nat
    PROVE  LET a == Answer(r, n) IN
           /\ a \in Seq(Bytes) /\ Len(a) = n + 5
           /\ a[1] = Letter(r) /\ a[2] = Cr /\ a[3] = Nl
           /\ \A i \in 4..(n + 3) : a[i] = r
           /\ a[n + 4] = Cr /\ a[n + 5] = Nl
  <1> DEFINE e == Echo(r)
             t == [i \in 1..n |-> r]
             z == <<Cr, Nl>>
  <1>0. r \in Bytes /\ Letter(r) \in Bytes /\ Cr \in Bytes /\ Nl \in Bytes
    BY BytesDiffer DEF Bytes
  <1>1. e \in Seq(Bytes) /\ Len(e) = 3 /\ e[1] = Letter(r) /\ e[2] = Cr
        /\ e[3] = Nl
    BY <1>0 DEF Echo
  <1>2. t \in Seq(Bytes) /\ Len(t) = n /\ \A i \in 1..n : t[i] = r
    BY <1>0
  <1>3. z \in Seq(Bytes) /\ Len(z) = 2 /\ z[1] = Cr /\ z[2] = Nl
    BY <1>0
  <1>4. Answer(r, n) = (e \o t) \o z
    BY DEF Answer
  <1> HIDE DEF e, t, z
  <1> DEFINE et == e \o t
  <1>5. /\ et \in Seq(Bytes) /\ Len(et) = n + 3
        /\ et[1] = Letter(r) /\ et[2] = Cr /\ et[3] = Nl
        /\ \A i \in 4..(n + 3) : et[i] = r
    <2>1. /\ et \in Seq(Bytes) /\ Len(et) = Len(e) + Len(t)
          /\ \A i \in 1..(Len(e) + Len(t)) :
                et[i] = IF i <= Len(e) THEN e[i] ELSE t[i - Len(e)]
      BY <1>1, <1>2, ConcatProperties
    <2> HIDE DEF et
    <2> QED BY <1>1, <1>2, <2>1
  <1> DEFINE a == et \o z
  <1>6. /\ a \in Seq(Bytes) /\ Len(a) = Len(et) + Len(z)
        /\ \A i \in 1..(Len(et) + Len(z)) :
              a[i] = IF i <= Len(et) THEN et[i] ELSE z[i - Len(et)]
    <2> HIDE DEF et
    <2> QED BY <1>3, <1>5, ConcatProperties
  <1>7. a = Answer(r, n)
    BY <1>4
  <1> HIDE DEF a, et
  <1>8. /\ a \in Seq(Bytes) /\ Len(a) = n + 5
        /\ a[1] = Letter(r) /\ a[2] = Cr /\ a[3] = Nl
        /\ \A i \in 4..(n + 3) : a[i] = r
        /\ a[n + 4] = Cr /\ a[n + 5] = Nl
    BY <1>3, <1>5, <1>6
  <1> QED BY <1>7, <1>8

\* An answer is a stream of answers.
LEMMA AnswerIsStream ==
    ASSUME NEW r \in AnyRequest, NEW n \in Nat
    PROVE  AnswerStream(Answer(r, n))
  <1> DEFINE a == Answer(r, n)
  <1>1. /\ a \in Seq(Bytes) /\ Len(a) = n + 5
        /\ a[1] = Letter(r) /\ a[2] = Cr /\ a[3] = Nl
        /\ \A i \in 4..(n + 3) : a[i] = r
        /\ a[n + 4] = Cr /\ a[n + 5] = Nl
    BY AnswerBytes
  <1> HIDE DEF a
  <1>2. Letter(r).letter = r.letter /\ Letter(r) \notin AnyRequest
    BY BytesDiffer
  <1>3. a[4] \in {r, Cr}
    <2>1. CASE n = 0
      BY <1>1, <2>1
    <2>2. CASE n # 0
      BY <1>1, <2>2
    <2> QED BY <2>1, <2>2
  <1>4. \A i \in 4..(n + 3) : a[i + 1] \in {r, Cr}
    BY <1>1
  <1>5. ASSUME NEW k \in 1..Len(a)
        PROVE  /\ a[k] \in AnyRequest =>
                     k < Len(a) /\ Follows(a[k], a[k + 1])
               /\ a[k] \in Mark => k + 3 <= Len(a) /\ Follows(a[k], a[k + 3])
    <2>1. k = 1 \/ k = 2 \/ k = 3 \/ k \in 4..(n + 3) \/ k = n + 4 \/ k = n + 5
      BY <1>1
    <2>2. CASE k = 1
      BY <1>1, <1>2, <1>3, <2>2 DEF Follows
    <2>3. CASE k \in {2, 3, n + 4, n + 5}
      BY <1>1, <2>3, BytesDiffer
    <2>4. CASE k \in 4..(n + 3)
      BY <1>1, <1>4, <2>4, BytesDiffer DEF Follows
    <2> QED BY <2>1, <2>2, <2>3, <2>4
  <1>6. AnswerStream(a)
    BY <1>1, <1>5 DEF AnswerStream
  <1> QED BY <1>6 DEF a

\* Answers follow answers.
LEMMA AnswersJoin ==
    ASSUME NEW s, NEW t, AnswerStream(s), AnswerStream(t)
    PROVE  AnswerStream(s \o t)
  <1> DEFINE u == s \o t
  <1>1. /\ s \in Seq(Bytes) /\ t \in Seq(Bytes)
        /\ Len(s) \in Nat /\ Len(t) \in Nat
    BY DEF AnswerStream
  <1>2. /\ u \in Seq(Bytes) /\ Len(u) = Len(s) + Len(t)
        /\ \A i \in 1..(Len(s) + Len(t)) :
              u[i] = IF i <= Len(s) THEN s[i] ELSE t[i - Len(s)]
    BY <1>1, ConcatProperties
  <1> HIDE DEF u
  <1>3. ASSUME NEW k \in 1..Len(u)
        PROVE  /\ u[k] \in AnyRequest =>
                     k < Len(u) /\ Follows(u[k], u[k + 1])
               /\ u[k] \in Mark => k + 3 <= Len(u) /\ Follows(u[k], u[k + 3])
    <2>1. CASE k <= Len(s)
      <3>1. k \in 1..Len(s) /\ u[k] = s[k]
        BY <1>1, <1>2, <2>1
      <3>2. /\ s[k] \in AnyRequest => k < Len(s) /\ Follows(s[k], s[k + 1])
            /\ s[k] \in Mark => k + 3 <= Len(s) /\ Follows(s[k], s[k + 3])
        BY <3>1 DEF AnswerStream
      <3>3. k < Len(s) => u[k + 1] = s[k + 1] /\ k < Len(u)
        BY <1>1, <1>2
      <3>4. k + 3 <= Len(s) => u[k + 3] = s[k + 3] /\ k + 3 <= Len(u)
        BY <1>1, <1>2
      <3> QED BY <3>1, <3>2, <3>3, <3>4
    <2>2. CASE k > Len(s)
      <3> DEFINE j == k - Len(s)
      <3>1. j \in 1..Len(t) /\ u[k] = t[j]
        BY <1>1, <1>2, <2>2
      <3>2. /\ t[j] \in AnyRequest => j < Len(t) /\ Follows(t[j], t[j + 1])
            /\ t[j] \in Mark => j + 3 <= Len(t) /\ Follows(t[j], t[j + 3])
        BY <3>1 DEF AnswerStream
      <3>0. (k + 1) - Len(s) = j + 1 /\ (k + 3) - Len(s) = j + 3
        BY <1>1
      <3>3. j < Len(t) => u[k + 1] = t[j + 1] /\ k < Len(u)
        BY <1>1, <1>2, <2>2, <3>0
      <3>4. j + 3 <= Len(t) => u[k + 3] = t[j + 3] /\ k + 3 <= Len(u)
        BY <1>1, <1>2, <2>2, <3>0
      <3> QED BY <3>1, <3>2, <3>3, <3>4
    <2> QED BY <1>1, <1>2, <2>1, <2>2
  <1>4. AnswerStream(u)
    BY <1>2, <1>3 DEF AnswerStream
  <1> QED BY <1>4 DEF u

\* What is left when the front of a stream was read.
LEMMA AnswersLeft ==
    ASSUME NEW s \in Seq(Bytes), NEW t \in Seq(Bytes), AnswerStream(s \o t)
    PROVE  AnswerStream(t)
  <1> DEFINE u == s \o t
  <1>1. Len(s) \in Nat /\ Len(t) \in Nat
    OBVIOUS
  <1>2. /\ u \in Seq(Bytes) /\ Len(u) = Len(s) + Len(t)
        /\ \A i \in 1..(Len(s) + Len(t)) :
              u[i] = IF i <= Len(s) THEN s[i] ELSE t[i - Len(s)]
    BY ConcatProperties
  <1>3. AnswerStream(u)
    OBVIOUS
  <1> HIDE DEF u
  <1>4. ASSUME NEW j \in 1..Len(t)
        PROVE  /\ t[j] \in AnyRequest =>
                     j < Len(t) /\ Follows(t[j], t[j + 1])
               /\ t[j] \in Mark => j + 3 <= Len(t) /\ Follows(t[j], t[j + 3])
    <2> DEFINE k == j + Len(s)
    <2>0. /\ k \in (Len(s) + 1)..(Len(s) + Len(t)) /\ k - Len(s) = j
          /\ (k + 1) - Len(s) = j + 1 /\ (k + 3) - Len(s) = j + 3
      BY <1>1
    <2> HIDE DEF k
    <2>1. k \in 1..Len(u) /\ u[k] = t[j]
      <3>1. k \in 1..(Len(s) + Len(t)) /\ ~(k <= Len(s))
        BY <1>1, <2>0
      <3>2. u[k] = t[k - Len(s)]
        BY <1>2, <3>1
      <3> QED BY <1>2, <2>0, <3>1, <3>2
    <2>2. /\ u[k] \in AnyRequest => k < Len(u) /\ Follows(u[k], u[k + 1])
          /\ u[k] \in Mark => k + 3 <= Len(u) /\ Follows(u[k], u[k + 3])
      BY <1>3, <2>1 DEF AnswerStream
    <2>3. k < Len(u) => j < Len(t) /\ u[k + 1] = t[j + 1]
      BY <1>1, <1>2, <2>0
    <2>4. k + 3 <= Len(u) => j + 3 <= Len(t) /\ u[k + 3] = t[j + 3]
      BY <1>1, <1>2, <2>0
    <2> QED BY <2>1, <2>2, <2>3, <2>4
  <1> QED BY <1>4 DEF AnswerStream

\* A sequence of bytes in two parts.
LEMMA Halves ==
    ASSUME NEW s \in Seq(Bytes), NEW n \in 1..Len(s)
    PROVE  /\ SubSeq(s, 1, n) \in Seq(Bytes)
           /\ SubSeq(s, n + 1, Len(s)) \in Seq(Bytes)
           /\ SubSeq(s, 1, n) \o SubSeq(s, n + 1, Len(s)) = s
  <1>1. Len(s) \in Nat
    OBVIOUS
  <1>2. SubSeq(s, 1, n) \o SubSeq(s, n + 1, Len(s)) = SubSeq(s, 1, Len(s))
    BY <1>1, ConcatAdjacentSubSeq
  <1>3. SubSeq(s, 1, Len(s)) = s
    BY SubSeqFull
  <1>4. SubSeq(s, 1, n) \in Seq(Bytes)
    BY <1>1, SubSeqProperties
  <1>5. SubSeq(s, n + 1, Len(s)) \in Seq(Bytes)
    BY <1>1, SubSeqProperties
  <1> QED BY <1>2, <1>3, <1>4, <1>5

\* It does not matter in which order streams are joined.
LEMMA JoinedInTurn ==
    ASSUME NEW s \in Seq(Bytes), NEW t \in Seq(Bytes), NEW u \in Seq(Bytes)
    PROVE  (s \o t) \o u = s \o (t \o u)
  <1>1. \A S : \A a, b, c \in Seq(S) : (a \o b) \o c = a \o (b \o c)
    BY ConcatAssociative
  <1> QED BY <1>1

\* The first of the positions where something was found.
LEMMA FoundFirst ==
    ASSUME NEW T \in SUBSET Nat, T # {}
    PROVE  Earliest(T) \in T /\ \A j \in T : Earliest(T) <= j
  BY LeastElement DEF Earliest

(***************************************************************************)
(* The text behind an echo is of the kind that was asked for, wherever the *)
(* stream was cut.                                                         *)
(***************************************************************************)
LEMMA TextOfKind ==
    ASSUME NEW buf \in Seq(Bytes), NEW rest \in Seq(Bytes),
           AnswerStream(buf \o rest), NEW r \in AnyRequest, Echoes(buf, r) # {}
    PROVE  LET text == Text(buf, TextStart(buf, r)) IN
           \A i \in 1..Len(text) : text[i].letter = r.letter
  <1> DEFINE u == buf \o rest
             e == Earliest(Echoes(buf, r))
             start == TextStart(buf, r)
             ends == {i \in start..Len(buf) : buf[i] = Cr}
             last == IF ends = {} THEN Len(buf) ELSE Earliest(ends) - 1
             text == Text(buf, start)
  <1>1. Len(buf) \in Nat /\ Len(rest) \in Nat
    OBVIOUS
  <1>2. /\ Len(u) = Len(buf) + Len(rest)
        /\ \A i \in 1..Len(buf) : u[i] = buf[i]
    <2>1. \A i \in 1..(Len(buf) + Len(rest)) :
             u[i] = IF i <= Len(buf) THEN buf[i] ELSE rest[i - Len(buf)]
      BY ConcatProperties
    <2>2. Len(u) = Len(buf) + Len(rest)
      BY ConcatProperties
    <2> HIDE DEF u
    <2> QED BY <1>1, <2>1, <2>2
  <1>3. AnswerStream(u)
    OBVIOUS
  <1>4. e \in 1..(Len(buf) - 2) /\ SubSeq(buf, e, e + 2) = Echo(r)
    <2>1. Echoes(buf, r) \in SUBSET Nat
      BY DEF Echoes
    <2>2. e \in Echoes(buf, r)
      BY <2>1, FoundFirst
    <2> HIDE DEF e
    <2> QED BY <2>2 DEF Echoes
  <1>5. start = e + 3
    BY DEF TextStart
  <1>6. text = SubSeq(buf, start, last)
    BY DEF Text
  <1> HIDE DEF u, e
  <1>7. buf[e] = Letter(r)
    <2> DEFINE w == SubSeq(buf, e, e + 2)
    <2>1. \A i \in 1..3 : w[i] = buf[e + i - 1]
      <3>1. \A i \in e..(e + 2) : buf[i] \in Bytes
        BY <1>1, <1>4
      <3>2. e \in Int /\ e + 2 \in Int /\ (e + 2) - e + 1 = 3
        BY <1>1, <1>4
      <3>3. \A i \in 1..((e + 2) - e + 1) : w[i] = buf[e + i - 1]
        BY <3>1, <3>2, SubSeqProperties
      <3> QED BY <3>2, <3>3
    <2>0. w = Echo(r)
      BY <1>4
    <2> HIDE DEF w
    <2>2. w[1] = Letter(r)
      BY <2>0 DEF Echo
    <2>3. e + 1 - 1 = e
      BY <1>1, <1>4
    <2> QED BY <2>1, <2>2, <2>3
  <1>8. start \in Nat /\ start \in 4..(Len(buf) + 1)
    BY <1>1, <1>4, <1>5
  <1>9. /\ last \in 0..Len(buf)
        /\ \A i \in start..last : i <= Len(buf) /\ buf[i] # Cr
    <2>1. CASE ends = {}
      <3>1. last = Len(buf)
        BY <2>1
      <3>2. \A i \in start..Len(buf) : buf[i] # Cr
        BY <2>1
      <3> HIDE DEF last, ends
      <3> QED BY <1>1, <1>8, <3>1, <3>2
    <2>2. CASE ends # {}
      <3>1. ends \in SUBSET Nat
        BY <1>8
      <3>2. Earliest(ends) \in ends /\ \A j \in ends : Earliest(ends) <= j
        BY <2>2, <3>1, FoundFirst
      <3>3. last = Earliest(ends) - 1
        BY <2>2
      <3> DEFINE f == Earliest(ends)
      <3>4. f \in start..Len(buf) /\ \A j \in ends : f <= j
        BY <3>2
      <3>5. last = f - 1
        BY <3>3
      <3> HIDE DEF f, last
      <3>6. last \in 0..Len(buf)
        BY <1>1, <1>8, <3>4, <3>5
      <3>7. ASSUME NEW i \in start..last
            PROVE  i <= Len(buf) /\ buf[i] # Cr
        <4>1. i \in start..Len(buf) /\ ~(f <= i)
          BY <1>1, <1>8, <3>4, <3>5, <3>7
        <4> QED BY <1>1, <1>8, <3>4, <4>1
      <3> QED BY <3>6, <3>7
    <2> QED BY <2>1, <2>2
  <1> HIDE DEF last, ends, start, text
  <1>10. \A i \in start..last : Follows(r, buf[i])
    <2> DEFINE T == {n \in Nat : start + n <= last =>
                                    Follows(r, buf[start + n])}
    <2>1. 0 \in T
      <3> SUFFICES ASSUME start <= last PROVE Follows(r, buf[start])
        BY <1>8
      <3>0. e \in 1..Len(buf) /\ e \in 1..(Len(buf) + Len(rest))
        BY <1>1, <1>4
      <3>1. e \in 1..Len(u) /\ u[e] = Letter(r)
        BY <1>2, <1>7, <3>0
      <3>2. Follows(u[e], u[e + 3])
        BY <1>3, <3>1, BytesDiffer DEF AnswerStream
      <3>3. start \in 1..Len(buf)
        BY <1>8, <1>9
      <3>4. u[e + 3] = buf[start]
        BY <1>2, <1>5, <3>3
      <3> QED BY <3>1, <3>2, <3>4, BytesDiffer DEF Follows
    <2>2. ASSUME NEW n \in Nat, n \in T
          PROVE  n + 1 \in T
      <3> SUFFICES ASSUME start + (n + 1) <= last
                   PROVE  Follows(r, buf[start + (n + 1)])
        OBVIOUS
      <3> DEFINE k == start + n
      <3>1. /\ k \in start..last /\ k + 1 = start + (n + 1)
            /\ k \in 1..Len(buf) /\ k + 1 \in 1..Len(buf)
        BY <1>1, <1>8, <1>9
      <3>2. Follows(r, buf[k])
        <4>1. start + n <= last
          BY <1>8, <1>9
        <4> QED BY <2>2, <4>1
      <3> HIDE DEF k
      <3>3. buf[k] \in AnyRequest /\ buf[k].letter = r.letter
        BY <1>9, <3>1, <3>2 DEF Follows
      <3>4. /\ u[k] = buf[k] /\ u[k + 1] = buf[k + 1]
            /\ k \in 1..Len(u)
        BY <1>1, <1>2, <3>1
      <3>5. Follows(u[k], u[k + 1])
        BY <1>3, <3>3, <3>4 DEF AnswerStream
      <3>6. Follows(r, buf[k + 1])
        BY <3>3, <3>4, <3>5 DEF Follows
      <3> QED BY <3>1, <3>6
    <2>3. \A n \in Nat : n \in T
      <3> HIDE DEF T
      <3> QED BY <2>1, <2>2, SetInduction
    <2>4. ASSUME NEW i \in start..last
          PROVE  Follows(r, buf[i])
      <3>1. i - start \in Nat /\ start + (i - start) = i /\ i <= last
        BY <1>8, <1>9
      <3>2. i - start \in T
        BY <2>3, <3>1
      <3> QED BY <3>1, <3>2
    <2> QED BY <2>4
  <1>11. /\ Len(text) = IF start <= last THEN last - start + 1 ELSE 0
         /\ \A i \in 1..(last - start + 1) : text[i] = buf[start + i - 1]
    <2>1. start \in Int /\ last \in Int
      BY <1>8, <1>9
    <2>2. \A i \in start..last : buf[i] \in Bytes
      BY <1>1, <1>8, <1>9
    <2> QED BY <1>6, <2>1, <2>2, SubSeqProperties
  <1>12. ASSUME NEW i \in 1..Len(text)
         PROVE  text[i].letter = r.letter
    <2>1. i \in 1..(last - start + 1) /\ start + i - 1 \in start..last
      BY <1>8, <1>9, <1>11
    <2>2. text[i] = buf[start + i - 1]
      BY <1>11, <2>1
    <2> QED BY <1>9, <1>10, <2>1, <2>2 DEF Follows
  <1> QED BY <1>12 DEF text, start

\* The text of a whole answer.
LEMMA TextOfAnswer ==
    ASSUME NEW r \in AnyRequest, NEW n \in Nat
    PROVE  LET text == Text(Answer(r, n), TextStart(Answer(r, n), r)) IN
           Len(text) = n /\ \A i \in 1..n : text[i] = r
  <1> DEFINE a == Answer(r, n)
             ends == {i \in 4..Len(a) : a[i] = Cr}
             text == Text(a, TextStart(a, r))
  <1>1. /\ a \in Seq(Bytes) /\ Len(a) = n + 5
        /\ a[1] = Letter(r) /\ a[2] = Cr /\ a[3] = Nl
        /\ \A i \in 4..(n + 3) : a[i] = r
        /\ a[n + 4] = Cr /\ a[n + 5] = Nl
    BY AnswerBytes
  <1> HIDE DEF a
  <1>2. 1 \in Echoes(a, r)
    <2> DEFINE w == SubSeq(a, 1, 3)
    <2>1. \A i \in 1..3 : a[i] \in Bytes
      BY <1>1
    <2>2. w \in Seq(Bytes) /\ Len(w) = 3 /\ \A i \in 1..3 : w[i] = a[i]
      <3>1. /\ w \in Seq(Bytes)
            /\ Len(w) = IF 1 <= 3 THEN 3 - 1 + 1 ELSE 0
            /\ \A i \in 1..(3 - 1 + 1) : w[i] = a[1 + i - 1]
        BY <2>1, SubSeqProperties
      <3> HIDE DEF w
      <3> QED BY <3>1
    <2> DEFINE e == Echo(r)
    <2>3. /\ e \in Seq(Bytes) /\ Len(e) = 3
          /\ e[1] = Letter(r) /\ e[2] = Cr /\ e[3] = Nl
      BY BytesDiffer DEF Echo, Bytes
    <2> HIDE DEF e, w
    <2>4. \A i \in 1..3 : w[i] = e[i]
      <3>1. 1..3 = {1, 2, 3}
        OBVIOUS
      <3> QED BY <1>1, <2>2, <2>3, <3>1
    <2>5. w = e
      BY <2>2, <2>3, <2>4, SeqEqual
    <2>6. 1 \in 1..(Len(a) - 2)
      BY <1>1
    <2> QED BY <2>5, <2>6 DEF Echoes, e, w
  <1>3. TextStart(a, r) = 4
    <2>1. Echoes(a, r) \in SUBSET Nat /\ \A i \in Echoes(a, r) : i >= 1
      BY <1>1 DEF Echoes
    <2>2. Earliest(Echoes(a, r)) = 1
      BY <1>2, <2>1, FoundFirst
    <2> QED BY <1>2, <2>2 DEF TextStart
  <1>4. Earliest(ends) = n + 4 /\ ends # {}
    <2>1. ends \in SUBSET Nat
      OBVIOUS
    <2>2. n + 4 \in ends
      BY <1>1
    <2>3. \A i \in ends : i >= n + 4
      <3> SUFFICES ASSUME NEW i \in ends, ~(i >= n + 4) PROVE FALSE
        BY <2>1
      <3>1. i \in 4..(n + 3) /\ a[i] = Cr
        BY <1>1
      <3> QED BY <1>1, <3>1, BytesDiffer
    <2>4. Earliest(ends) \in ends /\ Earliest(ends) <= n + 4
      BY <2>1, <2>2, FoundFirst
    <2> DEFINE f == Earliest(ends)
    <2>5. f \in Nat /\ f >= n + 4 /\ f <= n + 4
      BY <2>1, <2>3, <2>4
    <2> HIDE DEF f
    <2>6. f = n + 4
      BY <2>5
    <2> QED BY <2>2, <2>6 DEF f
  <1>5. text = SubSeq(a, 4, n + 3)
    <2>1. text = SubSeq(a, 4, Earliest(ends) - 1)
      BY <1>3, <1>4 DEF Text
    <2>2. Earliest(ends) - 1 = n + 3
      <3> HIDE DEF ends
      <3> QED BY <1>4
    <2> HIDE DEF ends, text
    <2> QED BY <2>1, <2>2
  <1> HIDE DEF text, ends
  <1>6. /\ Len(text) = IF 4 <= n + 3 THEN (n + 3) - 4 + 1 ELSE 0
        /\ \A i \in 1..((n + 3) - 4 + 1) : text[i] = a[4 + i - 1]
    <2>1. \A i \in 4..(n + 3) : a[i] \in Bytes
      BY <1>1 DEF Bytes
    <2> QED BY <1>5, <2>1, SubSeqProperties
  <1>7. Len(text) = n
    BY <1>6
  <1>8. ASSUME NEW i \in 1..n
        PROVE  text[i] = r
    <2>1. i \in 1..((n + 3) - 4 + 1) /\ 4 + i - 1 \in 4..(n + 3)
      OBVIOUS
    <2>2. text[i] = a[4 + i - 1]
      BY <1>6, <2>1
    <2>3. a[4 + i - 1] = r
      BY <1>1, <2>1
    <2> QED BY <2>2, <2>3
  <1> QED BY <1>7, <1>8 DEF text, a

(***************************************************************************)
(* Reading ends with the last byte of an answer: the line end of the echo  *)
(* is among the bytes that are not searched.                               *)
(***************************************************************************)
LEMMA ReadToTheEnd ==
    ASSUME NEW s \in Seq(Bytes), NEW chunk \in Seq(Bytes),
           NEW rest \in Seq(Bytes), NEW r \in AnyRequest, NEW n \in Nat,
           (s \o chunk) \o rest = Answer(r, n),
           Terminated(Len(s), chunk)
    PROVE  rest = <<>>
  <1> DEFINE a == Answer(r, n)
             b == s \o chunk
  <1>1. /\ a \in Seq(Bytes) /\ Len(a) = n + 5
        /\ a[1] = Letter(r) /\ a[2] = Cr /\ a[3] = Nl
        /\ \A i \in 4..(n + 3) : a[i] = r
        /\ a[n + 4] = Cr /\ a[n + 5] = Nl
    BY AnswerBytes
  <1>2. Len(s) \in Nat /\ Len(chunk) \in Nat /\ Len(rest) \in Nat
    OBVIOUS
  <1>3. /\ b \in Seq(Bytes) /\ Len(b) = Len(s) + Len(chunk)
        /\ \A i \in 1..(Len(s) + Len(chunk)) :
              b[i] = IF i <= Len(s) THEN s[i] ELSE chunk[i - Len(s)]
    BY ConcatProperties
  <1>4. b \o rest = a
    OBVIOUS
  <1> HIDE DEF a, b
  <1>5. /\ Len(a) = Len(b) + Len(rest)
        /\ \A i \in 1..(Len(b) + Len(rest)) :
              a[i] = IF i <= Len(b) THEN b[i] ELSE rest[i - Len(b)]
    <2>0. b \in Seq(Bytes)
      BY <1>3
    <2>1. /\ Len(b \o rest) = Len(b) + Len(rest)
          /\ \A i \in 1..(Len(b) + Len(rest)) :
                (b \o rest)[i] = IF i <= Len(b) THEN b[i]
                                ELSE rest[i - Len(b)]
      BY <2>0, ConcatProperties
    <2> QED BY <1>4, <2>1, Zenon
  <1>6. PICK i \in 1..Len(chunk) :
           /\ chunk[i] = Nl
           /\ Len(s) <= ignoreFirstBytes => i > ignoreFirstBytes
    BY DEF Terminated
  <1> DEFINE p == Len(s) + i
  <1>7. /\ p \in Nat /\ p > 3 /\ p <= Len(b) /\ p > Len(s)
        /\ p - Len(s) = i
    <2>1. ignoreFirstBytes \in Nat /\ ignoreFirstBytes >= 3
      BY SerialAssumption DEF SerialAssumption
    <2>2. p \in Nat /\ p > Len(s) /\ p - Len(s) = i /\ p <= Len(b)
      BY <1>2, <1>3
    <2>3. p > 3
      <3>1. CASE Len(s) <= ignoreFirstBytes
        <4>1. i > ignoreFirstBytes
          BY <1>6, <3>1
        <4> QED BY <1>2, <2>1, <4>1
      <3>2. CASE ~(Len(s) <= ignoreFirstBytes)
        BY <1>2, <2>1, <3>2
      <3> QED BY <3>1, <3>2
    <2> QED BY <2>2, <2>3
  <1> HIDE DEF p
  <1>8. b[p] = Nl
    <2>1. p \in 1..(Len(s) + Len(chunk)) /\ ~(p <= Len(s))
      BY <1>2, <1>3, <1>7
    <2> QED BY <1>3, <1>6, <1>7, <2>1
  <1>9. a[p] = Nl
    <2>1. p \in 1..(Len(b) + Len(rest))
      BY <1>2, <1>3, <1>7
    <2> QED BY <1>5, <1>7, <1>8, <2>1
  <1>10. p = n + 5
    <2>1. p <= n + 5
      BY <1>1, <1>2, <1>3, <1>5, <1>7
    <2>2. ~(p \in 4..(n + 3)) /\ p # n + 4
      BY <1>1, <1>9, BytesDiffer
    <2> QED BY <1>7, <2>1, <2>2
  <1>11. Len(rest) = 0
    BY <1>1, <1>2, <1>3, <1>5, <1>7, <1>10
  <1> QED BY <1>11, EmptySeq

\* Nothing is under way but the answer to the request in progress.
Exchange ==
    \/ Stream = <<>>
    \/ /\ request # NoRequest
       /\ \E n \in TextLengths : Stream = Answer(request, n)

(***************************************************************************)
(* What is on the way is a stream of answers.  As long as none came late,  *)
(* it is the one to the request in progress, with all its bytes.           *)
(***************************************************************************)
SerialInv ==
    /\ request \in AnyRequest \cup {NoRequest} /\ requests \in Nat
    /\ received \in Seq(Bytes) /\ line \in Seq(Bytes)
    /\ pending \in Seq(Bytes)
    /\ AnswerStream(Stream)
    /\ ~late => Exchange
    /\ KindKept /\ OwnAnswer

\* A step that leaves the request and its stream alone.
LEMMA StreamKept ==
    ASSUME SerialInv, Stream' = Stream,
           UNCHANGED <<request, requests, answer, late>>,
           received' \in Seq(Bytes), line' \in Seq(Bytes),
           pending' \in Seq(Bytes)
    PROVE  SerialInv'
  <1>1. AnswerStream(Stream')
    BY DEF SerialInv
  <1>2. (~late => Exchange)'
    BY DEF SerialInv, Exchange
  <1>3. (KindKept /\ OwnAnswer)'
    BY DEF SerialInv, KindKept, OwnAnswer
  <1> QED BY <1>1, <1>2, <1>3 DEF SerialInv

LEMMA PortKeeps ==
    ASSUME SerialInv, InitComPort \/ ClosePort
    PROVE  SerialInv'
  <1>1. UNCHANGED <<pending, line, received, request, answer, requests, late>>
    BY DEF InitComPort, ClosePort
  <1>2. Stream' = Stream
    BY <1>1 DEF Stream
  <1> QED BY <1>1, <1>2, StreamKept DEF SerialInv

LEMMA SendKeeps ==
    ASSUME SerialInv, NEW letter \in {"d", "m"}, SendData(letter)
    PROVE  SerialInv'
  <1> DEFINE r == [letter |-> letter, number |-> requests + 1]
  <1>1. /\ request = NoRequest /\ request' = r /\ requests' = requests + 1
        /\ \/ \E n \in TextLengths : pending' = pending \o Answer(r, n)
           \/ UNCHANGED pending
        /\ UNCHANGED <<line, received, answer, late>>
    BY DEF SendData
  <1>2. r \in AnyRequest /\ requests' \in Nat
    BY <1>1 DEF SerialInv, AnyRequest
  <1>3. r # NoRequest
    BY DEF NoRequest
  <1> HIDE DEF r
  <1>4. /\ received \in Seq(Bytes) /\ line \in Seq(Bytes)
        /\ pending \in Seq(Bytes) /\ AnswerStream(Stream)
    BY DEF SerialInv
  <1>5. ~late => Stream = <<>>
    BY <1>1 DEF SerialInv, Exchange
  <1>6. (KindKept /\ OwnAnswer)'
    BY <1>1 DEF SerialInv, KindKept, OwnAnswer
  <1>7. CASE UNCHANGED pending
    <2>1. Stream' = Stream
      BY <1>1, <1>7 DEF Stream
    <2>2. (~late => Exchange)'
      BY <1>1, <1>5, <2>1 DEF Exchange
    <2> QED BY <1>1, <1>2, <1>4, <1>6, <1>7, <2>1, <2>2 DEF SerialInv
  <1>8. ASSUME NEW n \in TextLengths, pending' = pending \o Answer(r, n)
        PROVE  SerialInv'
    <2> DEFINE a == Answer(r, n)
    <2>1. n \in Nat
      BY SerialAssumption DEF SerialAssumption
    <2>2. a \in Seq(Bytes) /\ AnswerStream(a)
      BY <1>2, <2>1, AnswerIsStream DEF AnswerStream
    <2>3. pending' = pending \o a
      BY <1>8
    <2> HIDE DEF a
    <2>4. pending' \in Seq(Bytes) /\ line \o pending \in Seq(Bytes)
      BY <1>4, <2>2, <2>3, ConcatProperties
    <2>5. Stream' = Stream \o a
      <3>1. Stream' = received \o (line \o (pending \o a))
        BY <1>1, <2>3 DEF Stream
      <3>2. line \o (pending \o a) = (line \o pending) \o a
        BY <1>4, <2>2, JoinedInTurn
      <3>3. received \o ((line \o pending) \o a)
              = (received \o (line \o pending)) \o a
        BY <1>4, <2>2, <2>4, JoinedInTurn
      <3> QED BY <3>1, <3>2, <3>3 DEF Stream
    <2>6. AnswerStream(Stream')
      BY <1>4, <2>2, <2>5, AnswersJoin
    <2>7. (~late => Exchange)'
      <3> SUFFICES ASSUME ~late' PROVE Exchange'
        OBVIOUS
      <3>1. Stream = <<>>
        BY <1>1, <1>5
      <3>2. Stream' = a
        BY <2>2, <2>5, <3>1, ConcatEmptySeq
      <3> QED BY <1>1, <1>3, <3>2 DEF Exchange, a
    <2> QED BY <1>1, <1>2, <1>4, <1>6, <2>4, <2>6, <2>7 DEF SerialInv
  <1> QED BY <1>1, <1>7, <1>8

LEMMA ArrivalKeeps ==
    ASSUME SerialInv, ModuleSends
    PROVE  SerialInv'
  <1>1. PICK n \in 1..Len(pending) :
           /\ line' = line \o SubSeq(pending, 1, n)
           /\ pending' = SubSeq(pending, n + 1, Len(pending))
    BY DEF ModuleSends
  <1>2. UNCHANGED <<received, request, answer, requests, late>>
    BY DEF ModuleSends
  <1> DEFINE front == SubSeq(pending, 1, n)
             back == SubSeq(pending, n + 1, Len(pending))
  <1>3. /\ received \in Seq(Bytes) /\ line \in Seq(Bytes)
        /\ pending \in Seq(Bytes)
    BY DEF SerialInv
  <1>4. front \in Seq(Bytes) /\ back \in Seq(Bytes) /\ front \o back = pending
    BY <1>3, Halves
  <1>5. line' = line \o front /\ pending' = back
    BY <1>1
  <1> HIDE DEF front, back
  <1>6. line' \in Seq(Bytes) /\ pending' \in Seq(Bytes)
    BY <1>3, <1>4, <1>5, ConcatProperties
  <1>7. (line \o front) \o back = line \o (front \o back)
    BY <1>3, <1>4, JoinedInTurn
  <1>8. Stream' = Stream
    BY <1>2, <1>4, <1>5, <1>7 DEF Stream
  <1> QED BY <1>2, <1>3, <1>6, <1>8, StreamKept

LEMMA GiveUpKeeps ==
    ASSUME SerialInv, GiveUp
    PROVE  SerialInv'
  <1>1. /\ answer' = [NoAnswer EXCEPT !.to = request]
        /\ request' = NoRequest /\ received' = <<>>
        /\ late' = (late \/ pending # <<>> \/ line # <<>>)
        /\ UNCHANGED <<pending, line, requests>>
    BY DEF GiveUp
  <1>2. /\ received \in Seq(Bytes) /\ line \in Seq(Bytes)
        /\ pending \in Seq(Bytes) /\ requests \in Nat
    BY DEF SerialInv
  <1>3. line \o pending \in Seq(Bytes) /\ <<>> \in Seq(Bytes)
    BY <1>2, ConcatProperties
  <1>4. Stream' = line \o pending
    <2>1. Stream' = <<>> \o (line \o pending)
      BY <1>1 DEF Stream
    <2> QED BY <1>3, <2>1, ConcatEmptySeq
  <1>5. AnswerStream(Stream')
    <2>1. AnswerStream(received \o (line \o pending))
      BY DEF SerialInv, Stream
    <2> QED BY <1>2, <1>3, <1>4, <2>1, AnswersLeft
  <1>6. (~late => Exchange)'
    <2> SUFFICES ASSUME ~late' PROVE Stream' = <<>>
      BY DEF Exchange
    <2>1. line = <<>> /\ pending = <<>>
      BY <1>1
    <2> QED BY <1>2, <1>4, <2>1, ConcatEmptySeq
  <1>7. answer'.text = <<>> /\ ~answer'.echo
    BY <1>1 DEF NoAnswer
  <1>8. (KindKept /\ OwnAnswer)'
    BY <1>7 DEF KindKept, OwnAnswer
  <1> QED BY <1>1, <1>2, <1>3, <1>5, <1>6, <1>8 DEF SerialInv

LEMMA ReadKeeps ==
    ASSUME SerialInv, ReadData
    PROVE  SerialInv'
  <1> DEFINE chunk(n) == SubSeq(line, 1, n)
             left(n) == SubSeq(line, n + 1, Len(line))
             all(n) == received \o chunk(n)
  <1>1. PICK n \in 1..Len(line) :
           /\ line' = left(n)
           /\ IF Terminated(Len(received), chunk(n))
              THEN /\ answer' = Returned(all(n))
                   /\ request' = NoRequest /\ received' = <<>>
              ELSE received' = all(n) /\ UNCHANGED <<answer, request>>
    BY DEF ReadData
  <1>2. /\ request # NoRequest
        /\ UNCHANGED <<pending, requests, late>>
    BY DEF ReadData
  <1> DEFINE c == chunk(n)
             l == left(n)
             buf == received \o c
             rest == l \o pending
  <1>3. /\ received \in Seq(Bytes) /\ line \in Seq(Bytes)
        /\ pending \in Seq(Bytes) /\ AnswerStream(Stream)
        /\ request \in AnyRequest /\ requests \in Nat
    BY <1>2 DEF SerialInv
  <1>4. c \in Seq(Bytes) /\ l \in Seq(Bytes) /\ c \o l = line
    BY <1>3, Halves
  <1>5. \/ /\ Terminated(Len(received), c)
           /\ answer' = Returned(buf) /\ request' = NoRequest
           /\ received' = <<>>
        \/ received' = buf /\ UNCHANGED <<answer, request>>
    BY <1>1
  <1>6. line' = l
    BY <1>1
  <1> HIDE DEF c, l, chunk, left, all
  <1>7. buf \in Seq(Bytes) /\ rest \in Seq(Bytes)
    BY <1>3, <1>4, ConcatProperties
  <1>8. Stream = buf \o rest
    <2>0. /\ c \in Seq(Bytes) /\ l \in Seq(Bytes) /\ pending \in Seq(Bytes)
          /\ received \in Seq(Bytes) /\ rest \in Seq(Bytes)
      BY <1>3, <1>4, <1>7
    <2>1. (c \o l) \o pending = c \o (l \o pending)
      BY <2>0, JoinedInTurn
    <2>2. (received \o c) \o rest = received \o (c \o rest)
      <3> HIDE DEF rest
      <3> QED BY <2>0, JoinedInTurn
    <2>3. Stream = received \o (line \o pending)
      BY DEF Stream
    <2>4. line \o pending = c \o rest
      BY <1>4, <2>1
    <2> QED BY <2>2, <2>3, <2>4
  <1>9. Stream' = received' \o rest
    BY <1>2, <1>6 DEF Stream
  <1> HIDE DEF rest
  <1>10. CASE received' = buf /\ UNCHANGED <<answer, request>>
    BY <1>2, <1>3, <1>4, <1>6, <1>7, <1>8, <1>9, <1>10, StreamKept
  <1>11. CASE /\ Terminated(Len(received), c)
              /\ answer' = Returned(buf) /\ request' = NoRequest
              /\ received' = <<>>
    <2>1. Stream' = rest
      BY <1>7, <1>9, <1>11, ConcatEmptySeq
    <2>2. AnswerStream(Stream')
      <3>1. AnswerStream(buf \o rest)
        BY <1>3, <1>8
      <3> HIDE DEF buf
      <3> QED BY <1>7, <2>1, <3>1, AnswersLeft
    <2> DEFINE text == Text(buf, TextStart(buf, request))
    <2>3. /\ answer'.text = text /\ answer'.to = request
          /\ answer'.echo = (Echoes(buf, request) # {})
      BY <1>11 DEF Returned
    <2>4. KindKept'
      <3>1. AnswerStream(buf \o rest)
        BY <1>3, <1>8
      <3> HIDE DEF buf
      <3>2. Echoes(buf, request) # {} =>
               \A i \in 1..Len(text) : text[i].letter = request.letter
        BY <1>3, <1>7, <3>1, TextOfKind
      <3> HIDE DEF text
      <3> QED BY <2>3, <3>2 DEF KindKept
    <2>5. ASSUME ~late
          PROVE  Stream' = <<>> /\ OwnAnswer'
      <3>1. buf # <<>>
        <4>1. c # <<>>
          BY <1>11 DEF Terminated
        <4> QED BY <1>3, <1>4, <4>1, ConcatEqualIffEmpty
      <3>2. Stream # <<>>
        <4> HIDE DEF buf
        <4> QED BY <1>7, <1>8, <3>1, ConcatEqualIffEmpty
      <3>3. PICK k \in TextLengths : Stream = Answer(request, k)
        BY <2>5, <3>2 DEF SerialInv, Exchange
      <3>4. k \in Nat
        BY SerialAssumption DEF SerialAssumption
      <3>5. rest = <<>>
        BY <1>3, <1>4, <1>7, <1>8, <1>11, <3>3, <3>4, ReadToTheEnd
      <3>6. buf = Answer(request, k)
        <4> HIDE DEF buf
        <4> QED BY <1>7, <1>8, <3>3, <3>5, ConcatEmptySeq
      <3>7. Len(text) = k /\ \A i \in 1..k : text[i] = request
        <4> HIDE DEF buf
        <4> QED BY <1>3, <3>4, <3>6, TextOfAnswer
      <3> HIDE DEF text, buf
      <3>8. OwnAnswer'
        BY <2>3, <3>7 DEF OwnAnswer
      <3> QED BY <2>1, <3>5, <3>8
    <2>6. (~late => Exchange)' /\ OwnAnswer'
      <3>1. CASE late
        BY <1>2, <3>1 DEF OwnAnswer
      <3>2. CASE ~late
        BY <2>5, <3>2 DEF Exchange
      <3> QED BY <3>1, <3>2
    <2> QED BY <1>2, <1>3, <1>4, <1>6, <1>11, <2>2, <2>4, <2>6 DEF SerialInv
  <1> QED BY <1>5, <1>10, <1>11

LEMMA SerialStarts == Init => SerialInv
  <1> SUFFICES ASSUME Init PROVE SerialInv
    OBVIOUS
  <1>1. /\ pending = <<>> /\ line = <<>> /\ received = <<>>
        /\ request = NoRequest /\ answer = NoAnswer /\ requests = 0
    BY DEF Init, SerialInit
  <1>2. <<>> \in Seq(Bytes) /\ Len(<<>>) = 0
    BY EmptySeq
  <1>3. Stream = <<>>
    BY <1>1, <1>2, ConcatEmptySeq DEF Stream
  <1>4. AnswerStream(<<>>)
    BY <1>2 DEF AnswerStream
  <1>5. KindKept /\ OwnAnswer
    BY <1>1 DEF KindKept, OwnAnswer, NoAnswer
  <1> QED BY <1>1, <1>2, <1>3, <1>4, <1>5 DEF SerialInv, Exchange

LEMMA SerialKeeps == SerialInv /\ [Next]_vars => SerialInv'
  <1> SUFFICES ASSUME SerialInv, [Next]_vars PROVE SerialInv'
    OBVIOUS
  <1>1. CASE UNCHANGED serialVars
    <2>1. UNCHANGED <<pending, line, received, request, answer, requests, late>>
      BY <1>1 DEF serialVars
    <2>2. Stream' = Stream
      BY <2>1 DEF Stream
    <2> QED BY <2>1, <2>2, StreamKept DEF SerialInv
  <1>2. CASE SerialNext
    BY <1>2, PortKeeps, SendKeeps, ArrivalKeeps, ReadKeeps, GiveUpKeeps
       DEF SerialNext, getSensorsDescription, getSensorsData
  <1> QED BY <1>1, <1>2 DEF Next, vars

(***************************************************************************)
(* As long as no answer came late, a request to the Zynq module returns    *)
(* the text of its own answer or nothing, for every length of the answer,  *)
(* every size of the buffer and every way the bytes are split.             *)
(***************************************************************************)
THEOREM AnswersAreOwn == Spec => []OwnAnswer
  <1>1. SerialInv => OwnAnswer
    BY DEF SerialInv
  <1> QED BY <1>1, SerialStarts, SerialKeeps, PTL DEF Spec

(***************************************************************************)
(* Where the echo of the request was found, descriptions are never taken   *)
(* for measurements, however many answers were late.                       *)
(***************************************************************************)
THEOREM AnswersAreOfTheKind == Spec => []KindKept
  <1>1. SerialInv => KindKept
    BY DEF SerialInv
  <1> QED BY <1>1, SerialStarts, SerialKeeps, PTL DEF Spec

-----------------------------------------------------------------------------
(* Readings.                                                               *)

\* The powers of the number of values of a byte.
LEMMA Powers ==
    /\ Power[0] = 1
    /\ \A k \in 1..8 : Power[k] = Power[k - 1] * ByteValues
    /\ \A k \in 0..8 : Power[k] \in Nat \ {0}
  <1> DEFINE R == Nat \ {0}
             B == ByteValues
             step == [i \in 1..8 |-> [x \in R |-> x * B]]
             Eq(t) == t = [k \in 0..8 |-> IF k = 0 THEN 1 ELSE t[k - 1] * ByteValues]
  <1>1. 8 \in Nat /\ 1 \in R /\ B \in R
    BY ReadingsAssumption
  <1>2. \A x \in R : x * B \in R
    BY <1>1, SMT
  <1>3. step \in [1..8 -> [R -> R]]
    BY <1>2
  <1>4. PICK g : IsRun(g, 8, R, 1, step)
    <2> HIDE DEF R, step
    <2> QED BY <1>1, <1>3, RecursionExists
  <1>5. g \in [0..8 -> R] /\ g[0] = 1
    BY <1>4 DEF IsRun
  <1>6. \A i \in 1..8 : g[i] = g[i - 1] * B
    <2> TAKE i \in 1..8
    <2>1. i - 1 \in 0..8
      OBVIOUS
    <2>2. g[i - 1] \in R
      <3> HIDE DEF R
      <3> QED BY <1>5, <2>1
    <2>3. step[i][g[i - 1]] = g[i - 1] * B
      <3> HIDE DEF R
      <3> QED BY <2>2
    <2> QED BY <1>4, <2>3 DEF IsRun
  <1>7. Eq(g)
    <2>1. ASSUME NEW i \in 0..8
          PROVE  g[i] = IF i = 0 THEN 1 ELSE g[i - 1] * ByteValues
      <3>1. i = 0 \/ (i # 0 /\ i \in 1..8)
        OBVIOUS
      <3> QED BY <1>5, <1>6, <3>1, Zenon
    <2>2. g = [i \in 0..8 |-> g[i]]
      BY <1>5
    <2> QED BY <2>1, <2>2, Zenon
  <1> DEFINE t == CHOOSE f : Eq(f)
  <1>8. Eq(t)
    <2> HIDE DEF Eq
    <2> QED BY <1>7, Zenon
  <1>9. Power = t
    BY DEF Power
  <1> HIDE DEF t
  <1>10. t[0] = 1 /\ \A i \in 1..8 : t[i] = t[i - 1] * B
    <2>1. 0 \in 0..8 /\ \A i \in 1..8 : i \in 0..8 /\ i # 0
      OBVIOUS
    <2>2. \A i \in 0..8 : t[i] = IF i = 0 THEN 1 ELSE t[i - 1] * ByteValues
      BY <1>8, Zenon
    <2> QED BY <2>1, <2>2, Zenon
  <1> DEFINE G == {i \in Nat : i <= 8 => t[i] \in R}
  <1>11. \A i \in Nat : i \in G
    <2>1. 0 \in G
      BY <1>1, <1>10
    <2>2. ASSUME NEW i \in Nat, i \in G
          PROVE  i + 1 \in G
      <3> HIDE DEF R
      <3> SUFFICES ASSUME i + 1 <= 8 PROVE t[i + 1] \in R
        OBVIOUS
      <3>1. i + 1 \in 1..8 /\ (i + 1) - 1 = i /\ t[i] \in R
        BY <2>2
      <3>2. t[i + 1] = t[i] * B
        BY <1>10, <3>1
      <3> QED BY <1>2, <3>1, <3>2
    <2> HIDE DEF G
    <2> QED BY <2>1, <2>2, SetInduction
  <1>12. \A i \in 0..8 : t[i] \in R
    BY <1>11
  <1> QED BY <1>9, <1>10, <1>12

\* The number after the first bytes.
IsNumber(t, bytes) ==
    /\ t[0] = 0
    /\ \A i \in 1..Len(bytes) : t[i] = t[i - 1] * ByteValues + bytes[i][2]

LEMMA NumberRun ==
    ASSUME NEW bytes, Len(bytes) \in Nat,
           \A i \in 1..Len(bytes) : bytes[i][2] \in Nat
    PROVE  \E t : IsNumber(t, bytes) /\ Number(bytes) = t[Len(bytes)]
  <1> DEFINE n == Len(bytes)
             B == ByteValues
             F(x, i) == x * ByteValues + bytes[i][2]
             step == [i \in 1..n |-> [x \in Nat |-> F(x, i)]]
             Eq(t) == t = [i \in 0..n |->
                              IF i = 0 THEN 0 ELSE t[i - 1] * ByteValues + bytes[i][2]]
  <1>1. n \in Nat /\ 0 \in Nat /\ ByteValues \in Nat
    BY ReadingsAssumption
  <1>2. \A i \in 1..n : \A x \in Nat : F(x, i) \in Nat
    <2> TAKE i \in 1..n
    <2> TAKE x \in Nat
    <2> DEFINE y == x * ByteValues
               z == bytes[i][2]
    <2>1. y \in Nat /\ z \in Nat
      BY <1>1, SMT
    <2> HIDE DEF y, z
    <2>2. y + z \in Nat
      BY <2>1
    <2> QED BY <2>2 DEF y, z
  <1>3. step \in [1..n -> [Nat -> Nat]]
    <2> HIDE DEF n, F
    <2> QED BY <1>2
  <1>4. PICK g : IsRun(g, n, Nat, 0, step)
    <2> HIDE DEF n, step
    <2> QED BY <1>1, <1>3, RecursionExists
  <1>5. g \in [0..n -> Nat] /\ g[0] = 0
    BY <1>4 DEF IsRun
  <1>6. \A i \in 1..n : g[i] = F(g[i - 1], i)
    <2> TAKE i \in 1..n
    <2>1. i - 1 \in 0..n
      <3> HIDE DEF n
      <3> QED BY <1>1
    <2>2. g[i - 1] \in Nat
      <3> HIDE DEF n
      <3> QED BY <1>5, <2>1
    <2>3. step[i][g[i - 1]] = F(g[i - 1], i)
      <3> HIDE DEF F, n
      <3> QED BY <2>2
    <2> QED BY <1>4, <2>3 DEF IsRun
  <1>7. Eq(g)
    <2>1. ASSUME NEW i \in 0..n
          PROVE  g[i] = IF i = 0 THEN 0 ELSE F(g[i - 1], i)
      <3>1. i = 0 \/ (i # 0 /\ i \in 1..n)
        <4> HIDE DEF n
        <4> QED BY <1>1
      <3> HIDE DEF F, n
      <3> QED BY <1>5, <1>6, <3>1, Zenon
    <2>2. g = [i \in 0..n |-> g[i]]
      BY <1>5
    <2>3. g = [i \in 0..n |-> IF i = 0 THEN 0 ELSE F(g[i - 1], i)]
      <3> HIDE DEF F, n
      <3> QED BY <2>1, <2>2, Zenon
    <2> QED BY <2>3
  <1> DEFINE t == CHOOSE f : Eq(f)
  <1>8. Eq(t)
    <2> HIDE DEF Eq
    <2> QED BY <1>7, Zenon
  <1>9. Number(bytes) = t[n]
    BY DEF Number
  <1> HIDE DEF t
  <1>10. t = [i \in 0..n |-> IF i = 0 THEN 0 ELSE F(t[i - 1], i)]
    BY <1>8, Zenon
  <1>11. t[0] = 0 /\ \A i \in 1..n : t[i] = F(t[i - 1], i)
    <2> HIDE DEF n, F
    <2>1. 0 \in 0..n /\ \A i \in 1..n : i \in 0..n /\ i # 0
      BY <1>1
    <2>2. \A i \in 0..n : t[i] = IF i = 0 THEN 0 ELSE F(t[i - 1], i)
      BY <1>10, Zenon
    <2> QED BY <2>1, <2>2, Zenon
  <1>12. IsNumber(t, bytes)
    BY <1>11 DEF IsNumber
  <1> QED BY <1>9, <1>12

LEMMA LengthOf ==
    ASSUME NEW n \in Nat, NEW f, f = [i \in 1..n |-> f[i]]
    PROVE  Len(f) = n
  <1> DEFINE S == {f[i] : i \in 1..n}
  <1>1. \A i \in 1..n : f[i] \in S
    OBVIOUS
  <1> HIDE DEF S
  <1>2. f \in [1..n -> S]
    BY <1>1
  <1> QED BY <1>2

LEMMA DividedByOne ==
    ASSUME NEW v \in Nat
    PROVE  v \div 1 = v
  <1>1. 1 \in Nat \ {0} /\ 0 \in Nat /\ 0 < 1 /\ v = 1 * v + 0
    OBVIOUS
  <1> QED BY <1>1, DivisionUnique

\* The digits of a number stand for that number.
LEMMA DigitsRead ==
    ASSUME NEW n \in 1..8, NEW v \in Nat, v < Power[n],
           NEW bytes, Len(bytes) = n,
           \A i \in 1..n : bytes[i][2] = (v \div Power[n - i]) % ByteValues
    PROVE  Number(bytes) = v
  <1>0. ByteValues \in Nat \ {0}
    BY ReadingsAssumption
  <1>1. \A i \in 0..n : /\ Power[n - i] \in Nat \ {0}
                        /\ v \div Power[n - i] \in Nat
    <2> TAKE i \in 0..n
    <2>1. n - i \in 0..8
      OBVIOUS
    <2>2. Power[n - i] \in Nat \ {0}
      BY <2>1, Powers
    <2> QED BY <2>2, Division
  <1>2. \A i \in 1..n : bytes[i][2] \in Nat
    <2> TAKE i \in 1..n
    <2> DEFINE x == v \div Power[n - i]
    <2>1. x \in Nat
      BY <1>1
    <2>2. bytes[i][2] = x % ByteValues
      OBVIOUS
    <2> HIDE DEF x
    <2>3. x % ByteValues \in 0..(ByteValues - 1)
      BY <1>0, <2>1, Division
    <2> DEFINE y == x % ByteValues
    <2>4. y \in 0..(ByteValues - 1)
      BY <2>3
    <2> HIDE DEF y
    <2>5. y \in Nat
      BY <1>0, <2>4
    <2> QED BY <2>2, <2>5 DEF y
  <1>3. PICK t : IsNumber(t, bytes) /\ Number(bytes) = t[n]
    <2>1. Len(bytes) \in Nat
      OBVIOUS
    <2> QED BY <1>2, <2>1, NumberRun
  <1>4. /\ t[0] = 0
        /\ \A i \in 1..n : t[i] = t[i - 1] * ByteValues + bytes[i][2]
    BY <1>3 DEF IsNumber
  <1> DEFINE G == {i \in Nat : i <= n => t[i] = v \div Power[n - i]}
  <1>5. 0 \in G
    <2> DEFINE p == Power[n]
    <2>1. p \in Nat \ {0} /\ v < p /\ n - 0 = n
      BY Powers
    <2> HIDE DEF p
    <2>2. v = p * 0 + v
      BY <2>1
    <2>3. v \div p = 0
      BY <2>1, <2>2, DivisionUnique
    <2>4. t[0] = v \div Power[n - 0]
      BY <1>4, <2>1, <2>3 DEF p
    <2> QED BY <2>4
  <1>6. ASSUME NEW i \in Nat, i \in G
        PROVE  i + 1 \in G
    <2> SUFFICES ASSUME i + 1 <= n
                 PROVE  t[i + 1] = v \div Power[n - (i + 1)]
      OBVIOUS
    <2> DEFINE p == Power[n - (i + 1)]
               x == v \div p
               b == ByteValues
    <2>1. /\ i + 1 \in 1..n /\ i + 1 \in 0..n /\ (i + 1) - 1 = i /\ i <= n
          /\ n - i \in 1..8 /\ (n - i) - 1 = n - (i + 1)
      OBVIOUS
    <2>2. p \in Nat \ {0} /\ x \in Nat
      BY <1>1, <2>1
    <2>3. Power[n - i] = p * b
      BY <2>1, Powers
    <2>4. t[i] = v \div (p * b)
      BY <1>6, <2>1, <2>3
    <2>5. t[i] = x \div b
      BY <1>0, <2>2, <2>4, DivisionTwice
    <2>6. t[i + 1] = t[i] * b + bytes[i + 1][2]
      BY <1>4, <2>1
    <2>7. bytes[i + 1][2] = x % b
      BY <2>1
    <2> HIDE DEF x, p, b
    <2>8. /\ x \div b \in Nat /\ x % b \in 0..(b - 1)
          /\ x = b * (x \div b) + (x % b)
      BY <1>0, <2>2, Division DEF b
    <2> DEFINE y == x \div b
               z == x % b
    <2>9. y \in Nat /\ x = b * y + z /\ t[i + 1] = y * b + z
      BY <2>5, <2>6, <2>7, <2>8
    <2> HIDE DEF y, z
    <2>10. y * b = b * y
      BY <1>0, <2>9, SMT DEF b
    <2> QED BY <2>9, <2>10 DEF x, p
  <1>7. n \in G
    <2>1. n \in Nat
      OBVIOUS
    <2> HIDE DEF G
    <2> QED BY <1>5, <1>6, <2>1, SetInduction
  <1>8. t[n] = v \div Power[n - n] /\ n - n = 0
    BY <1>7
  <1>9. t[n] = v
    BY <1>8, Powers, DividedByOne
  <1> QED BY <1>3, <1>9

\* Bytes that the controller takes for the number v.
Shows(bytes, v) ==
    /\ \A i \in 1..Len(bytes) : bytes[i][1] = "int"
    /\ Number(bytes) = v

\* The values of fewer bytes divide those of more bytes.
LEMMA PowerDivides ==
    ASSUME NEW n \in 0..8, NEW w \in n..8
    PROVE  \E r \in Nat \ {0} : Power[w] = r * Power[n]
  <1> DEFINE G == {d \in Nat : n + d <= 8 =>
                      \E r \in Nat \ {0} : Power[n + d] = r * Power[n]}
  <1>1. 0 \in G
    <2>1. n + 0 = n /\ Power[n] \in Nat /\ 1 \in Nat \ {0}
      BY Powers
    <2>2. Power[n] = 1 * Power[n]
      BY <2>1
    <2> QED BY <2>1, <2>2
  <1>2. ASSUME NEW d \in Nat, d \in G
        PROVE  d + 1 \in G
    <2> SUFFICES ASSUME n + (d + 1) <= 8
                 PROVE  \E r \in Nat \ {0} : Power[n + (d + 1)] = r * Power[n]
      OBVIOUS
    <2> DEFINE x == Power[n]
    <2>1. n + (d + 1) \in 1..8 /\ (n + (d + 1)) - 1 = n + d /\ n + d <= 8
      OBVIOUS
    <2>2. PICK r \in Nat \ {0} : Power[n + d] = r * x
      BY <1>2, <2>1
    <2>3. Power[n + (d + 1)] = (r * x) * ByteValues /\ x \in Nat
      BY <2>1, <2>2, Powers
    <2> HIDE DEF x
    <2>4. ByteValues \in Nat \ {0}
      BY ReadingsAssumption
    <2>5. /\ (r * x) * ByteValues = (r * ByteValues) * x
          /\ r * ByteValues \in Nat \ {0}
      BY <2>2, <2>3, <2>4, SMT
    <2> QED BY <2>3, <2>5 DEF x
  <1>3. w - n \in G
    <2>1. w - n \in Nat
      OBVIOUS
    <2> HIDE DEF G
    <2> QED BY <1>1, <1>2, <2>1, SetInduction
  <1>4. n + (w - n) = w /\ w <= 8
    OBVIOUS
  <1> QED BY <1>3, <1>4

\* A digit of a number is one of what is left of it.
LEMMA DigitKept ==
    ASSUME NEW v \in Nat, NEW p \in Nat \ {0}, NEW b \in Nat \ {0},
           NEW r \in Nat \ {0}
    PROVE  ((v % (r * (p * b))) \div p) % b = (v \div p) % b
  <1> DEFINE t == r * (p * b)
             x == v \div t
             m == v % t
             y == m \div p
             s == m % p
             z == y \div b
             d == y % b
             k == r * x
  <1>0. t \in Nat \ {0}
    BY SMT
  <1> HIDE DEF t
  <1>1. x \in Nat /\ m \in Nat /\ v = t * x + m
    <2>1. x \in Nat /\ m \in 0..(t - 1) /\ v = t * x + m
      BY <1>0, Division
    <2> HIDE DEF x, m
    <2> QED BY <1>0, <2>1
  <1> HIDE DEF x, m
  <1>2. y \in Nat /\ s \in Nat /\ s < p /\ m = p * y + s
    <2>1. y \in Nat /\ s \in 0..(p - 1) /\ m = p * y + s
      BY <1>1, Division
    <2> HIDE DEF y, s
    <2> QED BY <2>1
  <1> HIDE DEF y, s
  <1>3. z \in Nat /\ d \in Nat /\ d < b /\ y = b * z + d
    <2>1. z \in Nat /\ d \in 0..(b - 1) /\ y = b * z + d
      BY <1>2, Division
    <2> HIDE DEF z, d
    <2> QED BY <2>1
  <1> HIDE DEF z, d
  <1>4. k \in Nat /\ t * x = p * (b * k)
    <2>1. k \in Nat
      BY <1>1, SMT
    <2>2. (r * (p * b)) * x = p * (b * (r * x))
      BY <1>1, SMT
    <2> QED BY <2>1, <2>2 DEF t, k
  <1> HIDE DEF k
  <1>5. b * k + y \in Nat /\ v = p * (b * k + y) + s
    <2>1. b * k \in Nat /\ p * (b * k + y) = p * (b * k) + p * y
      BY <1>2, <1>4, SMT
    <2> QED BY <1>1, <1>2, <1>4, <2>1
  <1>6. v \div p = b * k + y
    BY <1>2, <1>5, DivisionUnique
  <1>7. k + z \in Nat /\ b * k + y = b * (k + z) + d
    <2>1. b * (k + z) = b * k + b * z /\ b * k \in Nat /\ b * z \in Nat
      BY <1>3, <1>4, SMT
    <2> QED BY <1>3, <1>4, <2>1
  <1>8. (b * k + y) % b = d
    BY <1>3, <1>5, <1>7, DivisionUnique
  <1> QED BY <1>6, <1>8 DEF d, y, m, t

\* The last bytes of an integer hold what they have room for.
LEMMA IntegerRead ==
    ASSUME NEW width \in 1..8, NEW size \in 1..width, NEW value \in Nat
    PROVE  Shows(setInteger(width, value, size), value % Power[size])
  <1> DEFINE f == setInteger(width, value, size)
             t == Power[size]
             m == value % t
  <1>1. \A i \in 1..size : /\ i > size - width
                           /\ width - (i + width - size) = size - i
    OBVIOUS
  <1>2. /\ f = [i \in 1..size |-> f[i]]
        /\ \A i \in 1..size : f[i] = Digit(value, width, i + width - size)
    BY <1>1 DEF setInteger
  <1>3. \A i \in 1..size : /\ f[i][1] = "int"
                           /\ f[i][2] = (value \div Power[size - i]) % ByteValues
    BY <1>1, <1>2 DEF Digit
  <1> HIDE DEF f
  <1>4. size \in Nat /\ size \in 1..8
    OBVIOUS
  <1>5. t \in Nat \ {0}
    BY <1>4, Powers
  <1>6. m \in Nat /\ m < t
    <2> HIDE DEF t
    <2>1. m \in 0..(t - 1)
      BY <1>5, Division
    <2> HIDE DEF m
    <2> QED BY <1>5, <2>1
  <1>7. ASSUME NEW i \in 1..size
        PROVE  (value \div Power[size - i]) % ByteValues =
                  (m \div Power[size - i]) % ByteValues
    <2> DEFINE p == Power[size - i]
               k == (size - i) + 1
    <2>1. k \in 1..8 /\ k \in 0..8 /\ k - 1 = size - i /\ size \in k..8
          /\ size - i \in 0..8
      OBVIOUS
    <2>2. p \in Nat \ {0} /\ Power[k] = p * ByteValues
      BY <2>1, Powers
    <2>3. PICK r \in Nat \ {0} : t = r * Power[k]
      BY <2>1, PowerDivides
    <2>4. ByteValues \in Nat \ {0}
      BY ReadingsAssumption
    <2>5. t = r * (p * ByteValues)
      BY <2>2, <2>3
    <2> HIDE DEF t, p
    <2> DEFINE u == value % t
    <2>6. ((value % (r * (p * ByteValues))) \div p) % ByteValues =
             (value \div p) % ByteValues
      BY <2>2, <2>4, DigitKept, Zenon
    <2>7. u = value % (r * (p * ByteValues))
      BY <2>5, Zenon
    <2> HIDE DEF u
    <2>8. (u \div p) % ByteValues = (value \div p) % ByteValues
      BY <2>6, <2>7, Zenon
    <2> QED BY <2>8 DEF p, u
  <1> HIDE DEF m
  <1>8. Len(f) = size
    BY <1>2, <1>4, LengthOf
  <1>9. Number(f) = m
    <2>1. \A i \in 1..size : f[i][2] = (m \div Power[size - i]) % ByteValues
      BY <1>3, <1>7
    <2> QED BY <1>4, <1>6, <1>8, <2>1, DigitsRead
  <1>10. Shows(f, m)
    BY <1>3, <1>8, <1>9 DEF Shows
  <1> QED BY <1>10 DEF f, m

\* What is left of an integer that was cut to a width before.
LEMMA CutInteger ==
    ASSUME NEW width \in 1..8, NEW size \in 1..width, NEW value \in Nat
    PROVE  /\ value % Power[width] \in Nat
           /\ (value % Power[width]) % Power[size] = value % Power[size]
  <1> DEFINE p == Power[width]
             b == Power[size]
  <1>1. p \in Nat \ {0} /\ b \in Nat \ {0}
    BY Powers
  <1>2. PICK r \in Nat \ {0} : p = r * b
    BY PowerDivides
  <1> HIDE DEF p, b
  <1>3. (value % (r * b)) % b = value % b
    BY <1>1, <1>2, RemainderTwice
  <1>4. value % p \in 0..(p - 1)
    BY <1>1, Division
  <1> DEFINE c == value % p
  <1>5. c \in 0..(p - 1)
    BY <1>4
  <1> HIDE DEF c
  <1>6. c \in Nat
    BY <1>1, <1>5
  <1> QED BY <1>2, <1>3, <1>6 DEF p, b, c

LEMMA Uint32Read ==
    ASSUME NEW size \in 1..4, NEW value \in Nat
    PROVE  Shows(setUint32(value, size), value % Power[size])
  <1> DEFINE c == value % Power[4]
  <1>1. c \in Nat /\ c % Power[size] = value % Power[size]
    BY CutInteger
  <1> HIDE DEF c
  <1>2. Shows(setInteger(4, c, size), c % Power[size])
    BY <1>1, IntegerRead
  <1> QED BY <1>1, <1>2 DEF setUint32, c

LEMMA Uint64Read ==
    ASSUME NEW size \in 1..8, NEW value \in Nat
    PROVE  Shows(setUint64(value, size), value % Power[size])
  <1> DEFINE c == value % Power[8]
  <1>1. c \in Nat /\ c % Power[size] = value % Power[size]
    BY CutInteger
  <1> HIDE DEF c
  <1>2. Shows(setInteger(8, c, size), c % Power[size])
    BY <1>1, IntegerRead
  <1> QED BY <1>1, <1>2 DEF setUint64, c

Bandwidth == "Aurora bandw."

\* What the callbacks rely on: type and size of the sensors they are for.
BeanFits(b) ==
    /\ b.size \in Nat
    /\ b.type = "FLOAT" => b.size = 8
    /\ b.update.as = "double" => b.type = "FLOAT"
    /\ b.update.as \in {"uint32", "uint64"} => b.type # "FLOAT" /\ b.type # "STR"
    /\ b.update.as = "uint32" => b.size \in 1..4
    /\ b.update.as = "uint64" => b.size \in 1..8
    /\ b.name = Bandwidth => b.type = "U32" /\ b.size \in 1..8
    /\ b.update.as = "link" => b.type = "STR" /\ b.size = 82
    /\ b.update.as = "status" => b.type = "STR" /\ b.size = 14
    /\ b.update.as = "file" => /\ b.type = "U8" => b.size = 1
                               /\ b.type = "U16" => b.size = 2
    /\ b.update.as = "json" => b.name = "json" /\ b.size \in 1..8
    /\ b.name = "json" => b.update.as = "json"

LEMMA BeansFit == \A b \in Beans : BeanFits(b)
  <1>1. \A b \in SensorProviderJetson : BeanFits(b)
    <2>1. \A b \in SensorProviderJetson : \E n, q :
             n \notin {Bandwidth, "json"} /\ b = Bean(n, "FLOAT", 8, Milli(q))
      BY Zenon DEF SensorProviderJetson, Bandwidth, updatePowerCpu, updatePowerGpu,
           updatePowerSoC, updatePowerCv, updatePowerSys5V, updateTempSoC
    <2>2. ASSUME NEW n, NEW q, n \notin {Bandwidth, "json"}
          PROVE  BeanFits(Bean(n, "FLOAT", 8, Milli(q)))
      BY <2>2 DEF Bean, Milli, BeanFits
    <2> QED BY <2>1, <2>2
  <1>2. \A b \in SensorProviderSystem : BeanFits(b)
    <2>1. \A b \in SensorProviderSystem : \E n, q :
             n \notin {Bandwidth, "json"} /\ b = Bean(n, "U64", 8, Whole(q, "uint64"))
      BY Zenon DEF SensorProviderSystem, Bandwidth, updateMemoryFree, updateDiskFree
    <2>2. ASSUME NEW n, NEW q, n \notin {Bandwidth, "json"}
          PROVE  BeanFits(Bean(n, "U64", 8, Whole(q, "uint64")))
      BY <2>2 DEF Bean, Whole, BeanFits
    <2> QED BY <2>1, <2>2
  <1>3. \A b \in SensorProviderZynq : BeanFits(b)
    <2>1. \A b \in SensorProviderZynq : \E n, q :
             \/ n \notin {Bandwidth, "json"} /\ b = Bean(n, "STR", 82, Whole(q, "link"))
             \/ n \notin {Bandwidth, "json"} /\ b = Bean(n, "U8", 1, Whole(q, "uint32"))
             \/ n \notin {Bandwidth, "json"} /\ b = Bean(n, "U32", 4, Whole(q, "uint32"))
             \/ b = Bean(Bandwidth, "U32", 1, Whole(q, "none"))
      BY Zenon DEF SensorProviderZynq, Bandwidth, updateLink, updateUtilization,
                   updateFrameErr, updateSoftErr
    <2>2. ASSUME NEW n, NEW q, n \notin {Bandwidth, "json"}
          PROVE  /\ BeanFits(Bean(n, "STR", 82, Whole(q, "link")))
                 /\ BeanFits(Bean(n, "U8", 1, Whole(q, "uint32")))
                 /\ BeanFits(Bean(n, "U32", 4, Whole(q, "uint32")))
      BY <2>2 DEF Bean, Whole, BeanFits
    <2>3. ASSUME NEW q
          PROVE  BeanFits(Bean(Bandwidth, "U32", 1, Whole(q, "none")))
      BY DEF Bean, Whole, BeanFits, Bandwidth
    <2> QED BY <2>1, <2>2, <2>3
  <1>4. "link" # Bandwidth /\ "file" # Bandwidth /\ "json" # Bandwidth
    BY DEF Bandwidth
  <1>5. \A b \in LinuxSensorProviderEth : BeanFits(b)
    BY <1>4 DEF LinuxSensorProviderEth, Bean, BeanFits, Whole, updateLinkStatus
  <1>6. \A b \in SensorFileReader : BeanFits(b)
    BY <1>4 DEF SensorFileReader, Bean, BeanFits, Whole
  <1>7. \A b \in JSONSensors : BeanFits(b)
    BY <1>4 DEF JSONSensors, Bean, BeanFits, Whole
  <1> QED BY <1>1, <1>2, <1>3, <1>5, <1>6, <1>7 DEF Beans

\* Of the lanes of a link that is not up, some but not all are up.
LEMMA LanesUp ==
    ASSUME NEW avail \in SUBSET (1..Lanes), NEW lanes \in SUBSET (1..Lanes),
           lanes # avail
    PROVE  Cardinality(avail \cap lanes) \in 0..7
  <1> DEFINE all == 1..Lanes
             both == avail \cap lanes
             c == Cardinality(both)
  <1>1. Lanes \in 0..8
    BY ReadingsAssumption
  <1>2. IsFiniteSet(all) /\ Cardinality(all) = Lanes
    <2>1. 1 \in Int /\ Lanes \in Int
      BY <1>1
    <2>2. IsFiniteSet(1..Lanes)
          /\ Cardinality(1..Lanes) = IF 1 > Lanes THEN 0 ELSE Lanes - 1 + 1
      BY <2>1, FS_Interval
    <2> QED BY <1>1, <2>2
  <1>3. both \in SUBSET all /\ both # all
    OBVIOUS
  <1> HIDE DEF all, both
  <1>4. /\ IsFiniteSet(both) /\ c <= Lanes
        /\ c = Lanes => both = all
    BY <1>2, <1>3, FS_Subset
  <1>5. c \in Nat
    BY <1>4, FS_CardinalityType
  <1> HIDE DEF c
  <1>6. c \in 0..7
    BY <1>1, <1>3, <1>4, <1>5
  <1> QED BY <1>6 DEF c, both

LEMMA LinkTextShort ==
    ASSUME NEW up \in BOOLEAN, NEW hardErr \in BOOLEAN, NEW notLocked \in BOOLEAN,
           NEW avail \in SUBSET (1..Lanes), NEW lanes \in SUBSET (1..Lanes)
    PROVE  LinkText(up, avail, lanes, hardErr, notLocked) \in 0..68
  <1> DEFINE list == ListLength(Cardinality(avail \cap lanes))
             first == CASE up -> 10
                        [] ~up /\ lanes = avail -> 27
                        [] ~up /\ lanes # avail /\ lanes = {} -> 29
                        [] OTHER -> 20 + list + 4
             hard == IF hardErr THEN 9 ELSE 0
             lock == IF notLocked THEN 16 ELSE 0
  <1>1. LinkText(up, avail, lanes, hardErr, notLocked) = first + hard + lock
    BY DEF LinkText
  <1>2. hard \in 0..9 /\ lock \in 0..16
    OBVIOUS
  <1>3. first \in 0..43
    <2>1. CASE up
      <3>1. first = 10
        BY <2>1
      <3> QED BY <3>1
    <2>2. CASE ~up /\ lanes = avail
      <3>1. first = 27
        BY <2>2
      <3> QED BY <3>1
    <2>3. CASE ~up /\ lanes # avail /\ lanes = {}
      <3>1. first = 29
        BY <2>3
      <3> QED BY <3>1
    <2>4. CASE ~up /\ lanes # avail /\ lanes # {}
      <3>1. first = 20 + list + 4
        <4> HIDE DEF list
        <4> QED BY <2>4
      <3> DEFINE n == Cardinality(avail \cap lanes)
      <3>2. n \in 0..7 /\ list = ListLength(n)
        BY <2>4, LanesUp
      <3> HIDE DEF n, list
      <3>3. list \in 0..19
        BY <3>2 DEF ListLength
      <3> HIDE DEF first
      <3> QED BY <3>1, <3>3
    <2> QED BY <2>1, <2>2, <2>3, <2>4
  <1> HIDE DEF first, hard, lock
  <1> QED BY <1>1, <1>2, <1>3

\* Every text of updateLink has room for its end in 82 bytes.
LEMMA LinkTextsFit == \A text \in LinkTexts : text \in Nat /\ text < 82
  <1> SUFFICES ASSUME NEW text \in LinkTexts PROVE text \in Nat /\ text < 82
    OBVIOUS
  <1> DEFINE front == {LinkText(up, avail, lanes, hardErr, notLocked) :
                          avail, lanes \in SUBSET (1..Lanes),
                          up, hardErr, notLocked \in BOOLEAN}
  <1>1. \A x \in front : x \in 0..68
    BY LinkTextShort
  <1>2. PICK x \in front, digits \in 1..8 : text = x + 5 + digits
    BY DEF LinkTexts
  <1> HIDE DEF front
  <1> QED BY <1>1, <1>2

LEMMA ReadsFloat ==
    ASSUME NEW b, b.type = "FLOAT", NEW v
    PROVE  Reads(b, setDouble(v, 8), v)
  <1>1. setDouble(v, 8) = [i \in 1..8 |-> <<"real", v, i>>]
    BY DEF setDouble
  <1> QED BY <1>1 DEF Reads

\* Whatever text was there before, a text that has room for its end is read.
LEMMA ReadsText ==
    ASSUME NEW b, b.type = "STR", NEW size \in Nat, NEW v \in Nat, v < size,
           NEW old
    PROVE  Reads(b, setString(v, size, old), v)
  <1> DEFINE f == setString(v, size, old)
  <1>1. /\ f = [i \in 1..size |-> f[i]]
        /\ \A i \in 1..size : i <= v + 1 => f[i] = Char(v, i)
    BY DEF setString
  <1>2. \A i \in 1..(v + 1) : i \in 1..size /\ i <= v + 1
    OBVIOUS
  <1> HIDE DEF f
  <1>3. Len(f) = size
    BY <1>1, LengthOf
  <1>4. v < Len(f) /\ \A i \in 1..(v + 1) : f[i] = Char(v, i)
    BY <1>1, <1>2, <1>3
  <1>5. Reads(b, f, v)
    BY <1>4 DEF Reads
  <1> QED BY <1>5 DEF f

LEMMA ReadsInteger ==
    ASSUME NEW b, b.type # "FLOAT", b.type # "STR", NEW bytes, NEW v,
           Shows(bytes, v)
    PROVE  Reads(b, bytes, v)
  BY DEF Reads, Shows

\* What the controller should read, by the type of the sensor.
LEMMA ExpectedIs ==
    ASSUME NEW b, NEW m
    PROVE  /\ b.type = "FLOAT" =>
                 Expected(b, m) = IF b.update.as = "double" THEN Saturated(m.value)
                                  ELSE m.value
           /\ b.type = "STR" => Expected(b, m) = m.value
           /\ (b.type # "FLOAT" /\ b.type # "STR") =>
                 Expected(b, m) = m.value % Power[b.size]
  BY DEF Expected

LEMMA GarbledIs ==
    ASSUME NEW b, NEW m, b.name = "json", ~Garbled(b, m)
    PROVE  /\ b.type = "FLOAT" => m.by = "double"
           /\ b.type = "STR" => ~(m.value >= b.size)
           /\ (b.type # "FLOAT" /\ b.type # "STR") =>
                 m.by # "double" /\ ~(b.size > 4)
  BY DEF Garbled

LEMMA TookIs ==
    ASSUME NEW by, NEW value, NEW bytes, Took(by, value, bytes)
    PROVE  /\ bean' = bean /\ mData' = bytes
           /\ measured'.by = by /\ measured'.value = value
           /\ measured'.of = bean.update.reads
  BY DEF Took

\* A sensor with a callback for the quantity of its name shows that quantity.
LEMMA NamedShows ==
    ASSUME NEW n, NEW t, NEW s, NEW a, n # "Power DDR"
    PROVE  LET b == Bean(n, t, s, [reads |-> n, as |-> a]) IN
           b.update.reads = Shown(b)
  BY DEF Bean, Shown

\* The quantities that the callbacks read.
LEMMA BeansShow == \A b \in Beans : b.update.reads = Shown(b)
  <1> DEFINE Named(b) == \E n, t, s, a :
                 n # "Power DDR" /\ b = Bean(n, t, s, [reads |-> n, as |-> a])
  <1>1. \A b : Named(b) => b.update.reads = Shown(b)
    BY NamedShows
  <1>2. \A b \in SensorProviderJetson :
            Named(b) \/ b = Bean("Power DDR", "FLOAT", 8, Milli("Power SoC"))
    BY Zenon DEF SensorProviderJetson, Milli, updatePowerCpu, updatePowerGpu,
       updatePowerSoC, updatePowerCv, updatePowerSys5V, updateTempSoC
  <1>3. \A b \in SensorProviderSystem : Named(b)
    BY Zenon DEF SensorProviderSystem, Whole, updateMemoryFree, updateDiskFree
  <1>4. \A b \in SensorProviderZynq : Named(b)
    BY Zenon DEF SensorProviderZynq, Whole, updateLink, updateUtilization,
       updateFrameErr, updateSoftErr
  <1>5. \A b \in LinuxSensorProviderEth : Named(b)
    BY Zenon DEF LinuxSensorProviderEth, Whole, updateLinkStatus
  <1>6. \A b \in SensorFileReader \cup JSONSensors : Named(b)
    BY Zenon DEF SensorFileReader, JSONSensors, Whole
  <1>7. ASSUME NEW b, b = Bean("Power DDR", "FLOAT", 8, Milli("Power SoC"))
        PROVE  b.update.reads = Shown(b)
    BY <1>7 DEF Bean, Milli, Shown
  <1> HIDE DEF Named
  <1> QED BY <1>1, <1>2, <1>3, <1>4, <1>5, <1>6, <1>7, Zenon DEF Beans

ReadingInv == bean \in Beans /\ ReadingFaithful

LEMMA ReadingKeeps ==
    ASSUME ReadingInv, ReadingsNext
    PROVE  ReadingInv'
  <1>0. BeanFits(bean) /\ bean \in Beans
    BY BeansFit DEF ReadingInv
  <1>1. ASSUME NEW by, NEW v, NEW bytes, Took(by, v, bytes),
               by # "none" /\ ~Garbled(bean, measured') =>
                   Reads(bean, bytes, Expected(bean, measured'))
        PROVE  ReadingInv'
    <2>1. measured'.of = Shown(bean)
      BY <1>0, <1>1, TookIs, BeansShow
    <2> QED BY <1>0, <1>1, <2>1, TookIs DEF ReadingInv, ReadingFaithful
  <1>2. ASSUME NEW q \in Nat, NEW by, NEW bytes, Took(by, q, bytes),
               bean.type # "FLOAT", bean.type # "STR",
               Shows(bytes, q % Power[bean.size])
        PROVE  ReadingInv'
    <2>1. Expected(bean, measured') = q % Power[bean.size]
      BY <1>2, TookIs, ExpectedIs
    <2>2. Reads(bean, bytes, q % Power[bean.size])
      BY <1>2, ReadsInteger
    <2> QED BY <1>1, <1>2, <2>1, <2>2
  <1>3. ASSUME NEW text \in Nat, Took("string", text, setString(text, bean.size, mData)),
               bean.type = "STR", bean.size \in Nat,
               ~Garbled(bean, measured') => text < bean.size
        PROVE  ReadingInv'
    <2>1. Expected(bean, measured') = text
      BY <1>3, TookIs, ExpectedIs
    <2>2. text < bean.size => Reads(bean, setString(text, bean.size, mData), text)
      BY <1>3, ReadsText
    <2> QED BY <1>1, <1>3, <2>1, <2>2
  <1>4. CASE UpdateDouble
    <2>1. PICK q \in Quantities :
               \/ Took("double", q, setDouble(Saturated(q), bean.size))
               \/ Took("none", 0, setDouble(Saturated(q), bean.size))
      BY <1>4 DEF UpdateDouble
    <2>2. bean.type = "FLOAT" /\ bean.size = 8 /\ bean.update.as = "double"
      BY <1>0, <1>4 DEF UpdateDouble, BeanFits
    <2>3. Reads(bean, setDouble(Saturated(q), bean.size), Saturated(q))
      BY <2>2, ReadsFloat
    <2>4. CASE Took("double", q, setDouble(Saturated(q), bean.size))
      <3>1. Expected(bean, measured') = Saturated(q)
        BY <2>2, <2>4, TookIs, ExpectedIs
      <3> QED BY <1>1, <2>3, <2>4, <3>1
    <2>5. CASE Took("none", 0, setDouble(Saturated(q), bean.size))
      BY <1>1, <2>5
    <2> QED BY <2>1, <2>4, <2>5
  <1>5. CASE UpdateInteger
    <2>1. PICK q \in Quantities :
               Took(bean.update.as, q,
                    IF bean.update.as = "uint32" THEN setUint32(q, bean.size)
                    ELSE setUint64(q, bean.size))
      BY <1>5 DEF UpdateInteger
    <2>2. q \in Nat
      BY ReadingsAssumption
    <2>3. bean.type # "FLOAT" /\ bean.type # "STR"
      BY <1>0, <1>5 DEF UpdateInteger, BeanFits
    <2>4. CASE bean.update.as = "uint32"
      <3>1. bean.size \in 1..4
        BY <1>0, <2>4 DEF BeanFits
      <3>2. Shows(setUint32(q, bean.size), q % Power[bean.size])
        BY <2>2, <3>1, Uint32Read
      <3> QED BY <1>2, <2>1, <2>2, <2>3, <2>4, <3>2
    <2>5. CASE bean.update.as # "uint32"
      <3>1. bean.size \in 1..8
        BY <1>0, <1>5, <2>5 DEF BeanFits, UpdateInteger
      <3>2. Shows(setUint64(q, bean.size), q % Power[bean.size])
        BY <2>2, <3>1, Uint64Read
      <3> QED BY <1>2, <2>1, <2>2, <2>3, <2>5, <3>2
    <2> QED BY <2>4, <2>5
  <1>6. CASE SetBandwidth
    <2>1. PICK q \in Quantities : Took("uint64", q, setUint64(q, bean.size))
      BY <1>6 DEF SetBandwidth
    <2>2. q \in Nat
      BY ReadingsAssumption
    <2>3. bean.name = Bandwidth
      BY <1>6, Zenon DEF SetBandwidth, Bandwidth
    <2>4. bean.type # "FLOAT" /\ bean.type # "STR" /\ bean.size \in 1..8
      BY <1>0, <2>3 DEF BeanFits
    <2>5. Shows(setUint64(q, bean.size), q % Power[bean.size])
      BY <2>2, <2>4, Uint64Read
    <2> QED BY <1>2, <2>1, <2>2, <2>4, <2>5
  <1>7. CASE UpdateLink
    <2>1. PICK text \in LinkTexts :
               Took("string", text, setString(text, bean.size, mData))
      BY <1>7 DEF UpdateLink
    <2>2. bean.type = "STR" /\ bean.size = 82
      BY <1>0, <1>7 DEF UpdateLink, BeanFits
    <2>3. text \in Nat /\ text < bean.size /\ bean.size \in Nat
      BY <2>2, LinkTextsFit
    <2> QED BY <1>3, <2>1, <2>2, <2>3
  <1>8. CASE UpdateLinkStatus
    <2>1. PICK text \in {7, 4} \cup {n + 7 : n \in 1..6} :
               Took("string", text, setString(text, bean.size, mData))
      BY <1>8 DEF UpdateLinkStatus
    <2>2. bean.type = "STR" /\ bean.size = 14
      BY <1>0, <1>8 DEF UpdateLinkStatus, BeanFits
    <2>3. text \in Nat /\ text < bean.size /\ bean.size \in Nat
      BY <2>2
    <2> QED BY <1>3, <2>1, <2>2, <2>3
  <1>9. ASSUME NEW q \in Quantities, bean.type = "FLOAT", bean.update.as # "double",
               Took("double", q, setDouble(q, bean.size))
        PROVE  ReadingInv'
    <2>1. bean.size = 8
      BY <1>0, <1>9 DEF BeanFits
    <2>2. Reads(bean, setDouble(q, bean.size), q)
      BY <1>9, <2>1, ReadsFloat
    <2>3. Expected(bean, measured') = q
      BY <1>9, TookIs, ExpectedIs
    <2> QED BY <1>1, <1>9, <2>2, <2>3
  <1>10. CASE ReadFile
    <2>0. bean.update.as = "file" /\ bean.update.as # "double"
      BY <1>0, <1>10 DEF ReadFile, BeanFits
    <2>1. CASE Took("none", 0, setInteger(bean.size, 0, bean.size))
      BY <1>1, <2>1
    <2>2. ASSUME NEW q \in Quantities, NEW by, bean.type \in {"U8", "U16"},
                 Took(by, q, setUint32(q, bean.size))
          PROVE  ReadingInv'
      <3>1. bean.size \in 1..4 /\ q \in Nat
        BY <1>0, <2>0, <2>2, ReadingsAssumption DEF BeanFits
      <3>2. Shows(setUint32(q, bean.size), q % Power[bean.size])
        BY <3>1, Uint32Read
      <3> QED BY <1>2, <2>2, <3>1, <3>2
    <2> QED BY <1>9, <1>10, <2>0, <2>1, <2>2 DEF ReadFile
  <1>11. CASE UpdateJSON
    <2>0. /\ bean.name = "json" /\ bean.size \in 1..8 /\ bean.size \in Nat
          /\ bean.update.as # "double"
      BY <1>0, <1>11 DEF UpdateJSON, BeanFits
    <2>1. ASSUME NEW q \in Quantities, bean.type = "STR",
                 Took("string", q, setString(q, bean.size, mData))
          PROVE  ReadingInv'
      <3>1. q \in Nat
        BY ReadingsAssumption
      <3>2. ~Garbled(bean, measured') => ~(q >= bean.size)
        BY <2>0, <2>1, GarbledIs, TookIs
      <3>3. ~Garbled(bean, measured') => q < bean.size
        BY <2>0, <3>1, <3>2
      <3> QED BY <1>3, <2>0, <2>1, <3>1, <3>3
    <2>2. ASSUME NEW q \in Quantities, bean.type # "STR",
                 Took("double", q, setDouble(q, bean.size))
          PROVE  ReadingInv'
      <3>1. ~Garbled(bean, measured') => bean.type = "FLOAT"
        BY <2>0, <2>2, GarbledIs, TookIs
      <3>2. CASE bean.type = "FLOAT"
        BY <1>9, <2>0, <2>2, <3>2
      <3>3. CASE bean.type # "FLOAT"
        BY <1>1, <2>2, <3>1, <3>3
      <3> QED BY <3>2, <3>3
    <2>3. ASSUME NEW q \in Quantities, bean.type # "STR",
                 Took("uint32", q, setUint32(q, bean.size))
          PROVE  ReadingInv'
      <3>1. q \in Nat
        BY ReadingsAssumption
      <3>2. ~Garbled(bean, measured') => bean.type # "FLOAT" /\ ~(bean.size > 4)
        BY <2>0, <2>3, GarbledIs, TookIs
      <3>3. CASE bean.type # "FLOAT" /\ ~(bean.size > 4)
        <4>1. bean.size \in 1..4
          BY <2>0, <3>3
        <4>2. Shows(setUint32(q, bean.size), q % Power[bean.size])
          BY <3>1, <4>1, Uint32Read
        <4> QED BY <1>2, <2>3, <3>1, <3>3, <4>2
      <3>4. CASE ~(bean.type # "FLOAT" /\ ~(bean.size > 4))
        BY <1>1, <2>3, <3>2, <3>4
      <3> QED BY <3>3, <3>4
    <2> QED BY <1>11, <2>1, <2>2, <2>3 DEF UpdateJSON
  <1>12. CASE UpdateFails
    <2>1. bean' = bean /\ mData' = mData /\ measured' = measured
      BY <1>12 DEF UpdateFails, readingVars
    <2> QED BY <2>1 DEF ReadingInv, ReadingFaithful
  <1> QED BY <1>4, <1>5, <1>6, <1>7, <1>8, <1>10, <1>11, <1>12 DEF ReadingsNext

(***************************************************************************)
(* Whatever number of values a byte has and whatever a sensor was given,   *)
(* the controller reads from the data message that value: a Jetson power   *)
(* up to the largest uint16_t, an integer modulo what its bytes hold, a    *)
(* text whole.  The JSON values that Garbled names are excepted.  A sensor *)
(* is given the quantity of its name, but Power DDR that of the SoC.  The  *)
(* texts of an Aurora link of up to eight lanes always have room for their *)
(* end (SensorBean.h and the update callbacks of the plugins).             *)
(***************************************************************************)
THEOREM ReadingsAreFaithful == Spec => []ReadingFaithful
  <1>1. Init => ReadingInv
    <2> SUFFICES ASSUME Init PROVE ReadingInv
      OBVIOUS
    <2>1. bean \in Beans /\ measured.by = "none"
      BY DEF Init, ReadingsInit, Never
    <2> QED BY <2>1 DEF ReadingInv, ReadingFaithful
  <1>2. ReadingInv /\ [Next]_vars => ReadingInv'
    <2> SUFFICES ASSUME ReadingInv, [Next]_vars PROVE ReadingInv'
      OBVIOUS
    <2>1. CASE ReadingsNext
      BY <2>1, ReadingKeeps
    <2>2. CASE UNCHANGED readingVars
      <3>1. bean' = bean /\ mData' = mData /\ measured' = measured
        BY <2>2 DEF readingVars
      <3> QED BY <3>1 DEF ReadingInv, ReadingFaithful
    <2>3. CASE RatesNext
      <3>1. UNCHANGED readingVars
        BY <2>3 DEF RatesNext, Tick, ReadRx, ReadTx, ReadFails, EthFirst,
           UpdateRates, TakeOver, UpdateCpuUtilization
      <3> QED BY <2>2, <3>1
    <2> QED BY <2>1, <2>2, <2>3 DEF Next, vars
  <1>3. ReadingInv => ReadingFaithful
    BY DEF ReadingInv
  <1> QED BY <1>1, <1>2, <1>3, PTL DEF Spec
-----------------------------------------------------------------------------
(* The rates.                                                              *)

Counts == [time : Nat, rx : Nat, tx : Nat, work : Nat, total : Nat]

AnyRate == [value : Int, interval : Int, least : Int, most : Int]

\* The counter of a direction, at the moments that it was looked at.
InOrder(field) ==
    /\ span.before[field] <= mLast[field]
    /\ mLast[field] <= span.after[field]
    /\ span.after[field] <= counters[field]
    /\ sample.stage # "none" =>
          /\ span.after[field] <= sample.began[field]
          /\ sample.began[field] <= counters[field]
    /\ sample.stage = "tx" \/ (sample.stage = "rx" /\ field = "rx") =>
          /\ sample.began[field] <= sample[field]
          /\ sample[field] <= counters[field]

RateTypes ==
    /\ counters \in Counts /\ mLast \in Counts
    /\ span \in [before : Counts, after : Counts]
    /\ sample \in [stage : {"none", "rx", "tx"}, rx : Nat, tx : Nat,
                   began : Counts]
    /\ rates \in [rx : AnyRate, tx : AnyRate, work : Int, total : Int]
    /\ reported \in [rx : Int, tx : Int]

\* The counters were looked at in order, and since the last update the
\* processor worked no more than all of the time.
RatesInv ==
    /\ RateTypes
    /\ mLast.time <= counters.time
    /\ InOrder("rx") /\ InOrder("tx")
    /\ counters.work - mLast.work <= counters.total - mLast.total
    /\ RatesFaithful

\* What a quotient that is cut to a whole number says of its operands.
LEMMA QuotientIs ==
    ASSUME NEW count \in Nat, NEW interval \in Nat, interval > 0
    PROVE  IF Quotient(count, interval) = Undefined
           THEN count >= Power[4] * interval
           ELSE /\ Quotient(count, interval) * interval <= count
                /\ count < (Quotient(count, interval) + 1) * interval
  <1> DEFINE q == count \div interval
             r == count % interval
             p == Power[4]
  <1>1. /\ q \in Nat /\ r \in 0..(interval - 1)
        /\ count = interval * q + r
    BY Division
  <1>2. p \in Nat
    <2>1. 4 \in 0..8
      OBVIOUS
    <2> QED BY <2>1, Powers
  <1>3. Quotient(count, interval) = IF q < p THEN q ELSE Undefined
    BY DEF Quotient
  <1>4. Undefined = -1
    BY DEF Undefined
  <1> HIDE DEF q, r, p
  <1>5. interval * q = q * interval /\ (q + 1) * interval = q * interval + interval
        /\ q * interval \in Nat
    BY <1>1, SMT
  <1>6. CASE q < p
    <2>1. Quotient(count, interval) = q /\ q # Undefined
      BY <1>1, <1>3, <1>4, <1>6
    <2>2. q * interval <= count /\ count < (q + 1) * interval
      <3> DEFINE t == q * interval
                 u == (q + 1) * interval
      <3>1. t \in Nat /\ u = t + interval /\ count = t + r
        BY <1>1, <1>5
      <3> HIDE DEF t, u
      <3>2. t <= count /\ count < u
        BY <1>1, <3>1
      <3> QED BY <3>2 DEF t, u
    <2> QED BY <2>1, <2>2
  <1>7. CASE ~(q < p)
    <2>1. p * interval <= q * interval
      BY <1>1, <1>2, <1>7, TimesMonotonic
    <2> DEFINE t == q * interval
               u == p * interval
    <2>2. t \in Nat /\ u \in Nat /\ count = t + r /\ u <= t
      BY <1>1, <1>2, <1>5, <2>1, SMT
    <2> HIDE DEF t, u
    <2>3. count >= u
      BY <1>1, <2>2
    <2> QED BY <1>3, <1>7, <2>3 DEF p, u
  <1> QED BY <1>6, <1>7

\* The rate of one direction.
LEMMA RateIsBounded ==
    ASSUME RatesInv, sample.stage = "tx", NEW field \in {"rx", "tx"}
    PROVE  RateBounded(Rate(field)) /\ Rate(field) \in AnyRate
  <1> DEFINE before == span.before[field]
             last == mLast[field]
             after == span.after[field]
             began == sample.began[field]
             taken == sample[field]
             now == counters[field]
             interval == counters.time - mLast.time
             count == taken - last
             v == Quotient(count, interval)
  <1>1. /\ before \in Nat /\ last \in Nat /\ after \in Nat /\ began \in Nat
        /\ taken \in Nat /\ now \in Nat
    BY DEF RatesInv, RateTypes, Counts
  <1>2. /\ before <= last /\ last <= after /\ after <= began
        /\ began <= taken /\ taken <= now
    BY DEF RatesInv, InOrder
  <1>3. interval \in Nat
    <2>1. counters.time \in Nat /\ mLast.time \in Nat
          /\ mLast.time <= counters.time
      BY DEF RatesInv, RateTypes, Counts
    <2> QED BY <2>1
  <1>4. Rate(field) = [value |-> v, interval |-> interval,
                       least |-> began - after, most |-> now - before]
    BY DEF Rate
  <1> HIDE DEF before, last, after, began, taken, now, interval
  <1>5. /\ count \in Nat /\ began - after <= count /\ count <= now - before
        /\ began - after \in Int /\ now - before \in Int
    BY <1>1, <1>2
  <1> HIDE DEF count
  <1>6. v \in Int
    <2>1. CASE interval > 0
      <3>0. interval \in Nat \ {0}
        BY <1>3, <2>1
      <3>1. count \div interval \in Nat
        BY <1>5, <3>0, Division
      <3> QED BY <3>1 DEF Quotient, Undefined
    <2>2. CASE ~(interval > 0)
      BY <2>2 DEF Quotient, Undefined
    <2> QED BY <2>1, <2>2
  <1>7. Rate(field) \in AnyRate
    BY <1>3, <1>4, <1>5, <1>6 DEF AnyRate
  <1>8. ASSUME interval > 0
        PROVE  IF v = Undefined THEN now - before >= Power[4] * interval
               ELSE /\ v * interval <= now - before
                    /\ began - after < (v + 1) * interval
    <2> DEFINE u == Power[4] * interval
               w == v * interval
               x == (v + 1) * interval
    <2>1. IF v = Undefined THEN count >= u ELSE w <= count /\ count < x
      BY <1>3, <1>5, <1>8, QuotientIs
    <2>2. u \in Int /\ w \in Int /\ x \in Int
      <3>1. 4 \in 0..8
        OBVIOUS
      <3>2. Power[4] \in Nat
        BY <3>1, Powers
      <3> HIDE DEF v
      <3> QED BY <1>3, <1>6, <3>2, SMT
    <2> HIDE DEF u, w, x, v
    <2>3. IF v = Undefined THEN now - before >= u
          ELSE w <= now - before /\ began - after < x
      BY <1>5, <2>1, <2>2
    <2> QED BY <2>3 DEF u, w, x
  <1> HIDE DEF v
  <1>9. RateBounded(Rate(field))
    BY <1>4, <1>8 DEF RateBounded
  <1> QED BY <1>7, <1>9

\* What an update leaves behind.
LEMMA TakenOver ==
    ASSUME RatesInv, sample.stage = "tx", TakeOver
    PROVE  /\ InOrder("rx")' /\ InOrder("tx")'
           /\ counters' = counters /\ mLast' \in Counts /\ sample' = NoSample
           /\ span' \in [before : Counts, after : Counts]
           /\ mLast'.time = counters.time
           /\ mLast'.rx = sample.rx /\ mLast'.tx = sample.tx
           /\ mLast'.work = mLast.work /\ mLast'.total = mLast.total
  <1>1. /\ counters \in Counts /\ mLast \in Counts /\ sample.began \in Counts
        /\ sample.rx \in Nat /\ sample.tx \in Nat
    BY DEF RatesInv, RateTypes
  <1>2. /\ sample.began.rx <= sample.rx /\ sample.rx <= counters.rx
        /\ sample.began.tx <= sample.tx /\ sample.tx <= counters.tx
    BY DEF RatesInv, InOrder
  <1>3. /\ mLast' = [mLast EXCEPT !.time = counters.time, !.rx = sample.rx,
                                  !.tx = sample.tx]
        /\ span' = [before |-> sample.began, after |-> counters]
        /\ sample' = NoSample /\ counters' = counters
    BY DEF TakeOver
  <1>4. /\ mLast' \in Counts
        /\ mLast'.time = counters.time
        /\ mLast'.rx = sample.rx /\ mLast'.tx = sample.tx
        /\ mLast'.work = mLast.work /\ mLast'.total = mLast.total
    BY <1>1, <1>3 DEF Counts
  <1>5. /\ span'.before = sample.began /\ span'.after = counters
        /\ span' \in [before : Counts, after : Counts]
    BY <1>1, <1>3
  <1>6. sample'.stage = "none"
    BY <1>3 DEF NoSample
  <1>7. counters.rx <= counters.rx /\ counters.tx <= counters.tx
    BY <1>1 DEF Counts
  <1> QED BY <1>2, <1>3, <1>4, <1>5, <1>6, <1>7 DEF InOrder

LEMMA NothingSampled ==
    NoSample \in [stage : {"none", "rx", "tx"}, rx : Nat, tx : Nat, began : Counts]
  BY DEF NoSample, Zero, Counts

LEMMA RatesKeep ==
    ASSUME RatesInv, RatesNext
    PROVE  RatesInv'
  <1>0. /\ counters \in Counts /\ mLast \in Counts
        /\ span.before \in Counts /\ span.after \in Counts
        /\ sample.began \in Counts /\ sample.rx \in Nat /\ sample.tx \in Nat
    BY DEF RatesInv, RateTypes
  <1>1. CASE Tick
    <2>1. PICK rx \in Bursts, tx \in Bursts, work \in 0..1 :
             counters' = [time |-> counters.time + 1, rx |-> counters.rx + rx,
                          tx |-> counters.tx + tx,
                          work |-> counters.work + work,
                          total |-> counters.total + 1]
      BY <1>1 DEF Tick
    <2>2. UNCHANGED <<mLast, sample, span, rates, reported>>
      BY <1>1 DEF Tick
    <2>3. rx \in Nat /\ tx \in Nat
      BY ReadingsAssumption
    <2>4. /\ counters' \in Counts
          /\ counters'.work <= counters.work + 1
          /\ counters'.total = counters.total + 1
          /\ counters.time <= counters'.time
          /\ counters.rx <= counters'.rx /\ counters.tx <= counters'.tx
      BY <1>0, <2>1, <2>3 DEF Counts
    <2>5. /\ counters'.work - mLast.work <= counters'.total - mLast.total
          /\ mLast.time <= counters'.time
      BY <1>0, <2>4 DEF RatesInv, Counts
    <2>6. InOrder("rx")'
      BY <1>0, <2>2, <2>4 DEF RatesInv, InOrder, Counts
    <2>7. InOrder("tx")'
      BY <1>0, <2>2, <2>4 DEF RatesInv, InOrder, Counts
    <2> QED BY <2>2, <2>4, <2>5, <2>6, <2>7 DEF RatesInv, RateTypes,
                                                RatesFaithful, RateBounded
  <1>2. ASSUME UNCHANGED <<mLast, counters, span, rates, reported>>,
               sample' \in [stage : {"none", "rx", "tx"}, rx : Nat, tx : Nat,
                            began : Counts],
               InOrder("rx")', InOrder("tx")'
        PROVE  RatesInv'
    BY <1>2 DEF RatesInv, RateTypes, RatesFaithful, RateBounded
  <1>3. CASE ReadRx
    <2>1. /\ sample' = [stage |-> "rx", rx |-> counters.rx, tx |-> 0,
                        began |-> counters]
          /\ UNCHANGED <<mLast, counters, span, rates, reported>>
      BY <1>3 DEF ReadRx
    <2>2. sample' \in [stage : {"none", "rx", "tx"}, rx : Nat, tx : Nat,
                       began : Counts]
      BY <1>0, <2>1 DEF Counts
    <2>3. counters.rx <= counters.rx /\ counters.tx <= counters.tx
      BY <1>0 DEF Counts
    <2>4. InOrder("rx")' /\ InOrder("tx")'
      BY <2>1, <2>3 DEF RatesInv, InOrder
    <2> QED BY <1>2, <2>1, <2>2, <2>4
  <1>4. CASE ReadTx
    <2>1. /\ sample' = [sample EXCEPT !.stage = "tx", !.tx = counters.tx]
          /\ sample.stage = "rx"
          /\ UNCHANGED <<mLast, counters, span, rates, reported>>
      BY <1>4 DEF ReadTx
    <2>2. /\ sample' \in [stage : {"none", "rx", "tx"}, rx : Nat, tx : Nat,
                          began : Counts]
          /\ sample'.stage = "tx" /\ sample'.tx = counters.tx
          /\ sample'.rx = sample.rx /\ sample'.began = sample.began
      BY <1>0, <2>1 DEF RatesInv, RateTypes, Counts
    <2>3. counters.tx <= counters.tx
      BY <1>0 DEF Counts
    <2>4. InOrder("rx")' /\ InOrder("tx")'
      BY <2>1, <2>2, <2>3 DEF RatesInv, InOrder
    <2> QED BY <1>2, <2>1, <2>2, <2>4
  <1>5. CASE ReadFails
    <2>1. sample' = NoSample /\ UNCHANGED <<mLast, counters, span, rates, reported>>
      BY <1>5 DEF ReadFails
    <2>2. InOrder("rx")' /\ InOrder("tx")'
      BY <2>1 DEF RatesInv, InOrder, NoSample
    <2> QED BY <1>2, <2>1, <2>2, NothingSampled
  <1>6. CASE EthFirst
    <2>1. /\ sample.stage = "tx" /\ TakeOver /\ rates' = rates
          /\ reported' = [rx |-> sample.rx, tx |-> sample.tx]
      BY <1>6 DEF EthFirst
    <2>2. RateTypes'
      BY <1>0, <2>1, TakenOver, NothingSampled DEF RatesInv, RateTypes
    <2>3. RatesFaithful'
      BY <1>0, <2>1, TakenOver DEF RatesInv, RatesFaithful, RateBounded
    <2>4. counters.time <= counters.time
      BY <1>0 DEF Counts
    <2> QED BY <2>1, <2>2, <2>3, <2>4, TakenOver DEF RatesInv
  <1>7. CASE UpdateRates
    <2> DEFINE rx == Rate("rx")
               tx == Rate("tx")
    <2>1. /\ sample.stage = "tx" /\ TakeOver
          /\ rates' = [rates EXCEPT !.rx = rx, !.tx = tx]
          /\ reported' = [rx |-> reported.rx + (sample.rx - mLast.rx),
                          tx |-> reported.tx + (sample.tx - mLast.tx)]
      BY <1>7 DEF UpdateRates
    <2>2. /\ rx \in AnyRate /\ RateBounded(rx)
          /\ tx \in AnyRate /\ RateBounded(tx)
      BY <2>1, RateIsBounded
    <2> HIDE DEF rx, tx
    <2>3. /\ rates'.rx = rx /\ rates'.tx = tx
          /\ rates'.work = rates.work /\ rates'.total = rates.total
          /\ rates' \in [rx : AnyRate, tx : AnyRate, work : Int, total : Int]
      BY <2>1, <2>2 DEF RatesInv, RateTypes
    <2>4. /\ mLast.rx \in Nat /\ mLast.tx \in Nat
          /\ reported.rx = mLast.rx /\ reported.tx = mLast.tx
      BY <1>0 DEF RatesInv, RatesFaithful, Counts
    <2>5. /\ reported'.rx = sample.rx /\ reported'.tx = sample.tx
          /\ reported' \in [rx : Int, tx : Int]
      BY <1>0, <2>1, <2>4
    <2>6. RateTypes'
      BY <1>0, <2>1, <2>3, <2>5, TakenOver, NothingSampled
         DEF RatesInv, RateTypes
    <2>7. RateBounded(rates'.rx) /\ RateBounded(rates'.tx)
      BY <2>2, <2>3
    <2>8. RatesFaithful'
      <3>1. RateBounded(rates.rx)' /\ RateBounded(rates.tx)'
        BY <2>7 DEF RateBounded
      <3> QED BY <2>1, <2>3, <2>5, <3>1, TakenOver DEF RatesInv, RatesFaithful
    <2>9. counters.time <= counters.time
      BY <1>0 DEF Counts
    <2> QED BY <2>1, <2>6, <2>8, <2>9, TakenOver DEF RatesInv
  <1>8. CASE UpdateCpuUtilization
    <2> DEFINE work == counters.work - mLast.work
               total == counters.total - mLast.total
    <2>1. /\ mLast' = [mLast EXCEPT !.total = counters.total,
                                    !.work = counters.work]
          /\ UNCHANGED <<sample, counters, span, reported>>
          /\ \/ rates' = rates
             \/ rates' = [rates EXCEPT !.work = work, !.total = total]
      BY <1>8 DEF UpdateCpuUtilization
    <2>2. work \in Int /\ total \in Int /\ work <= total
      BY <1>0 DEF RatesInv, Counts
    <2> HIDE DEF work, total
    <2>3. /\ rates' \in [rx : AnyRate, tx : AnyRate, work : Int, total : Int]
          /\ rates'.rx = rates.rx /\ rates'.tx = rates.tx
          /\ rates'.work <= rates'.total
      BY <2>1, <2>2 DEF RatesInv, RateTypes, RatesFaithful
    <2>4. /\ mLast' \in Counts /\ mLast'.time = mLast.time
          /\ mLast'.rx = mLast.rx /\ mLast'.tx = mLast.tx
          /\ mLast'.work = counters.work /\ mLast'.total = counters.total
      BY <1>0, <2>1 DEF Counts
    <2>5. counters'.work - mLast'.work <= counters'.total - mLast'.total
      BY <1>0, <2>1, <2>4 DEF Counts
    <2>6. InOrder("rx")' /\ InOrder("tx")'
      BY <2>1, <2>4 DEF RatesInv, InOrder
    <2> QED BY <2>1, <2>3, <2>4, <2>5, <2>6 DEF RatesInv, RateTypes,
                                                RatesFaithful, RateBounded
  <1> QED BY <1>1, <1>3, <1>4, <1>5, <1>6, <1>7, <1>8 DEF RatesNext

(***************************************************************************)
(* However many bytes are moved between and during the updates, and        *)
(* wherever an update ends, the rates of an interface are right up to what *)
(* is moved during the updates, and no byte is counted twice or left out   *)
(* (LinuxSensorProviderEth::updateUtilization).                            *)
(***************************************************************************)
THEOREM RatesAreFaithful == Spec => []RatesFaithful
  <1>1. Init => RatesInv
    <2> SUFFICES ASSUME Init PROVE RatesInv
      OBVIOUS
    <2>1. /\ mLast = Zero /\ sample = NoSample /\ counters = Zero
          /\ span = [before |-> Zero, after |-> Zero]
          /\ rates = [rx |-> NoRate, tx |-> NoRate, work |-> 0, total |-> 0]
          /\ reported = [rx |-> 0, tx |-> 0]
      BY DEF Init, ReadingsInit
    <2>2. Zero \in Counts /\ Zero.time = 0 /\ Zero.rx = 0 /\ Zero.tx = 0
          /\ Zero.work = 0 /\ Zero.total = 0
      BY DEF Zero, Counts
    <2>3. NoRate \in AnyRate /\ NoRate.interval = 0
      BY DEF NoRate, AnyRate
    <2>4. RateTypes
      BY <2>1, <2>2, <2>3, NothingSampled DEF RateTypes
    <2>5. InOrder("rx") /\ InOrder("tx")
      BY <2>1, <2>2 DEF InOrder, NoSample
    <2>6. RatesFaithful
      BY <2>1, <2>2, <2>3 DEF RatesFaithful, RateBounded
    <2> QED BY <2>1, <2>2, <2>4, <2>5, <2>6 DEF RatesInv
  <1>2. RatesInv /\ [Next]_vars => RatesInv'
    <2> SUFFICES ASSUME RatesInv, [Next]_vars PROVE RatesInv'
      OBVIOUS
    <2>1. UNCHANGED rateVars \/ RatesNext
      <3>1. CASE ReadingsNext
        BY <3>1 DEF ReadingsNext, UpdateDouble, UpdateInteger, SetBandwidth,
           UpdateLink, UpdateLinkStatus, ReadFile, UpdateJSON, UpdateFails, Took
      <3> QED BY <3>1 DEF Next, vars
    <2>2. CASE UNCHANGED rateVars
      BY <2>2 DEF rateVars, RatesInv, RateTypes, InOrder, RatesFaithful,
                  RateBounded
    <2> QED BY <2>1, <2>2, RatesKeep
  <1>3. RatesInv => RatesFaithful
    BY DEF RatesInv
  <1> QED BY <1>1, <1>2, <1>3, PTL DEF Spec
=============================================================================
