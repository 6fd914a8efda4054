------------------------------- MODULE NodeInfo -------------------------------
(***************************************************************************)
(* Node: which network adapters it reports as its management and compute   *)
(* adapter, what a command answers, and the monitoring data of the board   *)
(* that telnet clients ask for.  The data is found by a search through the *)
(* chunks behind the header of the shared memory; the node remembers where *)
(* it is for the next client.                                              *)
(***************************************************************************)
EXTENDS Integers, Sequences, FiniteSets

CONSTANTS
    Adapters,      \* bound on the length of the list of adapters
    FileLimit,     \* sockets that the process can open
    Clients,       \* telnet client threads
    OffsetLimit,   \* number of values of uint16_t
    Lengths,       \* lengths of chunks
    Layouts,       \* headers of the board: version, chunksOffset, ...
    Unset,         \* what the uninitialised mMonitoringDataOffset may hold
    NodeCalls,     \* bound on the calls of the clients
    NodeFaults     \* bound on reads that fail with a negative result

ASSUME NodeAssumption ==
    /\ Adapters \in Nat /\ FileLimit \in Nat /\ OffsetLimit \in Nat
    /\ NodeCalls \in Nat /\ NodeFaults \in Nat
    /\ Lengths \subseteq 0..(OffsetLimit - 1)
    /\ Layouts \subseteq [version : Nat, chunksOffset : 0..(OffsetLimit - 1),
                          dynamicAreaOffset : 0..(OffsetLimit - 1)]

VARIABLES
    sockets,                 \* sockets opened and never closed
    block,                   \* the last basic information block
    reply,                   \* the last command and its result
    header, chunks,          \* the board's header, and its chunks
    mMonitoringDataOffset,
    client,                  \* per client: what it does, at which offset, the
                             \* dynamicAreaOffset of the header it read, and a
                             \* bit that each chunk read flips: reading the
                             \* same chunk again is a step too
    readAt,                  \* where monitoring data was last read
    nodeCalls, nodeFaults,
    wrapped,                 \* an offset was counted beyond uint16_t
    stray                    \* an offset did not come from the board's chunks

nodeVars == <<sockets, block, reply, header, chunks, mMonitoringDataOffset,
              client, readAt, nodeCalls, nodeFaults, wrapped, stray>>
searchVars == <<header, chunks, mMonitoringDataOffset, client, readAt,
                nodeCalls, nodeFaults, wrapped, stray>>

NotYet == [told |-> FALSE]

\* The constructor looks for adapters once, to log them.
NodeInit ==
    /\ sockets = (IF FileLimit > 0 THEN 1 ELSE 0) /\ block = NotYet /\ reply = <<>>
    /\ header \in Layouts /\ chunks = {}
    /\ mMonitoringDataOffset \in Unset
    /\ client = [c \in Clients |-> [at |-> "idle", pos |-> 0, end |-> 0,
                                     lap |-> 0]]
    /\ readAt = 0 /\ nodeCalls = 0 /\ nodeFaults = 0
    /\ wrapped = FALSE /\ stray = (mMonitoringDataOffset # 0)

-----------------------------------------------------------------------------
(* Adapters.  An adapter is known by its position in the list; 0 is the    *)
(* empty AdapterInfo.                                                      *)

AdapterInfo == [christmann : BOOLEAN, odd : BOOLEAN]
AdapterLists == UNION {[1..n -> AdapterInfo] : n \in 0..Adapters}

Front(S) == CHOOSE i \in S : \A j \in S : i <= j
Back(S) == CHOOSE i \in S : \A j \in S : j <= i

\* The first adapter of S, or none.
FirstOf(S) == IF S = {} THEN 0 ELSE Front(S)

Christmann(list) == {i \in 1..Len(list) : list[i].christmann}
Odd(list) == {i \in Christmann(list) : list[i].odd}

getManagementAdapter(list) ==
    LET ours == Christmann(list) IN
    CASE Len(list) < 2 -> 0
      [] Len(list) >= 2 /\ Cardinality(ours) = 1 -> Back(1..Len(list) \ ours)
      [] Len(list) >= 2 /\ Cardinality(ours) > 1 -> FirstOf(Odd(list))
      [] Len(list) >= 2 /\ ours = {} -> 1

\* Fault: the last byte of the address is not looked at.
getComputeAdapter_Any(list) ==
    CASE Len(list) = 0 -> 0
      [] Len(list) = 1 -> 1
      [] Len(list) >= 2 -> FirstOf(Christmann(list))

getComputeAdapter(list) ==
    LET ours == Christmann(list) IN
    CASE Len(list) = 0 -> 0
      [] Len(list) = 1 -> 1
      [] Len(list) >= 2 /\ Cardinality(ours) = 1 -> Front(ours)
      [] Len(list) >= 2 /\ Cardinality(ours) # 1 -> FirstOf(ours \ Odd(list))

\* The socket is opened and never closed.  Without one, or when SIOCGIFCONF
\* fails on it, the list stays empty.
getNetworkAdapters(present, listed) == IF listed THEN present ELSE <<>>

getBasicInformationBlock ==
    /\ \E present \in AdapterLists :
       \E listed \in {FALSE, sockets < FileLimit} :
          LET list == getNetworkAdapters(present, listed) IN
          block' = [told |-> TRUE, present |-> present, listed |-> listed,
                    management |-> getManagementAdapter(list),
                    compute |-> getComputeAdapter(list)]
    /\ sockets' = IF sockets < FileLimit THEN sockets + 1 ELSE sockets
    /\ UNCHANGED <<reply, searchVars>>

\* What executeCommand and shutdown may answer.
Replies(command) ==
    IF command \in {"shutdown", "reboot"} THEN {"success", "failed"}
    ELSE {"Unknown command"}

executeCommand ==
    /\ \E command \in {"shutdown", "reboot", "other"} :
          \E r \in Replies(command) : reply' = <<command, r>>
    /\ UNCHANGED <<sockets, block, searchVars>>

-----------------------------------------------------------------------------
(* getJSONMonitoringData and findHeaderDataChunkOffset.  Each read goes    *)
(* through doRead on its own; a negative result of it counts as success    *)
(* and leaves an uninitialised buffer.                                     *)

ChunkHeaderSize == 3
OldHeaderLength == 9
ChunkHeader == [monitoring : BOOLEAN, length : Lengths]

At(c, state, pos, end) ==
    client' = [client EXCEPT ![c] =
                  [at |-> state, pos |-> pos, end |-> end,
                   lap |-> IF state = "chunk" THEN 1 - @.lap ELSE 0]]

getJSONMonitoringData(c) ==
    /\ client[c].at = "idle" /\ nodeCalls < NodeCalls
    /\ nodeCalls' = nodeCalls + 1
    /\ At(c, IF mMonitoringDataOffset = 0 THEN "header" ELSE "found", 0, 0)
    /\ UNCHANGED <<sockets, block, reply, header, chunks, wrapped, stray,
                   mMonitoringDataOffset, readAt, nodeFaults>>

\* Fault: the length field is not counted twice.
Found_Behind(c, offset) ==
    /\ mMonitoringDataOffset' =
          IF offset > 2 THEN offset ELSE mMonitoringDataOffset
    /\ At(c, "found", 0, 0)

\* The search found the data behind the chunk header that ends at offset.
Found(c, offset) ==
    /\ mMonitoringDataOffset' =
          IF offset > 2 THEN offset - 2 ELSE mMonitoringDataOffset
    /\ At(c, "found", 0, 0)

NotFound(c) == At(c, "found", 0, 0) /\ UNCHANGED mMonitoringDataOffset

\* What the daemon's header says, once it was read.
UseHeader(c, hdr) ==
    IF hdr.version < 3 THEN Found(c, OldHeaderLength)
    ELSE /\ At(c, "chunk", hdr.chunksOffset, hdr.dynamicAreaOffset)
         /\ UNCHANGED mMonitoringDataOffset

ReadDaemonHeader(c) ==
    /\ client[c].at = "header"
    /\ \/ /\ UseHeader(c, header)
          /\ stray' = (stray \/ header.version < 3)
          /\ UNCHANGED nodeFaults
       \/ NotFound(c) /\ UNCHANGED <<stray, nodeFaults>>
       \/ /\ nodeFaults < NodeFaults /\ nodeFaults' = nodeFaults + 1
          /\ \E hdr \in Layouts : UseHeader(c, hdr)
          /\ stray' = TRUE
    /\ UNCHANGED <<sockets, block, reply, header, chunks, readAt, nodeCalls,
                   wrapped>>

\* Fault: the size of the chunk header is not added.
Skip_NoHeader(pos, chunk) == pos + chunk.length

Skip(pos, chunk) == pos + ChunkHeaderSize + chunk.length

UseChunk(c, chunk) ==
    LET pos == client[c].pos
        end == client[c].end
        next == Skip(pos, chunk) % OffsetLimit
    IN  IF chunk.monitoring
        THEN /\ Found(c, (pos + ChunkHeaderSize) % OffsetLimit)
             /\ UNCHANGED wrapped
        ELSE /\ wrapped' = (wrapped \/ next # Skip(pos, chunk))
             /\ IF next < end
                THEN At(c, "chunk", next, end) /\ UNCHANGED mMonitoringDataOffset
                ELSE NotFound(c)

\* A chunk that was read before is still there.
ChunkAt(pos) ==
    LET before == {known[2] : known \in {k \in chunks : k[1] = pos}}
    IN  IF before = {} THEN ChunkHeader ELSE before

ReadChunk(c) ==
    /\ client[c].at = "chunk"
    /\ \/ \E chunk \in ChunkAt(client[c].pos) :
             /\ UseChunk(c, chunk)
             /\ chunks' = chunks \cup {<<client[c].pos, chunk>>}
             /\ UNCHANGED <<stray, nodeFaults>>
       \/ NotFound(c) /\ UNCHANGED <<chunks, wrapped, stray, nodeFaults>>
       \/ /\ nodeFaults < NodeFaults /\ nodeFaults' = nodeFaults + 1
          /\ \E chunk \in ChunkHeader : UseChunk(c, chunk)
          /\ stray' = TRUE /\ UNCHANGED chunks
    /\ UNCHANGED <<sockets, block, reply, header, readAt, nodeCalls>>

\* Still 0: nothing is read.  Whatever doRead returns, the call ends.
ReadMonitoring(c) ==
    /\ client[c].at = "found"
    /\ readAt' = mMonitoringDataOffset
    /\ At(c, "idle", 0, 0)
    /\ UNCHANGED <<sockets, block, reply, header, chunks, wrapped, stray,
                   mMonitoringDataOffset, nodeCalls, nodeFaults>>

ClientStep(c) ==
    ReadDaemonHeader(c) \/ ReadChunk(c) \/ ReadMonitoring(c)

AnswerNext == getBasicInformationBlock \/ executeCommand
SearchNext == \E c \in Clients : getJSONMonitoringData(c) \/ ClientStep(c)

-----------------------------------------------------------------------------
(* Properties.                                                             *)

(***************************************************************************)
(* The two adapters of the basic information block are never the same, and *)
(* a node that has an adapter reports one; with more than one adapter, the *)
(* compute adapter is a Christmann adapter, and the management adapter is  *)
(* one of another make when there is just one Christmann adapter.  This is *)
(* as long as a socket can be opened and the kernel lists the interfaces.  *)
(***************************************************************************)
AdaptersTold ==
    block.told /\ block.listed /\ block.present # <<>> =>
        LET list == block.present IN
        /\ block.management # block.compute
        /\ Len(list) > 1 /\ block.compute # 0 => list[block.compute].christmann
        /\ Cardinality(Christmann(list)) = 1 /\ block.management # 0 =>
              ~list[block.management].christmann

(***************************************************************************)
(* Monitoring data is read from a monitoring chunk, from its length field  *)
(* on, also when clients search at the same time and when the offset was   *)
(* remembered, unless the offset was never initialised, came from a read   *)
(* that had failed, or belongs to a board without chunks (stray).          *)
(***************************************************************************)
MonitoringAtChunk ==
    readAt # 0 /\ ~stray =>
        \E k \in chunks :
            k[2].monitoring /\ readAt = k[1] + ChunkHeaderSize - 2

(***************************************************************************)
(* A search for a chunk ends, whatever lengths the board's memory holds,   *)
(* unless an offset wraps around: then it may go on for ever.              *)
(***************************************************************************)
ChunkSearchEnds ==
    \A c \in Clients : client[c].at = "chunk" ~>
                           client[c].at # "chunk" \/ wrapped
=============================================================================
