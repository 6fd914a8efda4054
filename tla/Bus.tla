--------------------------------- MODULE Bus ---------------------------------
(***************************************************************************)
(* The communicators that reach the shared memory over an I2C bus          *)
(* (plugins/CommunicatorAdlink, CommunicatorCongatec, LinuxCommunicatorDev *)
(* and WindowsCommunicatorI2CTinyUSB) and the one that keeps the memory    *)
(* itself (CommunicatorDummy), as the daemon calls them: initInterface,    *)
(* getMaxDataSize, then readData and writeData, then the destructor.       *)
(*                                                                         *)
(* The controller may change the memory between any two transfers.  Its    *)
(* k-th change writes the value k, the daemon's k-th write the value -k.   *)
(***************************************************************************)
EXTENDS Segment, Sequences, FiniteSets

CONSTANTS
    Kinds,          \* the communicators to look at
    MemorySize,     \* MEMORY_SIZE of the dummy, and size of the board's memory
    HeaderBytes,    \* sizeof(Daemon_Header)
    SLOTS,          \* slots of the dummy
    mMaxBlockLen,   \* longest transfer of the Adlink library (29)
    UsbBuses,       \* bound on the buses with a tiny USB interface
    BusChanges,     \* bound on the controller's changes
    BusAccesses     \* bound on the daemon's reads and writes

ASSUME BusAssumption ==
    /\ MemorySize \in 0..65535   \* hdr.size is a uint16_t
    /\ HeaderBytes \in 1..MemorySize
    /\ SLOTS \in Nat \ {0} /\ mMaxBlockLen \in Nat /\ mMaxBlockLen > 2
    /\ UsbBuses \in Nat \ {0} /\ BusChanges \in Nat /\ BusAccesses \in Nat

VARIABLES
    kind,         \* the communicator
    buses,        \* buses that it finds its device on; several for TinyUSB only
    mHandle,      \* its handle: "none", "open" or "closed" (deleted)
    handles,      \* handles (files, devices, sessions) that are open
    mI2CAddress,  \* the address that it will use ...
    slave,        \* ... and the one that the driver uses
    board,        \* the address of the board
    memory,       \* [offset -> value]
    call,         \* the call in progress
    result,       \* the last result
    changes, accesses

setup == <<kind, buses, mHandle, handles, mI2CAddress, slave, board>>
busVars == <<setup, memory, call, result, changes, accesses>>

Cells == 0..(MemorySize - 1)
I2C_ADDRESS == "new"
I2C_ADDRESS_OLD1 == "old1"
I2C_ADDRESS_OLD2 == "old2"
Addresses == {I2C_ADDRESS, I2C_ADDRESS_OLD1, I2C_ADDRESS_OLD2}

Idle == [op |-> "idle"]

BusInit ==
    /\ kind \in Kinds
    /\ buses \in IF kind = "TinyUSB" THEN 1..UsbBuses ELSE {1}
    /\ mHandle = "none" /\ handles = 0
    /\ mI2CAddress = I2C_ADDRESS /\ slave = I2C_ADDRESS
    /\ board \in Addresses
    /\ memory = [c \in Cells |-> 0]
    /\ call = Idle /\ result = Idle
    /\ changes = 0 /\ accesses = 0

-----------------------------------------------------------------------------
(* initInterface and the destructors.                                      *)

(***************************************************************************)
(* What is open after initInterface.  Dev keeps the file open when it      *)
(* cannot address the board.  TinyUSB leaves only the loop over one bus    *)
(* when it found a device: with devices on several buses each handle is    *)
(* overwritten by the next, and by NULL when the last cannot be opened.    *)
(***************************************************************************)
Opened == {<<"open", n>> : n \in 1..buses}

\* Fault: Congatec leaves the board open when it has no primary bus.
OpenedInVain_Leak ==
    {<<"none", n>> : n \in 0..(buses - 1)} \cup
    CASE kind = "Dev" -> {<<"open", 1>>}
      [] kind = "Congatec" -> {<<"none", 1>>}
      [] OTHER -> {}

OpenedInVain ==
    {<<"none", n>> : n \in 0..(buses - 1)} \cup
    (IF kind = "Dev" THEN {<<"open", 1>>} ELSE {})

initInterface ==
    /\ call = Idle /\ result = Idle /\ mHandle = "none"
    /\ \/ /\ \E o \in Opened : mHandle' = o[1] /\ handles' = o[2]
          /\ result' = [op |-> "init", ok |-> TRUE]
       \/ /\ \E o \in OpenedInVain : mHandle' = o[1] /\ handles' = o[2]
          /\ result' = [op |-> "init", ok |-> FALSE]
    /\ UNCHANGED <<kind, buses, mI2CAddress, slave, board, memory, call,
                   changes, accesses>>

Destroy ==
    /\ call = Idle /\ result # Idle /\ mHandle # "closed"
    /\ mHandle' = "closed"
    /\ handles' = IF mHandle = "open" THEN handles - 1 ELSE handles
    /\ result' = [op |-> "destroyed"]
    /\ UNCHANGED <<kind, buses, mI2CAddress, slave, board, memory, call,
                   changes, accesses>>

Ready == call = Idle /\ mHandle = "open" /\ result.op \notin {"idle", "init"}

-----------------------------------------------------------------------------
(* Transfers.  Only the board answers, at its address.                     *)

Answers == slave = board

Window(mem, offset, n) == [i \in 1..n |-> mem[offset + i - 1]]

\* The memory after a transfer of n bytes from position pos of a write.
Put(mem, c, n) ==
    [x \in Cells |-> IF x >= c.offset + c.pos /\ x < c.offset + c.pos + n
                     THEN c.data ELSE mem[x]]

\* The call c together with its result.
Done(c, value) ==
    [f \in DOMAIN c \cup {"value"} |-> IF f = "value" THEN value ELSE c[f]]

Return(value) == call' = Idle /\ result' = Done(call, value)

-----------------------------------------------------------------------------
(* getMaxDataSize looks for the header at the current address and at two   *)
(* older ones.  A failed read leaves hdr.size at 0, or at whatever a bus   *)
(* without an answer delivers; the kernel (Dev) delivers nothing.          *)

StartProbe ==
    /\ call = Idle /\ mHandle = "open"
    /\ result = [op |-> "init", ok |-> TRUE]
    /\ call' = [op |-> "probe", tried |-> I2C_ADDRESS, lost |-> FALSE]
    /\ UNCHANGED <<setup, memory, result, changes, accesses>>

\* The ioctl of LinuxCommunicatorDev may fail, then its driver stays.
SetAddress(a) ==
    /\ mI2CAddress' = a
    /\ slave' \in IF kind = "Dev" THEN {a, slave} ELSE {a}

ProbeFound ==
    /\ call.op = "probe" /\ (Answers \/ kind = "Dummy")
    /\ Return(MemorySize)
    /\ UNCHANGED <<setup, memory, changes, accesses>>

ProbeGarbage ==
    /\ call.op = "probe" /\ kind \notin {"Dummy", "Dev"}
    /\ call' = Idle
    /\ result' = [op |-> "probe", value |-> MemorySize, lost |-> TRUE]
    /\ UNCHANGED <<setup, memory, changes, accesses>>

\* Fault: the last address that was tried is kept.
Following_Kept(a) ==
    IF a = I2C_ADDRESS THEN I2C_ADDRESS_OLD1 ELSE I2C_ADDRESS_OLD2

Following(a) ==
    CASE a = I2C_ADDRESS -> I2C_ADDRESS_OLD1
      [] a = I2C_ADDRESS_OLD1 -> I2C_ADDRESS_OLD2
      [] a = I2C_ADDRESS_OLD2 -> I2C_ADDRESS

\* No header at this address: try the next one, or give up.
ProbeNext ==
    /\ call.op = "probe" /\ kind # "Dummy"
    /\ SetAddress(Following(call.tried))
    /\ IF call.tried = I2C_ADDRESS_OLD2
       THEN /\ call' = Idle
            /\ result' = [op |-> "probe", value |-> 0,
                          lost |-> slave' # mI2CAddress']
       ELSE /\ call' = [op |-> "probe", tried |-> Following(call.tried),
                        lost |-> slave' # mI2CAddress']
            /\ UNCHANGED result
    /\ UNCHANGED <<kind, buses, mHandle, handles, board, memory, changes,
                   accesses>>

-----------------------------------------------------------------------------
(* readData and writeData.  seen holds the memory as it was since the call *)
(* began, stamp the number of changes before it; exact says that every     *)
(* transfer that the call takes for done moved all of its bytes to or from *)
(* the board.                                                              *)

NoOffset == -1

\* A result that was looked at.
Past == [op |-> "done"]

Begin(op, offset, count, data) ==
    /\ call' = [op |-> op, offset |-> offset, count |-> count, pos |-> 0,
                from |-> NoOffset, exact |-> TRUE, retry |-> FALSE,
                buf |-> <<>>, data |-> data, seen |-> {memory},
                stamp |-> changes]
    /\ result' = Past

\* The dummy shortens an access beyond its end; the others stay inside.
Accesses ==
    {a \in Cells \X (1..MemorySize) :
        kind # "Dummy" => a[1] + a[2] <= MemorySize}

readData ==
    /\ Ready /\ accesses < BusAccesses
    /\ \E a \in Accesses : Begin("read", a[1], a[2], 0)
    /\ accesses' = accesses + 1
    /\ UNCHANGED <<setup, memory, changes>>

writeData ==
    /\ Ready /\ accesses < BusAccesses
    /\ \E a \in Accesses : Begin("write", a[1], a[2], -(accesses + 1))
    /\ accesses' = accesses + 1
    /\ UNCHANGED <<setup, memory, changes>>

Clipped(c) == IF c.offset + c.count > MemorySize THEN MemorySize - c.offset
              ELSE c.count

Least(a, b) == IF a < b THEN a ELSE b

\* The offset takes two bytes of a transfer that writes.
WriteBlock(c) == Least(c.count - c.pos, mMaxBlockLen - 2)
ReadBlock(c) == Least(c.count - c.pos, mMaxBlockLen)

\* One more block, or the end of the call.
Continue(c, n, value) ==
    IF c.pos + n < c.count
    THEN call' = [c EXCEPT !.pos = @ + n, !.retry = FALSE] /\ UNCHANGED result
    ELSE call' = Idle /\ result' = Done(c, value)

AdlinkReads ==
    /\ kind = "Adlink" /\ call.op = "read" /\ Answers
    /\ Continue([call EXCEPT !.buf = @ \o
                     Window(memory, call.offset + call.pos, ReadBlock(call))],
                ReadBlock(call), call.count)
    /\ UNCHANGED <<setup, memory, changes, accesses>>

\* Longer transfers are reported as done but never reach the bus.
AdlinkWrites ==
    /\ kind = "Adlink" /\ call.op = "write" /\ Answers
    /\ memory' = IF WriteBlock(call) + 2 > mMaxBlockLen THEN memory
                 ELSE Put(memory, call, WriteBlock(call))
    /\ Continue(call, WriteBlock(call), call.count)
    /\ UNCHANGED <<setup, changes, accesses>>

\* A transfer fails, done or not; it is repeated once.
AdlinkFails ==
    /\ kind = "Adlink" /\ call.op \in {"read", "write"}
    /\ memory' \in IF call.op = "write" /\ Answers
                   THEN {memory, Put(memory, call, WriteBlock(call))}
                   ELSE {memory}
    /\ IF call.retry THEN Return(-1)
       ELSE call' = [call EXCEPT !.retry = TRUE] /\ UNCHANGED result
    /\ UNCHANGED <<setup, changes, accesses>>

(***************************************************************************)
(* The others write in one transfer, and read in two: one for the offset,  *)
(* one for the bytes.  What a library may report as done when n bytes were *)
(* to be moved: the Congatec library all of them, the file of Dev any      *)
(* number, which is the result, and TinyUSB takes any number from 1 on.    *)
(***************************************************************************)
Moved(n) ==
    CASE kind = "Congatec" -> {n}
      [] kind = "Dev" -> 0..n
      [] kind = "TinyUSB" -> 1..n
      [] OTHER -> {}

\* The board reads on from where it is, at the end from the start.
WindowFrom(mem, offset, n) == [i \in 1..n |-> mem[(offset + i - 1) % MemorySize]]

\* What a buffer holds where no byte arrived.
Unfilled == -(BusAccesses + 1)

Filled(bytes, count) ==
    [i \in 1..count |-> IF i <= Len(bytes) THEN bytes[i] ELSE Unfilled]

\* readData, first transfer.  Dev returns when it moved less than two bytes.
WriteOffset ==
    /\ call.op = "read" /\ call.from = NoOffset /\ Answers
    /\ \E n \in Moved(2) :
          IF n = 2
          THEN call' = [call EXCEPT !.from = call.offset] /\ UNCHANGED result
          ELSE /\ kind = "Dev" /\ call' = Idle
               /\ result' = Done([call EXCEPT !.exact = FALSE], n)
    /\ UNCHANGED <<setup, memory, changes, accesses>>

\* TinyUSB does not ask whether the board took the offset, or all of it.
OffsetLost ==
    /\ kind = "TinyUSB" /\ call.op = "read" /\ call.from = NoOffset
    /\ \E c \in Cells : call' = [call EXCEPT !.from = c, !.exact = FALSE]
    /\ UNCHANGED <<setup, memory, result, changes, accesses>>

\* readData, second transfer
ReadBytes ==
    /\ call.op = "read" /\ call.from # NoOffset /\ Answers
    /\ \E n \in Moved(call.count) :
          LET bytes == WindowFrom(memory, call.from, n) IN
          IF kind = "Dev"
          THEN result' = Done([call EXCEPT !.buf = bytes], n)
          ELSE result' = Done([call EXCEPT !.buf = Filled(bytes, call.count),
                                           !.exact = @ /\ n = call.count],
                              call.count)
    /\ call' = Idle
    /\ UNCHANGED <<setup, memory, changes, accesses>>

\* The bytes of a write that come after the offset.
Behind(n) == IF n > 2 THEN n - 2 ELSE 0

WriteBytes ==
    /\ call.op = "write" /\ Answers
    /\ \E n \in Moved(call.count + 2) :
          /\ memory' = Put(memory, call, Behind(n))
          /\ call' = Idle
          /\ result' =
                IF kind = "Dev" THEN Done(call, n)
                ELSE Done([call EXCEPT !.exact = (n = call.count + 2)], call.count)
    /\ UNCHANGED <<setup, changes, accesses>>

\* TinyUSB: no byte of the status arrives, and an uninitialised variable holds
\* what it asks for, whatever became of the transfer.
StatusUnread ==
    /\ kind = "TinyUSB"
    /\ call.op = "write" \/ (call.op = "read" /\ call.from # NoOffset)
    /\ \E n \in 0..(IF call.op = "write" /\ Answers THEN call.count ELSE 0) :
          memory' = Put(memory, call, n)
    /\ call' = Idle
    /\ result' = Done([call EXCEPT !.buf = Filled(<<>>, call.count),
                                   !.exact = FALSE], call.count)
    /\ UNCHANGED <<setup, changes, accesses>>

\* Fault: the status of the tiny USB interface is not asked for.
ErrorValue_NoStatus(op) ==
    CASE kind = "Congatec" -> IF op = "read" THEN {-1, -2} ELSE {-1}
      [] kind = "Dev" -> {-1}
      [] kind = "TinyUSB" -> {-2, call.count}

\* What a call returns when the library reports a transfer as failed, or
\* TinyUSB a status other than the acknowledged address.
ErrorValue(op) ==
    CASE kind = "Congatec" -> IF op = "read" THEN {-1, -2} ELSE {-1}
      [] kind = "Dev" -> {-1}
      [] kind = "TinyUSB" -> IF op = "read" THEN {-1, -2} ELSE {0, -2}

\* A write that fails may have reached the board in part.
TransferFails ==
    /\ kind \in {"Congatec", "Dev", "TinyUSB"}
    /\ call.op \in {"read", "write"}
    /\ \E n \in 0..(IF call.op = "write" /\ Answers THEN call.count ELSE 0) :
          memory' = Put(memory, call, n)
    /\ \E v \in ErrorValue(call.op) : Return(v)
    /\ UNCHANGED <<setup, changes, accesses>>

\* CommunicatorDummy::parseData: the first byte of each slot's segment
Marked(mem) ==
    LET size == (MemorySize - HeaderBytes) \div SLOTS IN
    [x \in Cells |->
        IF \E i \in 0..(SLOTS - 1) :
              x = HeaderBytes + (IF SLOTS > 1 THEN i * size ELSE 0)
        THEN 0 ELSE mem[x]]

DummyAccess ==
    /\ kind = "Dummy"
    /\ \/ /\ call.op = "read"
          /\ call' = Idle /\ UNCHANGED memory
          /\ result' = Done([call EXCEPT !.buf =
                                 Window(memory, call.offset, Clipped(call))],
                            Clipped(call))
       \/ /\ call.op = "write"
          /\ memory' = Marked(Put(memory, call, Clipped(call)))
          /\ Return(Clipped(call))
    /\ UNCHANGED <<setup, changes, accesses>>

\* The controller works on the memory of the board at any time.
ControllerChanges ==
    /\ kind # "Dummy" /\ changes < BusChanges /\ mHandle = "open"
    /\ changes' = changes + 1
    /\ \E c \in Cells : memory' = [memory EXCEPT ![c] = changes + 1]
    /\ call' = IF call.op \in {"read", "write"}
               THEN [call EXCEPT !.seen = @ \cup {memory'}] ELSE call
    /\ result' = IF result.op \in {"read", "write"}
                 THEN Past ELSE result
    /\ UNCHANGED <<setup, accesses>>

BusNext ==
    \/ initInterface \/ Destroy
    \/ StartProbe \/ ProbeFound \/ ProbeGarbage \/ ProbeNext
    \/ readData \/ writeData
    \/ AdlinkReads \/ AdlinkWrites \/ AdlinkFails
    \/ WriteOffset \/ OffsetLost \/ ReadBytes \/ WriteBytes \/ StatusUnread
    \/ TransferFails \/ DummyAccess
    \/ ControllerChanges

-----------------------------------------------------------------------------
(* Properties.                                                             *)

(***************************************************************************)
(* What initInterface opened is closed once the communicator is deleted,   *)
(* also after it failed half-way; only TinyUSB forgets a handle, when it   *)
(* finds a device on more than one bus.                                    *)
(***************************************************************************)
HandlesClosed ==
    mHandle = "closed" => handles = 0 \/ (kind = "TinyUSB" /\ buses > 1)

(***************************************************************************)
(* getMaxDataSize ends at the address of the board when it found a header, *)
(* and at the current address when it found none, also when the bus failed *)
(* in between; only an ioctl that fails, or bytes taken from a bus without *)
(* an answer (lost), can leave another address.                            *)
(***************************************************************************)
AddressSettles ==
    result.op = "probe" /\ kind # "Dummy" =>
        IF result.value > 0 THEN slave = board \/ result.lost
        ELSE mI2CAddress = I2C_ADDRESS /\ (slave = I2C_ADDRESS \/ result.lost)

(***************************************************************************)
(* Results that nothing vouches for: of Dev, when the driver moved only a  *)
(* part of the offset, and of TinyUSB, when the USB moved only a part of   *)
(* the bytes, the board did not take the offset, or the status was unread. *)
(***************************************************************************)
Unconfirmed(r) == kind \in {"Dev", "TinyUSB"} /\ ~r.exact

(***************************************************************************)
(* A positive result of readData means that the buffer is filled with that *)
(* many bytes of the memory from the offset on, each as it was at some     *)
(* moment of the call, however the call was cut into blocks and repeated,  *)
(* and whatever the controller wrote meanwhile.  Unconfirmed results of    *)
(* Dev and TinyUSB say nothing.                                            *)
(***************************************************************************)
ReadTruthful ==
    result.op = "read" /\ result.value > 0 /\ ~Unconfirmed(result) =>
        /\ Len(result.buf) = result.value
        /\ \A i \in 1..result.value :
              \E m \in result.seen : result.buf[i] = m[result.offset + i - 1]

\* The header that CommunicatorDummy::initInterface writes.
DummyHeader == [magic |-> TRUE, size |-> MemorySize, maxSlots |-> SLOTS,
                version |-> 3, dynamicAreaOffset |-> HeaderBytes]

\* Where the daemon looks for the message of a slot.
TypeBytes == {messageOffset(DummyHeader, s) : s \in 0..(SLOTS - 1)}

\* How many bytes the result of a write says were written; the result of Dev
\* counts the offset.
Claimed(r) == IF kind = "Dev" THEN r.value - 2 ELSE r.value

(***************************************************************************)
(* The bytes that a result of writeData counts have arrived (or were       *)
(* replaced by the controller since), unless it is an unconfirmed one of   *)
(* TinyUSB.  Whatever the result, no byte outside of the range was         *)
(* touched; the dummy takes the message from where the daemon's own        *)
(* computation puts it, and changes nothing else.                          *)
(***************************************************************************)
WriteTruthful ==
    call = Idle /\ result.op = "write" =>
        \A x \in Cells :
            LET inside == /\ x >= result.offset
                          /\ x < result.offset + result.count
                taken == kind = "Dummy" /\ x \in TypeBytes
            IN  /\ taken => memory[x] = 0
                /\ /\ inside /\ ~taken /\ ~Unconfirmed(result)
                   /\ x < result.offset + Claimed(result)
                   => memory[x] = result.data \/ memory[x] > result.stamp
                /\ ~inside /\ ~taken =>
                      \E m \in result.seen : memory[x] = m[x]

(***************************************************************************)
(* The results of readData and writeData tell the truth: what both of the  *)
(* above say.                                                              *)
(***************************************************************************)
TransfersTruthful == ReadTruthful /\ WriteTruthful
=============================================================================
