------------------------------- MODULE Paging -------------------------------
(***************************************************************************)
(* The arithmetic of SensorSet::getDescriptionPage                         *)
(* (daemon/src/SensorSet.cpp): which sensors of the map, counted from 0 in *)
(* its order, a description page holds.  Counts and page numbers are       *)
(* uint8_t or uint16_t and keep that width.                                *)
(***************************************************************************)
EXTENDS Integers

CONSTANT BufferSize  \* bufferSize: size of this node's message segment

HeaderSize == 9   \* sizeof(Monitoring_Description_Header)
EntrySize == 72   \* sizeof(Sensor_Description)

\* uint8_t sensorsPerPage
PerPage == ((BufferSize - HeaderSize) \div EntrySize) % 256

(***************************************************************************)
(* The segment is a part of a memory whose size is a uint16_t, and holds a *)
(* description.  The code checks neither; with no entry per page it would  *)
(* divide by zero (SensorSet.cpp:173, 182).                                *)
(***************************************************************************)
ASSUME BufferAssumption ==
    /\ BufferSize \in Nat
    /\ BufferSize >= HeaderSize + EntrySize /\ BufferSize <= 65535
    /\ PerPage # 0

\* Fault: rounded down.
PageCount_Floor(count) ==
    IF (count \div PerPage) % 256 < 1 THEN 1 ELSE (count \div PerPage) % 256

\* *maxPages, at least one
PageCount(count) ==
    LET pages == ((count + PerPage - 1) \div PerPage) % 256 IN
    IF pages < 1 THEN 1 ELSE pages

\* Fault: a last page that is full counts as empty.
SensorsOnPage_Remainder(count, page) ==
    IF page < PageCount(count) THEN PerPage ELSE count % PerPage

\* sensorsOnPage
SensorsOnPage(count, page) ==
    IF page < PageCount(count) THEN PerPage
    ELSE IF count % PerPage = 0 /\ count > 0 THEN PerPage
    ELSE count % PerPage

\* uint16_t startingSensor
StartingSensor(page) == ((page - 1) * PerPage) % 65536

\* The returned offset: the size of the message.
PageLength(count, page) ==
    HeaderSize + SensorsOnPage(count, page) * EntrySize

-----------------------------------------------------------------------------
(***************************************************************************)
(* The pages of a description tile the sensors: the first starts at 0,     *)
(* each starts where the one before it ended, the last ends with the last  *)
(* sensor, and each fits into the buffer (SensorSet.cpp:168-193, 224).     *)
(***************************************************************************)
Tiles(count) ==
    LET last == PageCount(count) IN
    /\ StartingSensor(1) = 0
    /\ \A p \in 1..(last - 1) :
          StartingSensor(p + 1) = StartingSensor(p) + SensorsOnPage(count, p)
    /\ StartingSensor(last) + SensorsOnPage(count, last) = count
    /\ \A p \in 1..last : PageLength(count, p) <= BufferSize
=============================================================================
