------------------------------- MODULE Segment -------------------------------
(***************************************************************************)
(* Daemon::run, Daemon.cpp:320-331: where in the shared memory the messages*)
(* of a slot are.  The sizes are of type size_t and wrap at SizeLimit.     *)
(***************************************************************************)
EXTENDS Integers

CONSTANT SizeLimit   \* number of values of size_t

ASSUME SegmentAssumption == SizeLimit \in Nat /\ SizeLimit > 65535

\* The fields of Daemon_Header that are used here.
Header == [magic : BOOLEAN, size : Nat, maxSlots : Nat, version : Nat,
           dynamicAreaOffset : Nat]

\* Before version 3 it is sizeof(Daemon_Header) + sizeof(BB_Monitoring).
AreaOffset(hdr) == IF hdr.version < 3 THEN 66 ELSE hdr.dynamicAreaOffset

AreaSize(hdr) == (hdr.size - AreaOffset(hdr)) % SizeLimit

messageMaxSize(hdr) ==
    IF hdr.maxSlots > 1 THEN AreaSize(hdr) \div hdr.maxSlots ELSE AreaSize(hdr)

\* Fault: the stride is one byte short.
messageOffset_Stride(hdr, slot) ==
    IF hdr.maxSlots > 1 THEN AreaOffset(hdr) + slot * (messageMaxSize(hdr) - 1)
    ELSE AreaOffset(hdr)

messageOffset(hdr, slot) ==
    IF hdr.maxSlots > 1 THEN AreaOffset(hdr) + slot * messageMaxSize(hdr)
    ELSE AreaOffset(hdr)

-----------------------------------------------------------------------------
\* The bytes of a slot's segment: from FirstByte up to EndByte.
FirstByte(hdr, slot) == messageOffset(hdr, slot)
EndByte(hdr, slot) == messageOffset(hdr, slot) + messageMaxSize(hdr)

(***************************************************************************)
(* The segments of the slots of a baseboard lie inside the shared memory   *)
(* and do not overlap, provided its header is consistent: the code checks  *)
(* neither that the area starts inside the memory, nor that the slot is    *)
(* one of maxSlots.                                                        *)
(***************************************************************************)
Consistent(hdr) == AreaOffset(hdr) <= hdr.size

SegmentsApart(hdr) ==
    Consistent(hdr) =>
        \A s \in 0..(hdr.maxSlots - 1) :
            /\ FirstByte(hdr, s) >= AreaOffset(hdr)
            /\ EndByte(hdr, s) <= hdr.size
            /\ \A t \in 0..(hdr.maxSlots - 1) :
                  s < t => EndByte(hdr, s) <= FirstByte(hdr, t)
=============================================================================
