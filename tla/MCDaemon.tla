------------------------------ MODULE MCDaemon ------------------------------
(***************************************************************************)
(* Instances of Daemon for TLC: two genuine commands of different size,    *)
(* one with a bad signature, one for another slot and one too large for    *)
(* the segment.                                                            *)
(***************************************************************************)
EXTENDS Daemon

CONSTANTS good, other, forged, foreign, huge

Sizes == [c \in Commands |-> CASE c = huge -> 4 [] c = good -> 2 [] OTHER -> 3]
=============================================================================
