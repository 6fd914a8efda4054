----------------------------- MODULE MCDaemonTCP -----------------------------
(***************************************************************************)
(* Instances of DaemonTCP for TLC: two genuine commands, so that one can   *)
(* follow the other on the connection, or a genuine and a forged one.      *)
(***************************************************************************)
EXTENDS DaemonTCP

CONSTANTS good, forged

Sizes == [c \in Commands |-> 2]
=============================================================================
