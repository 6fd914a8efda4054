-------------------------------- MODULE Store --------------------------------
(***************************************************************************)
(* What the configuration promises: settings that are read into memory,    *)
(* changed there, and written back when the store is saved or stopped,     *)
(* unless it was opened read-only.                                         *)
(***************************************************************************)
EXTENDS Maps

CONSTANTS Names, Texts

VARIABLES
    live,    \* the settings in memory, a function on some of the names
    disk,    \* the settings that a start would read
    state,   \* "stopped", "open" or "readonly"
    lossy    \* the last write failed, or the program died

IsMap(m) == DOMAIN m \subseteq Names /\ \A n \in DOMAIN m : m[n] \in Texts

Init ==
    /\ IsMap(disk)
    /\ live = <<>>
    /\ state = "stopped"
    /\ lossy = FALSE

Start ==
    /\ state = "stopped"
    /\ live' = disk
    /\ state' \in {"open", "readonly"}
    /\ lossy' = FALSE
    /\ UNCHANGED disk

Set ==
    /\ state # "stopped"
    /\ UNCHANGED <<disk, state, lossy>>
    /\ \E n \in Names, t \in Texts : live' = Put(live, n, t)

(***************************************************************************)
(* The file is not replaced in one step: a write that ends early can lose  *)
(* settings and cut a value short, but invents no setting.                 *)
(***************************************************************************)
PartWritten ==
    /\ IsMap(disk')
    /\ DOMAIN disk' \subseteq DOMAIN live
    /\ lossy' = TRUE

\* A write that fails is not repeated: its settings can be lost.
Write ==
    \/ disk' = live /\ lossy' = FALSE
    \/ disk' = disk /\ lossy' = TRUE
    \/ PartWritten

Save ==
    /\ state = "open"
    /\ Write
    /\ UNCHANGED <<live, state>>

Stop ==
    /\ state # "stopped"
    /\ IF state = "open" THEN Write ELSE UNCHANGED <<disk, lossy>>
    /\ live' = <<>>
    /\ state' = "stopped"

\* The program dies, perhaps while it writes.
Crash ==
    /\ state # "stopped"
    /\ \/ disk' = disk /\ lossy' = TRUE
       \/ state = "open" /\ PartWritten
    /\ live' = <<>>
    /\ state' = "stopped"

Next == Start \/ Save \/ Stop \/ Crash \/ Set

Spec == Init /\ [][Next]_<<live, disk, state, lossy>>
=============================================================================
