------------------------------- MODULE Devices --------------------------------
(***************************************************************************)
(* What the daemon's main loop and its telnet clients rely on: the         *)
(* communicators (Bus), the node (NodeInfo), the module on a serial line   *)
(* (Serial) and the sensors (Readings).  These parts share no state; a     *)
(* behaviour is about one of them, and the others rest.                    *)
(***************************************************************************)
EXTENDS Bus, NodeInfo, Serial, Readings

VARIABLE part   \* what the behaviour is about

Parts == {"bus", "answers", "search", "serial", "readings", "rates"}

vars == <<part, busVars, nodeVars, serialVars, readingVars, rateVars>>

\* Where a part that is not looked at rests.
Resting ==
    /\ part # "bus" => kind = "Dummy" /\ board = I2C_ADDRESS
    /\ part # "search" => header = CHOOSE h \in Layouts : TRUE
    /\ part # "search" => mMonitoringDataOffset = CHOOSE o \in Unset : TRUE
    /\ part # "readings" => bean = CHOOSE b \in Beans : TRUE

Init ==
    /\ part \in Parts
    /\ BusInit /\ NodeInit /\ SerialInit /\ ReadingsInit
    /\ Resting

Next ==
    \/ /\ part = "bus" /\ BusNext
       /\ UNCHANGED <<part, nodeVars, serialVars, readingVars, rateVars>>
    \/ /\ \/ part = "answers" /\ AnswerNext
          \/ part = "search" /\ SearchNext
       /\ UNCHANGED <<part, busVars, serialVars, readingVars, rateVars>>
    \/ /\ part = "serial" /\ SerialNext
       /\ UNCHANGED <<part, busVars, nodeVars, readingVars, rateVars>>
    \/ /\ \/ part = "readings" /\ ReadingsNext
          \/ part = "rates" /\ RatesNext
       /\ UNCHANGED <<part, busVars, nodeVars, serialVars>>

\* A telnet client thread that is in a call goes on with it.
Searches(c) ==
    /\ part = "search" /\ ClientStep(c)
    /\ UNCHANGED <<part, busVars, serialVars, readingVars, rateVars>>

Spec == Init /\ [][Next]_vars /\ \A c \in Clients : WF_vars(Searches(c))
=============================================================================
