------------------------------ MODULE MCDevices -------------------------------
(* Values of the constants of Devices for TLC. *)
EXTENDS Devices

\* Boards with and without chunks.
SomeLayouts == [version : {2, 3}, chunksOffset : {1},
                dynamicAreaOffset : {2, 6}]
=============================================================================
