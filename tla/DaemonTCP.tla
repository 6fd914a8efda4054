------------------------------ MODULE DaemonTCP ------------------------------
(***************************************************************************)
(* The main loop of Daemon over CommunicatorTCP                            *)
(* (plugins/CommunicatorTCP): the message segment is a buffer of the       *)
(* plugin.  A write sends the message to the controller and marks it       *)
(* processed at once; a read first takes what the socket has.  When the    *)
(* connection is gone, the next write reconnects and calls                 *)
(* resetStatemachine, on the main thread, from inside writeData.           *)
(*                                                                         *)
(* slotType and slotBody are the message area of mData; known holds the    *)
(* items the controller received on the current connection.  The telnet    *)
(* thread enters with its monitor command, whose doRead also takes data    *)
(* from the socket.                                                        *)
(***************************************************************************)
EXTENDS Daemon, Sequences

CONSTANTS MaxBreaks,  \* bound on broken connections
          MaxRefused, \* bound on failing connection attempts
          Monitor     \* a telnet client uses the monitor command

ASSUME TcpAssumption ==
    /\ MaxBreaks \in Nat /\ MaxRefused \in Nat /\ Monitor \in BOOLEAN
    /\ BasicFits /\ Faults = {} /\ MaxResets = 0

VARIABLES
    client,  \* mClient # NULL
    link,    \* "up"; "broken": the next send may pass unnoticed; "dead"
    wire,    \* what the controller sent on this connection and nobody read
    rbuf,    \* mReceiveBuffer up to mReceiveBufferPos
    breaks, refused,
    skewed   \* this connection was made while a basic block or a
             \* description page was being written

tcpVars == <<client, link, wire, rbuf, breaks, refused, skewed>>
allVars == <<vars, tcpVars>>

(***************************************************************************)
(* A packet is a TCP_Message_Header and a payload; a read may end between  *)
(* the two.                                                                *)
(***************************************************************************)
Tokens == [part : {"head", "payload"}, cmd : Commands]

Packet(c) == <<[part |-> "head", cmd |-> c], [part |-> "payload", cmd |-> c]>>

(***************************************************************************)
(* What a successful initInterface leaves: a connection and a cleared      *)
(* message area.  When it fails the loop never starts (Lifecycle).         *)
(***************************************************************************)
TcpInit ==
    /\ Init
    /\ slotType = "Empty"
    /\ msg = [type |-> "Empty", size |-> OtherSize]
    /\ client = TRUE /\ link = "up"
    /\ wire = <<>> /\ rbuf = <<>>
    /\ breaks = 0 /\ refused = 0 /\ skewed = FALSE

-----------------------------------------------------------------------------
(***************************************************************************)
(* The receiving half of readData.  After n more tokens: a buffer that     *)
(* does not start with a packet header is thrown away; a complete packet   *)
(* is copied to the message area and the rest moved to the front.          *)
(* Nothing happens when nothing came, whatever is left in the buffer.      *)
(***************************************************************************)
Complete(buf) == Len(buf) >= 2 /\ buf[1].part = "head"

Invalid(buf) == Len(buf) >= 2 /\ buf[1].part # "head"

\* What lands in the message area: a command, or bytes that are no message.
Payload(token) ==
    IF token.part = "payload" THEN CommandBody(token.cmd) ELSE Leftover("Empty")

Receive(n) ==
    LET buf == rbuf \o SubSeq(wire, 1, n) IN
    /\ n <= Len(wire)
    /\ n > 0 => client
    /\ wire' = SubSeq(wire, n + 1, Len(wire))
    /\ rbuf' = IF n = 0 THEN rbuf
               ELSE IF Complete(buf) THEN SubSeq(buf, 3, Len(buf))
               ELSE IF Invalid(buf) THEN <<>>
               ELSE buf
    /\ IF n > 0 /\ Complete(buf)
       THEN /\ slotBody' = Payload(buf[2])
            /\ slotType' = Payload(buf[2]).kind
       ELSE UNCHANGED slotVars

TcpReadHeader ==
    /\ pc = "header"
    /\ \E n \in 0..Len(wire) : Receive(n)
    /\ msg' = [type |-> slotType', size |-> SizeOf(slotBody')]
    /\ pc' = Dispatch(msg')
    /\ UNCHANGED <<loopVars, mShutdown, exitAfter, out, telnet, term, mgmtVars,
                   ghosts, faults, resets, client, link, breaks, refused,
                   skewed>>

TcpReadCommand ==
    /\ pc = "command"
    /\ pc' = "clear"
    /\ \E n \in 0..Len(wire) : Receive(n)
    /\ execs' = IF Accepts(msg, slotBody')
                THEN [execs EXCEPT ![slotBody'.cmd] = @ + 1] ELSE execs
    /\ UNCHANGED <<loopVars, mShutdown, exitAfter, msg, out, telnet, term,
                   mgmtVars, lost, dropped, faults, resets, client, link,
                   breaks, refused, skewed>>

\* Fault: the handled command stays in the message area.
TcpClearCommand_Skipped == ClearCommand_Skipped /\ UNCHANGED tcpVars

\* A type of 0 is not sent.
TcpClearCommand == ClearCommand /\ UNCHANGED tcpVars

-----------------------------------------------------------------------------
(* The sending half.                                                       *)

\* Fault: a failing send does not give the connection up.
Send_KeepsClient(body) ==
    /\ client
    /\ IF link = "up"
       THEN known' = IF body.fresh THEN known \cup {Item(body)} ELSE known
       ELSE UNCHANGED known
    /\ UNCHANGED <<loopVars, client, link, wire, refused, skewed>>

\* Over a broken connection one send passes unnoticed, the next one fails.
Send(body) ==
    /\ client
    /\ \/ /\ link = "up"
          /\ known' = IF body.fresh THEN known \cup {Item(body)} ELSE known
          /\ UNCHANGED <<client, link>>
       \/ /\ link = "broken"
          /\ link' = "dead"
          /\ UNCHANGED <<client, known>>
       \/ /\ link # "up"
          /\ client' = FALSE
          /\ UNCHANGED <<link, known>>
    /\ UNCHANGED <<loopVars, wire, refused, skewed>>

\* Fault: reconnecting does not reset the state machine.
Reconnect_NoReset(body) ==
    /\ ~client
    /\ client' = TRUE /\ link' = "up" /\ wire' = <<>> /\ known' = {}
    /\ skewed' = (body.kind # "Monitoring_Data")
    /\ UNCHANGED <<loopVars, refused>>

\* tryConnect, then resetStatemachine.  The message itself is not sent.
Reconnect(body) ==
    /\ ~client
    /\ client' = TRUE /\ link' = "up" /\ wire' = <<>> /\ known' = {}
    /\ mState' = "BasicInformation"
    /\ mCurrentPage' = 1
    /\ mFirstWriteDone' = FALSE
    /\ skewed' = (body.kind # "Monitoring_Data")
    /\ UNCHANGED refused

ConnectFails ==
    /\ ~client
    /\ refused < MaxRefused
    /\ refused' = refused + 1
    /\ UNCHANGED <<loopVars, client, link, wire, known, skewed>>

\* writeData: copy, send or reconnect, mark as processed.
WriteData(body) ==
    /\ Send(body) \/ Reconnect(body) \/ ConnectFails
    /\ slotBody' = body
    /\ slotType' = "Empty"
    /\ UNCHANGED <<mShutdown, exitAfter, msg, out, telnet, term, sent, execs,
                   lost, dropped, faults, resets, rbuf, breaks>>

TcpWriteMessage ==
    /\ pc = "write"
    /\ pc' = IF out.kind = "Monitoring_Data" THEN "done" ELSE "advance"
    /\ WriteData(out)

TcpQuit ==
    /\ pc = "quit"
    /\ pc' = "stopped"
    /\ WriteData(FinalPage)

-----------------------------------------------------------------------------
\* Steps of the loop that do not use the communicator.
LocalStep ==
    /\ \/ Arm \/ LoopTest \/ CheckPickup \/ ChooseMessage \/ Advance
       \/ TurnPage \/ TurnState \/ MarkWritten \/ WaitForUpdate
    /\ UNCHANGED tcpVars

TcpMainThread ==
    \/ LocalStep \/ TcpReadHeader \/ TcpReadCommand \/ TcpClearCommand
    \/ TcpWriteMessage \/ TcpQuit

\* doRead for a telnet client: it may take a packet from the socket.
MonitorRead ==
    /\ Monitor /\ pc # "stopped"
    /\ \E n \in 1..Len(wire) : Receive(n)
    /\ UNCHANGED <<pc, loopVars, mShutdown, exitAfter, msg, out, telnet, term,
                   mgmtVars, ghosts, faults, resets, client, link, breaks,
                   refused, skewed>>

\* The controller sends a command over the current connection.
ControllerCommand ==
    /\ client /\ link = "up"
    /\ \E c \in Commands \ sent :
          /\ sent' = sent \cup {c}
          /\ wire' = wire \o Packet(c)
    /\ UNCHANGED <<pc, loopVars, mShutdown, exitAfter, msg, out, slotVars,
                   telnet, term, known, ghosts, faults, resets, client, link,
                   rbuf, breaks, refused, skewed>>

\* The controller goes away; a packet may have been sent in part only.
LinkBreaks ==
    /\ client /\ link = "up" /\ breaks < MaxBreaks
    /\ breaks' = breaks + 1
    /\ link' = "broken"
    /\ \E n \in 0..Len(wire) : wire' = SubSeq(wire, 1, n)
    /\ UNCHANGED <<vars, client, rbuf, refused, skewed>>

TcpNext ==
    \/ TcpMainThread
    \/ MonitorRead
    \/ (Terminate /\ UNCHANGED tcpVars)
    \/ ControllerCommand
    \/ LinkBreaks

TcpSpec == TcpInit /\ [][TcpNext]_allVars

TcpFairSpec == TcpSpec /\ WF_allVars(TcpMainThread)

-----------------------------------------------------------------------------
(* Properties.                                                             *)

\* The variables of the plugin have their types.
TcpTypeOK ==
    /\ TypeOK
    /\ client \in BOOLEAN /\ link \in {"up", "broken", "dead"}
    /\ wire \in Seq(Tokens) /\ rbuf \in Seq(Tokens)
    /\ breaks \in 0..MaxBreaks /\ refused \in 0..MaxRefused
    /\ skewed \in BOOLEAN

(***************************************************************************)
(* On a connection that was not made in the middle of the description      *)
(* phase the controller receives the basic block, the pages in order and   *)
(* then data, wherever the previous connection broke off                   *)
(* (CommunicatorTCP.cpp:158-190, Daemon.cpp:452-482).                      *)
(***************************************************************************)
ConnectionInOrder ==
    skewed \/ \E k \in 0..(MaxPages + 2) :
                  known = {i \in FirstItem..(MaxPages + 1) : i < k}

(***************************************************************************)
(* Once connections stop breaking, a controller on such a connection has   *)
(* the whole description and data: no lost connection leaves the daemon    *)
(* without reconnecting (CommunicatorTCP.cpp:170-190).                     *)
(***************************************************************************)
EventuallyComplete ==
    <>[](skewed \/ mShutdown \/ known = FirstItem..(MaxPages + 1))

(***************************************************************************)
(* "Resetting state machine" (Daemon.cpp:94): after the reset on a new     *)
(* connection (CommunicatorTCP.cpp:187), publication starts over with the  *)
(* basic information block.                                                *)
(***************************************************************************)
FirstIsBasic == known # {} => 0 \in known

(***************************************************************************)
(* "Packet received", "Move remaining data to beginning of buffer"         *)
(* (CommunicatorTCP.cpp:131, 134): a complete packet does not stay in the  *)
(* receive buffer for ever.                                                *)
(***************************************************************************)
PacketsLeaveBuffer == []<>(~Complete(rbuf))
=============================================================================
