--------------------------- MODULE DaemonTCP_proofs ---------------------------
(***************************************************************************)
(* Proofs about DaemonTCP, for every set of commands, number of pages and  *)
(* bound on broken connections: types, the order of what a controller      *)
(* receives on a connection, and the executions of commands.               *)
(***************************************************************************)
EXTENDS DaemonTCP, Daemon_proofs, SequenceTheorems

USE DEF loopVars, slotVars, ghosts, mgmtVars

-----------------------------------------------------------------------------
(* Type correctness.                                                       *)

\* A step of the loop that does not use the communicator is a step of Daemon.
LEMMA LocalIsStep == LocalStep => [Next]_vars /\ UNCHANGED tcpVars
BY DEF LocalStep, Next, MainThread

\* Receive keeps the types of the message area and of both byte streams.
LEMMA ReceiveTypes ==
    ASSUME TcpTypeOK, NEW n \in 0..Len(wire), Receive(n)
    PROVE  /\ wire' \in Seq(Tokens) /\ rbuf' \in Seq(Tokens)
           /\ slotType' \in MessageTypes /\ slotBody' \in Bodies
<1> DEFINE buf == rbuf \o SubSeq(wire, 1, n)
<1>1. wire \in Seq(Tokens) /\ rbuf \in Seq(Tokens)
  BY DEF TcpTypeOK
<1>2. Len(wire) \in Nat /\ n \in Nat /\ n <= Len(wire)
  BY <1>1, LenProperties
<1>3. SubSeq(wire, 1, n) \in Seq(Tokens) /\ SubSeq(wire, n + 1, Len(wire)) \in Seq(Tokens)
  BY <1>1, <1>2
<1>4. buf \in Seq(Tokens)
  BY <1>1, <1>3
<1>5. Len(buf) \in Nat /\ SubSeq(buf, 3, Len(buf)) \in Seq(Tokens) /\ <<>> \in Seq(Tokens)
  BY <1>4
<1>6. Len(buf) >= 2 => Payload(buf[2]) \in Bodies
  <2> SUFFICES ASSUME Len(buf) >= 2 PROVE Payload(buf[2]) \in Bodies
    OBVIOUS
  <2>1. buf[2] \in Tokens
    BY <1>4, <1>5
  <2>2. buf[2].cmd \in Commands
    BY <2>1 DEF Tokens
  <2> QED
    BY <2>2, BodyTypes DEF Payload, MessageTypes
<1>7. \A b \in Bodies : b.kind \in MessageTypes
  BY DEF Bodies
<1>8. slotType \in MessageTypes /\ slotBody \in Bodies
  BY DEF TcpTypeOK, TypeOK
<1> HIDE DEF buf
<1> QED
  BY <1>1, <1>3, <1>4, <1>5, <1>6, <1>7, <1>8 DEF Receive, Complete, buf

\* The variables start well typed.
LEMMA TcpTypeInit == TcpInit => TcpTypeOK
<1> SUFFICES ASSUME TcpInit PROVE TcpTypeOK
  OBVIOUS
<1>1. TypeOK
  BY TypeInit DEF TcpInit
<1>2. client \in BOOLEAN /\ skewed \in BOOLEAN
  BY Zenon DEF TcpInit
<1>3. wire \in Seq(Tokens) /\ rbuf \in Seq(Tokens)
  BY DEF TcpInit
<1>4. breaks \in 0..MaxBreaks /\ refused \in 0..MaxRefused
  BY TcpAssumption DEF TcpInit
<1> QED
  BY <1>1, <1>2, <1>3, <1>4 DEF TcpInit, TcpTypeOK

\* The sending half keeps the types.
LEMMA WriteTypes ==
    ASSUME TcpTypeOK, NEW body \in Bodies, WriteData(body)
    PROVE  /\ mState' \in {"BasicInformation", "MonitoringDescription",
                           "MonitoringData"}
           /\ mCurrentPage' = mCurrentPage \/ mCurrentPage' = 1
           /\ mFirstWriteDone' \in BOOLEAN
           /\ slotType' \in MessageTypes /\ slotBody' \in Bodies
           /\ known' \in SUBSET (0..(MaxPages + 1))
           /\ client' \in BOOLEAN /\ skewed' \in BOOLEAN
           /\ link' \in {"up", "broken", "dead"}
           /\ wire' \in Seq(Tokens) /\ rbuf' = rbuf
           /\ breaks' = breaks /\ refused' \in 0..MaxRefused
<1>1. Item(body) \in 0..(MaxPages + 1)
  BY PagesAssumption DEF Item, Bodies
<1>2. known \in SUBSET (0..(MaxPages + 1)) /\ wire \in Seq(Tokens)
      /\ refused \in 0..MaxRefused
      /\ mState \in {"BasicInformation", "MonitoringDescription",
                     "MonitoringData"}
      /\ link \in {"up", "broken", "dead"}
  BY DEF TcpTypeOK, TypeOK
<1>3. client \in BOOLEAN /\ skewed \in BOOLEAN /\ mFirstWriteDone \in BOOLEAN
  BY DEF TcpTypeOK, TypeOK
<1>4. slotType' \in MessageTypes /\ slotBody' \in Bodies /\ rbuf' = rbuf
      /\ breaks' = breaks
  BY DEF WriteData, MessageTypes
<1>5. CASE Send(body)
  <2>1. client' \in BOOLEAN /\ skewed' \in BOOLEAN /\ mFirstWriteDone' \in BOOLEAN
    BY <1>3, <1>5, Zenon DEF Send
  <2> QED BY <1>1, <1>2, <1>4, <1>5, <2>1 DEF Send
<1>6. CASE Reconnect(body)
  <2>1. client' \in BOOLEAN /\ skewed' \in BOOLEAN /\ mFirstWriteDone' \in BOOLEAN
    BY <1>6, Zenon DEF Reconnect
  <2> QED BY <1>2, <1>4, <1>6, <2>1 DEF Reconnect
<1>7. CASE ConnectFails
  <2>1. client' \in BOOLEAN /\ skewed' \in BOOLEAN /\ mFirstWriteDone' \in BOOLEAN
    BY <1>3, <1>7, Zenon DEF ConnectFails
  <2>2. refused' \in 0..MaxRefused
    BY <1>2, <1>7, TcpAssumption DEF ConnectFails
  <2> QED BY <1>2, <1>4, <1>7, <2>1, <2>2 DEF ConnectFails
<1> QED BY <1>5, <1>6, <1>7 DEF WriteData

\* Every step keeps the types.
LEMMA TcpTypeStep == TcpTypeOK /\ [TcpNext]_allVars => TcpTypeOK'
<1> SUFFICES ASSUME TcpTypeOK, [TcpNext]_allVars PROVE TcpTypeOK'
  OBVIOUS
<1> USE DEF TcpTypeOK
<1>1. CASE LocalStep
  BY <1>1, LocalIsStep, TypeStep DEF tcpVars
<1>2. CASE TcpReadHeader
  <2>1. PICK n \in 0..Len(wire) : Receive(n)
    BY <1>2 DEF TcpReadHeader
  <2>2. msg' \in Headers
    BY <1>2, <2>1, ReceiveTypes, SizeType DEF TcpReadHeader, Headers
  <2> QED
    BY <1>2, <2>1, <2>2, ReceiveTypes DEF TcpReadHeader, Dispatch, TypeOK
<1>3. CASE TcpReadCommand
  <2>1. PICK n \in 0..Len(wire) : Receive(n)
    BY <1>3 DEF TcpReadCommand
  <2>2. execs' \in [Commands -> Nat]
    <3>1. execs \in [Commands -> Nat]
      BY DEF TypeOK
    <3>2. ASSUME NEW k \in Commands \cup {NoCommand}
          PROVE  [execs EXCEPT ![k] = @ + 1] \in [Commands -> Nat]
      <4>1. CASE k \in Commands
        BY <3>1, <4>1
      <4>2. CASE k \notin Commands
        BY <3>1, <4>2
      <4> QED BY <4>1, <4>2
    <3>3. slotBody'.cmd \in Commands \cup {NoCommand}
      BY <2>1, ReceiveTypes DEF Bodies
    <3> QED BY <1>3, <3>1, <3>2, <3>3 DEF TcpReadCommand
  <2> QED
    BY <1>3, <2>1, <2>2, ReceiveTypes DEF TcpReadCommand, TypeOK
<1>4. CASE TcpClearCommand
  BY <1>4, TypeStep DEF TcpClearCommand, Next, MainThread, tcpVars
<1>5. CASE TcpWriteMessage
  BY <1>5, WriteTypes, PagesAssumption DEF TcpWriteMessage, WriteData, TypeOK
<1>6. CASE TcpQuit
  BY <1>6, WriteTypes, BodyTypes, PagesAssumption DEF TcpQuit, WriteData, TypeOK
<1>7. CASE MonitorRead
  <2>1. PICK n \in 1..Len(wire) : Receive(n)
    BY <1>7 DEF MonitorRead
  <2>2. n \in 0..Len(wire)
    BY LenProperties
  <2> QED
    BY <1>7, <2>1, <2>2, ReceiveTypes DEF MonitorRead, TypeOK
<1>8. CASE Terminate /\ UNCHANGED tcpVars
  BY <1>8, TypeStep DEF Next, tcpVars
<1>9. CASE ControllerCommand
  <2>1. PICK c \in Commands \ sent : sent' = sent \cup {c}
                                     /\ wire' = wire \o Packet(c)
    BY <1>9 DEF ControllerCommand
  <2>2. Packet(c) \in Seq(Tokens)
    BY DEF Packet, Tokens
  <2>3. wire' \in Seq(Tokens)
    BY <2>1, <2>2
  <2> QED
    BY <1>9, <2>1, <2>3 DEF ControllerCommand, TypeOK
<1>10. CASE LinkBreaks
  <2>1. PICK n \in 0..Len(wire) : wire' = SubSeq(wire, 1, n)
    BY <1>10 DEF LinkBreaks
  <2>2. wire' \in Seq(Tokens)
    BY <2>1, LenProperties
  <2>3. TypeOK'
    BY <1>10, TypeStep DEF LinkBreaks
  <2>4. breaks' \in 0..MaxBreaks
    BY <1>10, TcpAssumption DEF LinkBreaks
  <2> QED
    BY <1>10, <2>2, <2>3, <2>4 DEF LinkBreaks
<1>11. CASE UNCHANGED allVars
  BY <1>11, TypeStep DEF allVars, tcpVars
<1> QED
  BY <1>1, <1>2, <1>3, <1>4, <1>5, <1>6, <1>7, <1>8, <1>9, <1>10, <1>11
     DEF TcpNext, TcpMainThread

(***************************************************************************)
(* The variables of the loop and of CommunicatorTCP keep their types, and  *)
(* mCurrentPage its range, although a write can reset the loop from within.*)
(***************************************************************************)
THEOREM TcpTypeCorrect == TcpSpec => []TcpTypeOK
BY TcpTypeInit, TcpTypeStep, PTL DEF TcpSpec

-----------------------------------------------------------------------------
(* The order on a connection.                                              *)

(***************************************************************************)
(* The loop's decisions agree with mState, which nobody but the loop       *)
(* changes, and the controller has everything before the next item.        *)
(***************************************************************************)
OnTrack ==
    /\ pc = "arm" => mState = "BasicInformation"
    /\ pc = "isData" => mState # "BasicInformation"
    /\ pc \in {"isDescription", "page"} => mState = "MonitoringDescription"
    /\ pc = "write" =>
          /\ Item(out) = NextItem
          /\ out.kind = "Basic_Information" <=> mState = "BasicInformation"
          /\ out.kind = "Monitoring_Data" <=> mState = "MonitoringData"
    /\ pc = "advance" =>
          /\ mState # "MonitoringData"
          /\ out.kind = "Basic_Information" <=> mState = "BasicInformation"
          /\ known = Prefix(NextItem + 1)
    /\ pc \in {"turn", "turned"} => mState = "MonitoringDescription"
    /\ pc = "turned" => known = Prefix(MaxPages + 1)
    /\ mState # "MonitoringDescription" \/ pc = "turned" => mCurrentPage = 1
    /\ pc \notin {"advance", "turned", "stopped"} =>
          \/ known = Prefix(NextItem)
          \/ mState = "MonitoringData" /\ known = Prefix(MaxPages + 2)

(***************************************************************************)
(* The inductive invariant.  Once the connection is broken the loop goes   *)
(* on without the controller, and nothing is claimed of it but that what   *)
(* the controller has is still a prefix.                                   *)
(***************************************************************************)
ConnectionInv ==
    /\ link = "up" => client
    /\ pc = "write" => out.fresh
    /\ ConnectionInOrder
    /\ skewed \/ link # "up" \/ OnTrack

\* The description of the first connection starts with nothing known.
LEMMA ConnectionInvInit == TcpInit => ConnectionInv
<1> SUFFICES ASSUME TcpInit PROVE ConnectionInv
  OBVIOUS
<1>1. known = {} /\ pc = "arm" /\ NextItem = 0 /\ mState = "BasicInformation"
      /\ mCurrentPage = 1
  BY DEF TcpInit, Init, NextItem
<1>2. known = Prefix(0)
  BY <1>1, PrefixFacts
<1>3. ConnectionInOrder
  BY <1>2, PagesAssumption DEF ConnectionInOrder, Prefix
<1>4. OnTrack
  BY <1>1, <1>2 DEF OnTrack
<1> QED
  BY <1>1, <1>3, <1>4, Zenon DEF ConnectionInv, TcpInit

\* A step that leaves the connection and what it delivered alone.
LEMMA SameConnection ==
    ASSUME ConnectionInv, UNCHANGED <<link, client, known, skewed>>,
           pc' = "write" => out'.fresh,
           OnTrack => OnTrack'
    PROVE  ConnectionInv'
BY DEF ConnectionInv, ConnectionInOrder

\* The steps of the loop that do not use the communicator.
LEMMA LocalOnTrack ==
    ASSUME TcpTypeOK, LocalStep, OnTrack
    PROVE  OnTrack'
<1> USE DEF OnTrack
<1>p. /\ MaxPages \in 1..254 /\ mCurrentPage \in 1..(MaxPages + 1)
      /\ mCurrentPage = MaxPages + 1 => pc = "turn"
      /\ mState \in {"BasicInformation", "MonitoringDescription",
                     "MonitoringData"}
  BY PagesAssumption DEF TcpTypeOK, TypeOK
<1>k. known' = known
  BY DEF LocalStep, Arm, LoopTest, CheckPickup, ChooseMessage, TestState,
         DescriptionDue, ReadPage, Advance, TurnPage, TurnState, MarkWritten,
         WaitForUpdate
<1>s. ASSUME UNCHANGED <<mState, mCurrentPage, known>>
      PROVE  NextItem' = NextItem
  BY <1>s DEF NextItem
<1>1. CASE Arm
  <2>1. NextItem = 0 /\ NextItem' = 0 /\ mState = "BasicInformation"
    BY <1>1 DEF Arm, NextItem
  <2> QED BY <1>1, <1>k, <2>1 DEF Arm
<1>2. CASE LoopTest \/ CheckPickup \/ MarkWritten \/ WaitForUpdate
  BY <1>2, <1>s DEF LoopTest, CheckPickup, MarkWritten, WaitForUpdate
<1>3. CASE ChooseMessage
  <2>1. UNCHANGED <<mState, mCurrentPage, known>> /\ NextItem' = NextItem
    BY <1>3, <1>s DEF ChooseMessage, TestState, DescriptionDue, ReadPage
  <2>2. CASE TestState("isBasic", "BasicInformation",
                       Message("Basic_Information", 0), "isData")
    BY <2>1, <2>2 DEF TestState, Message, Item, NextItem
  <2>3. CASE TestState("isData", "MonitoringData",
                       Message("Monitoring_Data", 0), "isDescription")
    BY <1>p, <2>1, <2>3 DEF TestState, Message, Item, NextItem
  <2>4. CASE DescriptionDue
    BY <2>1, <2>4 DEF DescriptionDue
  <2>5. CASE ReadPage
    BY <1>p, <2>1, <2>5 DEF ReadPage, Message, Item, NextItem
  <2> QED BY <1>3, <2>2, <2>3, <2>4, <2>5 DEF ChooseMessage
<1>4. CASE Advance
  <2>1. CASE out.kind = "Basic_Information"
    <3>1. /\ pc' = "done" /\ mState' = "MonitoringDescription"
          /\ mCurrentPage' = 1 /\ known = Prefix(1)
      BY <1>4, <2>1 DEF Advance, NextItem
    <3> QED BY <1>k, <3>1 DEF NextItem
  <2>2. CASE out.kind # "Basic_Information"
    <3>1. /\ pc' = "turn" /\ mState = "MonitoringDescription"
          /\ mState' = mState /\ known = Prefix(mCurrentPage + 1)
          /\ mCurrentPage' = mCurrentPage + 1
      BY <1>4, <1>p, <2>2 DEF Advance, NextItem
    <3> QED BY <1>k, <3>1 DEF NextItem
  <2> QED BY <2>1, <2>2
<1>5. CASE TurnPage
  <2>1. /\ mState = "MonitoringDescription" /\ mState' = mState
        /\ known = Prefix(mCurrentPage)
    BY <1>5 DEF TurnPage, NextItem
  <2>2. CASE mCurrentPage > MaxPages
    <3>1. pc' = "turned" /\ mCurrentPage = MaxPages + 1 /\ mCurrentPage' = 1
      BY <1>5, <1>p, <2>2 DEF TurnPage
    <3> QED BY <1>k, <2>1, <3>1
  <2>3. CASE ~(mCurrentPage > MaxPages)
    <3>1. pc' = "done" /\ mCurrentPage' = mCurrentPage
      BY <1>5, <2>3 DEF TurnPage
    <3> QED BY <1>k, <2>1, <3>1 DEF NextItem
  <2> QED BY <2>2, <2>3
<1>6. CASE TurnState
  <2>1. /\ pc' = "done" /\ mState' = "MonitoringData" /\ mCurrentPage' = 1
        /\ known = Prefix(MaxPages + 1)
    BY <1>6 DEF TurnState
  <2> QED BY <1>k, <2>1 DEF NextItem
<1> QED
  BY <1>1, <1>2, <1>3, <1>4, <1>5, <1>6 DEF LocalStep

\* The next item is one of the items.
LEMMA NextItemType ==
    ASSUME TcpTypeOK, pc # "turn"
    PROVE  NextItem \in 0..(MaxPages + 1)
BY PagesAssumption DEF TcpTypeOK, TypeOK, NextItem

\* A message of the loop arrives, gets lost or opens a new connection.
LEMMA WriteOnTrack ==
    ASSUME TcpTypeOK, ConnectionInv, TcpWriteMessage
    PROVE  ConnectionInv'
<1>0. /\ pc = "write" /\ pc' \in {"done", "advance"} /\ out.fresh
      /\ pc' = "done" <=> out.kind = "Monitoring_Data"
      /\ out' = out /\ WriteData(out)
  BY DEF TcpWriteMessage, WriteData, ConnectionInv
<1>1. CASE Send(out)
  <2>0. UNCHANGED <<mState, mCurrentPage, mFirstWriteDone, skewed>>
    BY <1>1 DEF Send
  <2>1. CASE link = "up"
    <3>1. /\ client' = client /\ link' = link
          /\ known' = known \cup {Item(out)}
      BY <1>0, <1>1, <2>1 DEF Send
    <3> SUFFICES ASSUME ~skewed PROVE OnTrack' /\ ConnectionInOrder'
      BY <1>0, <2>0, <2>1, <3>1 DEF ConnectionInv, ConnectionInOrder
    <3>2. OnTrack
      BY <2>1 DEF ConnectionInv
    <3>3. NextItem \in 0..(MaxPages + 1) /\ NextItem' = NextItem
      BY <1>0, <2>0, NextItemType DEF NextItem
    <3>4. Item(out) = NextItem
      BY <1>0, <3>2 DEF OnTrack
    <3>5. FirstItem = 0 /\ MaxPages \in 1..254
      BY TcpAssumption, PagesAssumption DEF FirstItem
    <3>6. known' = Prefix(NextItem + 1)
      <4>1. CASE known = Prefix(NextItem)
        BY <3>1, <3>3, <3>4, <3>5, <4>1, PrefixFacts
      <4>2. CASE mState = "MonitoringData" /\ known = Prefix(MaxPages + 2)
        <5>1. NextItem = MaxPages + 1
          BY <4>2 DEF NextItem
        <5>2. MaxPages + 1 \in Prefix(MaxPages + 2)
          BY <3>5 DEF Prefix
        <5> QED BY <3>1, <3>4, <3>5, <4>2, <5>1, <5>2
      <4> QED BY <1>0, <3>2, <4>1, <4>2 DEF OnTrack
    <3>7. ConnectionInOrder'
      BY <3>3, <3>5, <3>6 DEF ConnectionInOrder, Prefix
    <3>8. CASE out.kind = "Monitoring_Data"
      <4>1. mState = "MonitoringData" /\ NextItem = MaxPages + 1
        BY <1>0, <3>2, <3>8 DEF OnTrack, NextItem
      <4> QED BY <1>0, <2>0, <3>2, <3>5, <3>6, <3>7, <3>8, <4>1 DEF OnTrack
    <3>9. CASE out.kind # "Monitoring_Data"
      BY <1>0, <2>0, <3>2, <3>3, <3>6, <3>7, <3>9 DEF OnTrack
    <3> QED BY <3>8, <3>9
  <2>2. CASE link # "up"
    <3>1. link' # "up" /\ known' = known
      BY <1>1, <2>2 DEF Send
    <3> QED BY <1>0, <2>0, <3>1 DEF ConnectionInv, ConnectionInOrder
  <2> QED BY <2>1, <2>2
<1>2. CASE Reconnect(out)
  <2>1. /\ client' /\ known' = {} /\ mState' = "BasicInformation"
        /\ mCurrentPage' = 1
    BY <1>2 DEF Reconnect
  <2>2. skewed' \/ pc' = "done"
    BY <1>0, <1>2 DEF Reconnect
  <2>3. NextItem' = 0 /\ known' = Prefix(0)
    BY <2>1, PrefixFacts DEF NextItem
  <2>4. ConnectionInOrder'
    BY <2>3, PagesAssumption DEF ConnectionInOrder, Prefix
  <2>5. pc' = "done" => OnTrack'
    BY <2>1, <2>3 DEF OnTrack
  <2> QED BY <1>0, <2>1, <2>2, <2>4, <2>5 DEF ConnectionInv
<1>3. CASE ConnectFails
  <2>1. link # "up" /\ UNCHANGED <<link, client, known, skewed>>
    BY <1>3 DEF ConnectFails, ConnectionInv
  <2> QED BY <1>0, <2>1 DEF ConnectionInv, ConnectionInOrder
<1> QED BY <1>0, <1>1, <1>2, <1>3 DEF WriteData

\* The last message of a run teaches the controller nothing new.
LEMMA QuitOnTrack ==
    ASSUME TcpTypeOK, ConnectionInv, TcpQuit
    PROVE  ConnectionInv'
<1>0. pc = "quit" /\ pc' = "stopped" /\ WriteData(FinalPage)
  BY DEF TcpQuit
<1>1. CASE Send(FinalPage)
  <2>1. known' = known /\ skewed' = skewed /\ UNCHANGED <<mState, mCurrentPage>>
    BY <1>1 DEF Send, FinalPage
  <2>2. link' = "up" => link = "up" /\ client'
    BY <1>1 DEF Send, ConnectionInv
  <2>3. OnTrack => OnTrack'
    BY <1>0, <2>1 DEF OnTrack
  <2> QED BY <1>0, <2>1, <2>2, <2>3 DEF ConnectionInv, ConnectionInOrder
<1>2. CASE Reconnect(FinalPage)
  BY <1>0, <1>2 DEF Reconnect, FinalPage, ConnectionInv, ConnectionInOrder
<1>3. CASE ConnectFails
  <2>1. link # "up" /\ UNCHANGED <<link, client, known, skewed>>
    BY <1>3 DEF ConnectFails, ConnectionInv
  <2> QED BY <1>0, <2>1 DEF ConnectionInv, ConnectionInOrder
<1> QED BY <1>0, <1>1, <1>2, <1>3 DEF WriteData

\* Every step keeps the connection in order.
LEMMA ConnectionInvStep ==
    TcpTypeOK /\ ConnectionInv /\ [TcpNext]_allVars => ConnectionInv'
<1> SUFFICES ASSUME TcpTypeOK, ConnectionInv, [TcpNext]_allVars
             PROVE  ConnectionInv'
  OBVIOUS
<1>0. ASSUME UNCHANGED <<mState, mCurrentPage, known, out>>,
             pc' = pc \/ /\ pc' \in {"clear", "wait", "command", "check"}
                         /\ pc \in {"header", "command", "clear"}
      PROVE  OnTrack => OnTrack'
  <2>1. NextItem' = NextItem /\ Item(out)' = Item(out)
    BY <1>0 DEF NextItem, Item
  <2> QED BY <1>0, <2>1 DEF OnTrack
<1>1. CASE LocalStep
  <2>1. UNCHANGED <<link, client, known, skewed>>
    BY <1>1 DEF LocalStep, tcpVars, Arm, LoopTest, CheckPickup, ChooseMessage,
                TestState, DescriptionDue, ReadPage, Advance, TurnPage,
                TurnState, MarkWritten,
                WaitForUpdate
  <2>2. pc' = "write" => out'.fresh
    <3>1. CASE ChooseMessage
      BY <3>1 DEF ChooseMessage, TestState, DescriptionDue, ReadPage,
                  Message
    <3> QED
      BY <1>1, <3>1 DEF LocalStep, Arm, LoopTest, CheckPickup, Advance,
                        TurnPage, TurnState, MarkWritten, WaitForUpdate
  <2> QED BY <1>1, <2>1, <2>2, SameConnection, LocalOnTrack
<1>2. CASE TcpReadHeader \/ TcpReadCommand \/ TcpClearCommand \/ MonitorRead
  <2>1. UNCHANGED <<link, client, known, skewed, mState, mCurrentPage, out>>
    BY <1>2 DEF TcpReadHeader, TcpReadCommand, TcpClearCommand, MonitorRead,
                ClearCommand, tcpVars
  <2>2. pc' = pc \/ /\ pc' \in {"clear", "wait", "command", "check"}
                    /\ pc \in {"header", "command", "clear"}
    BY <1>2 DEF TcpReadHeader, TcpReadCommand, TcpClearCommand, MonitorRead,
                ClearCommand, Dispatch
  <2>3. pc' = "write" => out'.fresh
    BY <2>1, <2>2 DEF ConnectionInv
  <2> QED BY <1>0, <2>1, <2>2, <2>3, SameConnection
<1>3. CASE TcpWriteMessage
  BY <1>3, WriteOnTrack
<1>4. CASE TcpQuit
  BY <1>4, QuitOnTrack
<1>5. CASE (Terminate /\ UNCHANGED tcpVars) \/ ControllerCommand
           \/ UNCHANGED allVars
  <2>1. UNCHANGED <<link, client, known, skewed, mState, mCurrentPage, out, pc>>
    BY <1>5 DEF Terminate, ControllerCommand, allVars, vars, tcpVars
  <2>2. pc' = "write" => out'.fresh
    BY <2>1 DEF ConnectionInv
  <2> QED BY <1>0, <2>1, <2>2, SameConnection
<1>6. CASE LinkBreaks
  <2>1. link' # "up" /\ UNCHANGED <<known, skewed, pc, out>>
    BY <1>6 DEF LinkBreaks, vars
  <2> QED BY <2>1 DEF ConnectionInv, ConnectionInOrder
<1> QED
  BY <1>1, <1>2, <1>3, <1>4, <1>5, <1>6 DEF TcpNext, TcpMainThread

(***************************************************************************)
(* On every connection that was not made in the middle of a description,   *)
(* the controller receives the basic block, the pages in order and then    *)
(* data, wherever connections broke and however often connecting failed.   *)
(***************************************************************************)
THEOREM ConnectionIsInOrder == TcpSpec => []ConnectionInOrder
<1>1. ConnectionInv => ConnectionInOrder
  BY DEF ConnectionInv
<1> QED
  BY <1>1, TcpTypeCorrect, ConnectionInvInit, ConnectionInvStep, PTL
     DEF TcpSpec

-----------------------------------------------------------------------------
(* Executions.                                                             *)

\* Everything the controller sent on this connection and the loop has not
\* taken over, in the order in which it will be read.
Stream == rbuf \o wire

InStream(c) ==
    \E i \in 1..Len(Stream) : Stream[i] = [part |-> "payload", cmd |-> c]

\* The stream holds sent commands only, and the payload of each once.
StreamOK ==
    /\ \A i \in 1..Len(Stream) : Stream[i].cmd \in sent
    /\ \A i, j \in 1..Len(Stream) :
          Stream[i] = Stream[j] /\ Stream[i].part = "payload" => i = j

(***************************************************************************)
(* The inductive invariant: a command that is still to be read, in the     *)
(* stream or armed in the message area, was not executed, and is there     *)
(* once.                                                                   *)
(***************************************************************************)
TcpExecutionInv ==
    /\ out.cmd = NoCommand
    /\ faults = 0
    /\ slotBody.cmd \in sent \cup {NoCommand}
    /\ StreamOK
    /\ \A c \in Commands :
          InStream(c) \/ Armed(c) => execs[c] = 0
    /\ \A c \in Commands : InStream(c) => slotBody.cmd # c
    /\ \A c \in Commands : execs[c] > 0 => c \in sent \cap Signed \cap Mine
    /\ \A c \in Commands : execs[c] <= 1

\* Nothing is in the stream at first, and nothing was executed.
LEMMA TcpExecutionInit == TcpInit => TcpExecutionInv
<1> SUFFICES ASSUME TcpInit PROVE TcpExecutionInv
  OBVIOUS
<1>1. Stream = <<>>
  BY DEF TcpInit, Stream
<1>2. \A c \in Commands : ~InStream(c)
  BY <1>1 DEF InStream
<1>3. \A c \in Commands : ~Armed(c)
  BY CommandAssumption DEF Armed, TcpInit, Init, Leftover
<1> QED
  BY <1>1, <1>2, <1>3 DEF TcpInit, Init, Leftover, TcpExecutionInv, StreamOK

\* What is left of the stream when its first a tokens, and perhaps some of
\* its last ones, are gone.
LeftOf(s, a) ==
    /\ Len(Stream') + a <= Len(s)
    /\ \A i \in 1..Len(Stream') : Stream'[i] = s[i + a]

\* The second part of a sequence that is put together.
LEMMA ConcatBehind ==
    ASSUME NEW S, NEW s \in Seq(S), NEW t \in Seq(S)
    PROVE  /\ Len(t) + Len(s) <= Len(s \o t)
           /\ \A i \in 1..Len(t) : t[i] = (s \o t)[i + Len(s)]
<1>1. Len(s) \in Nat /\ Len(t) \in Nat /\ Len(s \o t) = Len(s) + Len(t)
  BY LenProperties, ConcatProperties
<1>2. ASSUME NEW i \in 1..Len(t)
      PROVE  t[i] = (s \o t)[i + Len(s)]
  <2>1. i + Len(s) \in 1..(Len(s) + Len(t)) /\ ~(i + Len(s) <= Len(s))
        /\ (i + Len(s)) - Len(s) = i
    BY <1>1
  <2> QED BY <2>1, ConcatProperties
<1> QED BY <1>1, <1>2

\* The first two elements of a sequence that is put together are left out.
LEMMA SkipFront ==
    ASSUME NEW S, NEW s \in Seq(S), NEW t \in Seq(S), Len(s) >= 2
    PROVE  /\ Len(SubSeq(s, 3, Len(s)) \o t) + 2 <= Len(s \o t)
           /\ \A i \in 1..Len(SubSeq(s, 3, Len(s)) \o t) :
                 (SubSeq(s, 3, Len(s)) \o t)[i] = (s \o t)[i + 2]
<1> DEFINE u == SubSeq(s, 3, Len(s))
<1>1. Len(s) \in Nat /\ Len(t) \in Nat /\ Len(s \o t) = Len(s) + Len(t)
  BY LenProperties, ConcatProperties
<1>2. /\ u \in Seq(S) /\ Len(u) = Len(s) - 2
      /\ \A i \in 1..(Len(s) - 2) : u[i] = s[i + 2]
  <2> HIDE DEF u
  <2>1. \A i \in 3..Len(s) : s[i] \in S
    BY <1>1, ElementOfSeq
  <2>2. 3 \in Int /\ Len(s) \in Int
    BY <1>1
  <2>3. /\ u \in Seq(S)
        /\ Len(u) = IF 3 <= Len(s) THEN Len(s) - 3 + 1 ELSE 0
        /\ \A i \in 1..(Len(s) - 3 + 1) : u[i] = s[3 + i - 1]
    BY <2>1, <2>2, SubSeqProperties DEF u
  <2>4. ASSUME NEW i \in 1..(Len(s) - 2)
        PROVE  u[i] = s[i + 2]
    <3>1. i \in 1..(Len(s) - 3 + 1) /\ 3 + i - 1 = i + 2
      BY <1>1
    <3> QED BY <2>3, <3>1
  <2>5. Len(u) = Len(s) - 2
    <3>1. \A k \in Nat : k >= 2 => (IF 3 <= k THEN k - 3 + 1 ELSE 0) = k - 2
      OBVIOUS
    <3> QED BY <1>1, <2>3, <3>1, Zenon
  <2> QED BY <2>3, <2>4, <2>5, Zenon
<1> HIDE DEF u
<1>3. Len(u \o t) = Len(s) - 2 + Len(t)
  BY <1>1, <1>2, ConcatProperties
<1>4. ASSUME NEW i \in 1..(Len(s) - 2 + Len(t))
      PROVE  (u \o t)[i] = (s \o t)[i + 2]
  <2>1. i \in 1..(Len(u) + Len(t)) /\ i + 2 \in 1..(Len(s) + Len(t))
    BY <1>1, <1>2
  <2>2. (u \o t)[i] = IF i <= Len(u) THEN u[i] ELSE t[i - Len(u)]
    BY <1>2, <2>1, ConcatProperties
  <2>3. (s \o t)[i + 2] = IF i + 2 <= Len(s) THEN s[i + 2]
                          ELSE t[(i + 2) - Len(s)]
    BY <2>1, ConcatProperties
  <2>4. CASE i <= Len(s) - 2
    BY <1>1, <1>2, <2>2, <2>3, <2>4
  <2>5. CASE ~(i <= Len(s) - 2)
    <3>1. i - Len(u) = (i + 2) - Len(s) /\ ~(i <= Len(u)) /\ ~(i + 2 <= Len(s))
      BY <1>1, <1>2, <2>5
    <3> QED BY <2>2, <2>3, <3>1
  <2> QED BY <2>4, <2>5
<1>5. Len(u \o t) + 2 <= Len(s \o t)
  BY <1>1, <1>3
<1> QED BY <1>3, <1>4, <1>5 DEF u

\* Receive takes tokens from the front of the stream; of a complete packet
\* the second one lands in the message area.
LEMMA ReceiveTakes ==
    ASSUME TcpTypeOK, NEW n \in 0..Len(wire), Receive(n)
    PROVE  \E a \in Nat :
              /\ LeftOf(Stream, a)
              /\ \/ UNCHANGED slotVars
                 \/ /\ a >= 2 /\ Len(Stream) >= 2
                    /\ slotBody' = Payload(Stream[2])
                    /\ slotType' = slotBody'.kind
<1> DEFINE got == SubSeq(wire, 1, n)
           rest == SubSeq(wire, n + 1, Len(wire))
           buf == rbuf \o got
<1>1. wire \in Seq(Tokens) /\ rbuf \in Seq(Tokens) /\ n \in Nat
  BY LenProperties DEF TcpTypeOK
<1>2. Len(wire) \in Nat /\ n <= Len(wire)
  BY <1>1, LenProperties
<1>3. got \in Seq(Tokens) /\ rest \in Seq(Tokens)
  BY <1>1, <1>2
<1>4. got \o rest = wire
  <2>1. SubSeq(wire, 1, Len(wire)) = wire
    BY <1>1, SubSeqFull
  <2>2. /\ 1 \in 1..(Len(wire) + 1) /\ n \in (1 - 1)..Len(wire)
        /\ Len(wire) \in n..Len(wire)
    BY <1>1, <1>2
  <2>3. SubSeq(wire, 1, n) \o SubSeq(wire, n + 1, Len(wire))
           = SubSeq(wire, 1, Len(wire))
    BY <1>1, <2>2, ConcatAdjacentSubSeq
  <2> QED BY <2>1, <2>3
<1> HIDE DEF got, rest
<1>5. Stream = buf \o rest
  <2>1. (rbuf \o got) \o rest = rbuf \o (got \o rest)
    BY <1>1, <1>3, ConcatAssociative
  <2> QED BY <1>4, <2>1 DEF Stream
<1>6. buf \in Seq(Tokens)
  BY <1>1, <1>3
<1>7. /\ wire' = rest
      /\ n > 0 /\ Complete(buf) =>
            /\ rbuf' = SubSeq(buf, 3, Len(buf))
            /\ slotBody' = Payload(buf[2]) /\ slotType' = Payload(buf[2]).kind
      /\ ~(n > 0 /\ Complete(buf)) => UNCHANGED slotVars
      /\ ~(n > 0 /\ Complete(buf)) => rbuf' = buf \/ rbuf' = <<>>
  <2>1. n = 0 => rbuf = buf
    <3>1. n = 0 => got = << >>
      BY <1>2, SubSeqEmpty DEF got
    <3>2. rbuf \o << >> = rbuf
      BY <1>1, ConcatEmptySeq
    <3> QED BY <3>1, <3>2
  <2>2. (n = 0 /\ ~(n > 0)) \/ (n # 0 /\ n > 0)
    BY <1>1
  <2> QED BY <2>1, <2>2, Zenon DEF Receive, got, rest
<1> HIDE DEF buf
<1>8. Len(buf) \in Nat /\ Len(rest) \in Nat
  BY <1>3, <1>6, LenProperties
<1>9. CASE n > 0 /\ Complete(buf)
  <2>1. Len(buf) >= 2
    BY <1>9 DEF Complete
  <2>2. LeftOf(Stream, 2)
    <3>1. Stream' = SubSeq(buf, 3, Len(buf)) \o rest
      BY <1>7, <1>9 DEF Stream
    <3> QED BY <1>3, <1>5, <1>6, <1>8, <2>1, <3>1, SkipFront DEF LeftOf
  <2>3. buf[2] = Stream[2] /\ Len(Stream) >= 2
    BY <1>3, <1>5, <1>6, <1>8, <2>1, ConcatProperties
  <2> QED BY <1>7, <1>9, <2>2, <2>3
<1>10. CASE ~(n > 0 /\ Complete(buf)) /\ rbuf' = <<>>
  <2>1. Stream' = rest
    BY <1>3, <1>7, <1>10 DEF Stream
  <2>2. LeftOf(Stream, Len(buf))
    BY <1>3, <1>5, <1>6, <1>8, <2>1, ConcatBehind DEF LeftOf
  <2> QED BY <1>7, <1>8, <1>10, <2>2
<1>11. CASE ~(n > 0 /\ Complete(buf)) /\ rbuf' = buf
  <2>1. Stream' = Stream
    BY <1>5, <1>7, <1>11 DEF Stream
  <2>2. Len(Stream) \in Nat
    BY <1>3, <1>5, <1>6, ConcatProperties, LenProperties
  <2>3. LeftOf(Stream, 0)
    BY <2>1, <2>2 DEF LeftOf
  <2> QED BY <1>7, <1>11, <2>3
<1> QED BY <1>7, <1>9, <1>10, <1>11

LEMMA StreamLength == TcpTypeOK => Stream \in Seq(Tokens) /\ Len(Stream) \in Nat
BY ConcatProperties, LenProperties DEF TcpTypeOK, Stream

\* A stream that lost tokens holds no new ones, and no second copy.
LEMMA ShorterStream ==
    ASSUME TcpTypeOK, TcpTypeOK', StreamOK, NEW a \in Nat, LeftOf(Stream, a),
           sent \subseteq sent'
    PROVE  /\ StreamOK'
           /\ \A c : InStream(c)' => InStream(c)
           /\ \A c : /\ a >= 2 /\ Len(Stream) >= 2
                     /\ Stream[2] = [part |-> "payload", cmd |-> c]
                     => ~InStream(c)'
<1>1. Len(Stream) \in Nat /\ Len(Stream') \in Nat
  <2>1. Len(Stream) \in Nat
    BY StreamLength
  <2>2. Len(Stream') \in Nat
    BY ConcatProperties, LenProperties DEF TcpTypeOK, Stream
  <2> QED BY <2>1, <2>2
<1>2. \A i \in 1..Len(Stream') : i + a \in 1..Len(Stream)
                                 /\ Stream'[i] = Stream[i + a]
  BY <1>1 DEF LeftOf
<1>3. \A i \in 1..Len(Stream') : Stream'[i].cmd \in sent'
  BY <1>2 DEF StreamOK
<1>4. ASSUME NEW i \in 1..Len(Stream'), NEW j \in 1..Len(Stream'),
             Stream'[i] = Stream'[j], Stream'[i].part = "payload"
      PROVE  i = j
  <2>1. i + a = j + a
    BY <1>2, <1>4 DEF StreamOK
  <2> QED BY <1>1, <2>1
<1>5. ASSUME NEW c, InStream(c)'
      PROVE  \E i \in 1..Len(Stream') :
                i + a \in 1..Len(Stream)
                /\ Stream[i + a] = [part |-> "payload", cmd |-> c]
  BY <1>2, <1>5 DEF InStream
<1>6. ASSUME NEW c, a >= 2, Len(Stream) >= 2, InStream(c)',
             Stream[2] = [part |-> "payload", cmd |-> c]
      PROVE  FALSE
  <2>1. PICK i \in 1..Len(Stream') :
                i + a \in 1..Len(Stream)
                /\ Stream[i + a] = [part |-> "payload", cmd |-> c]
    BY <1>5, <1>6
  <2>2. 2 \in 1..Len(Stream)
    BY <1>1, <1>6
  <2>3. i + a = 2
    BY <1>6, <2>1, <2>2 DEF StreamOK
  <2> QED BY <1>1, <1>6, <2>3
<1>7. \A c : InStream(c)' => InStream(c)
  BY <1>5 DEF InStream
<1>8. StreamOK'
  BY <1>3, <1>4 DEF StreamOK
<1> QED BY <1>6, <1>7, <1>8

\* After receiving, the message area holds what it held, or a command that
\* came from the stream and is no longer there.
LEMMA ReceiveKeeps ==
    ASSUME TcpTypeOK, TcpTypeOK', TcpExecutionInv, sent' = sent,
           NEW n \in 0..Len(wire), Receive(n)
    PROVE  /\ StreamOK'
           /\ \A c \in Commands :
                 InStream(c)' => InStream(c) /\ slotBody'.cmd # c
           /\ slotBody'.cmd \in sent' \cup {NoCommand}
           /\ \/ UNCHANGED slotVars
              \/ \A c \in Commands : slotBody'.cmd = c => execs[c] = 0
<1>1. StreamOK
  BY DEF TcpExecutionInv, StreamOK
<1>2. PICK a \in Nat :
              /\ LeftOf(Stream, a)
              /\ \/ UNCHANGED slotVars
                 \/ /\ a >= 2 /\ Len(Stream) >= 2
                    /\ slotBody' = Payload(Stream[2])
                    /\ slotType' = slotBody'.kind
  BY ReceiveTakes
<1>3. /\ StreamOK'
      /\ \A c : InStream(c)' => InStream(c)
      /\ \A c : /\ a >= 2 /\ Len(Stream) >= 2
                /\ Stream[2] = [part |-> "payload", cmd |-> c]
                => ~InStream(c)'
  BY <1>1, <1>2, ShorterStream
<1>4. CASE UNCHANGED slotVars
  BY <1>3, <1>4 DEF slotVars, TcpExecutionInv
<1>5. CASE /\ a >= 2 /\ Len(Stream) >= 2
           /\ slotBody' = Payload(Stream[2])
  <2>1. 2 \in 1..Len(Stream) /\ Stream[2] \in Tokens /\ Stream[2].cmd \in sent
    BY <1>1, <1>5, StreamLength, ElementOfSeq DEF StreamOK
  <2>2. CASE Stream[2].part = "payload"
    <3>1. PICK d \in Commands : d = Stream[2].cmd
      BY <2>1 DEF Tokens
    <3>2. slotBody'.cmd = d
      BY <1>5, <2>2, <3>1 DEF Payload, CommandBody
    <3>3. Stream[2] = [part |-> "payload", cmd |-> d]
      BY <2>1, <2>2, <3>1 DEF Tokens
    <3>4. InStream(d)
      BY <2>1, <3>3 DEF InStream
    <3>5. ~InStream(d)'
      BY <1>3, <1>5, <3>3
    <3>6. execs[d] = 0
      BY <3>4 DEF TcpExecutionInv
    <3> QED BY <1>3, <2>1, <3>1, <3>2, <3>5, <3>6
  <2>3. CASE Stream[2].part # "payload"
    <3>1. slotBody'.cmd = NoCommand
      BY <1>5, <2>3 DEF Payload, Leftover
    <3> QED BY <1>3, <3>1, CommandAssumption
  <2> QED BY <2>2, <2>3
<1> QED BY <1>2, <1>4, <1>5

\* A new command behind the stream is the only one of its kind.
LEMMA LongerStream ==
    ASSUME TcpTypeOK, StreamOK, NEW c \in Commands \ sent,
           sent' = sent \cup {c}, wire' = wire \o Packet(c), rbuf' = rbuf
    PROVE  /\ StreamOK'
           /\ \A d \in Commands : InStream(d)' => InStream(d) \/ d = c
<1> DEFINE p == Packet(c)
<1>1. /\ wire \in Seq(Tokens) /\ rbuf \in Seq(Tokens) /\ p \in Seq(Tokens)
      /\ Len(p) = 2
      /\ p[1] = [part |-> "head", cmd |-> c]
      /\ p[2] = [part |-> "payload", cmd |-> c]
  BY DEF TcpTypeOK, Packet, Tokens
<1> HIDE DEF p
<1>2. Stream' = Stream \o p
  <2>1. (rbuf \o wire) \o p = rbuf \o (wire \o p)
    BY <1>1, ConcatAssociative
  <2> QED BY <2>1 DEF Stream, p
<1>3. Stream \in Seq(Tokens) /\ Len(Stream) \in Nat
  BY StreamLength
<1>4. /\ Len(Stream') = Len(Stream) + 2
      /\ \A i \in 1..(Len(Stream) + 2) :
            Stream'[i] = IF i <= Len(Stream) THEN Stream[i]
                         ELSE p[i - Len(Stream)]
  <2>1. /\ Len(Stream \o p) = Len(Stream) + Len(p)
        /\ \A i \in 1..(Len(Stream) + Len(p)) :
              (Stream \o p)[i] = IF i <= Len(Stream) THEN Stream[i]
                                 ELSE p[i - Len(Stream)]
    BY <1>1, <1>3, ConcatProperties
  <2> QED BY <1>1, <1>2, <2>1, Zenon
<1>5. ASSUME NEW i \in 1..Len(Stream')
      PROVE  \/ i \in 1..Len(Stream) /\ Stream'[i] = Stream[i]
             \/ i = Len(Stream) + 1 /\ Stream'[i] = p[1]
             \/ i = Len(Stream) + 2 /\ Stream'[i] = p[2]
  <2>1. CASE i <= Len(Stream)
    BY <1>3, <1>4, <2>1
  <2>2. CASE i = Len(Stream) + 1
    <3>1. i - Len(Stream) = 1 /\ ~(i <= Len(Stream)) /\ i \in 1..(Len(Stream) + 2)
      BY <1>3, <2>2
    <3> QED BY <1>4, <2>2, <3>1
  <2>3. CASE i = Len(Stream) + 2
    <3>1. i - Len(Stream) = 2 /\ ~(i <= Len(Stream)) /\ i \in 1..(Len(Stream) + 2)
      BY <1>3, <2>3
    <3> QED BY <1>4, <2>3, <3>1
  <2>4. i <= Len(Stream) \/ i = Len(Stream) + 1 \/ i = Len(Stream) + 2
    BY <1>3, <1>4
  <2> QED BY <2>1, <2>2, <2>3, <2>4
<1>6. \A i \in 1..Len(Stream') : Stream'[i].cmd \in sent'
  <2>1. p[1].cmd = c /\ p[2].cmd = c
    BY <1>1
  <2>2. \A i \in 1..Len(Stream) : Stream[i].cmd \in sent
    BY DEF StreamOK
  <2> QED BY <1>5, <2>1, <2>2
<1>7. ASSUME NEW i \in 1..Len(Stream'), NEW j \in 1..Len(Stream'),
             Stream'[i] = Stream'[j], Stream'[i].part = "payload"
      PROVE  i = j
  <2>1. \A k \in 1..Len(Stream) : Stream[k] # p[2]
    <3>1. p[2].cmd = c
      BY <1>1
    <3> QED BY <3>1 DEF StreamOK
  <2>0. p[1] # p[2] /\ p[1].part # "payload"
    BY <1>1
  <2>2. CASE i \in 1..Len(Stream) /\ j \in 1..Len(Stream)
    BY <1>3, <1>5, <1>7, <2>2 DEF StreamOK
  <2>3. CASE i \notin 1..Len(Stream)
    <3>1. i = Len(Stream) + 2 /\ Stream'[i] = p[2]
      BY <1>5, <1>7, <2>0, <2>3
    <3> QED BY <1>5, <1>7, <2>0, <2>1, <3>1, Zenon
  <2>4. CASE j \notin 1..Len(Stream)
    <3>1. j = Len(Stream) + 2 /\ Stream'[j] = p[2]
      BY <1>5, <1>7, <2>0, <2>4
    <3> QED BY <1>5, <1>7, <2>0, <2>1, <3>1, Zenon
  <2> QED BY <2>2, <2>3, <2>4
<1>8. ASSUME NEW d \in Commands, InStream(d)'
      PROVE  InStream(d) \/ d = c
  <2>1. PICK i \in 1..Len(Stream') :
                Stream'[i] = [part |-> "payload", cmd |-> d]
    BY <1>8 DEF InStream
  <2>2. CASE i \in 1..Len(Stream) /\ Stream'[i] = Stream[i]
    BY <2>1, <2>2 DEF InStream
  <2>3. CASE Stream'[i] = p[1] \/ Stream'[i] = p[2]
    BY <1>1, <2>1, <2>3
  <2> QED BY <1>5, <2>2, <2>3
<1>9. StreamOK'
  BY <1>6, <1>7 DEF StreamOK
<1> QED BY <1>8, <1>9

\* Only the end of the wire is cut off, or all of it.
LEMMA WireCut ==
    ASSUME TcpTypeOK, rbuf' = rbuf, NEW n \in 0..Len(wire),
           wire' = SubSeq(wire, 1, n)
    PROVE  LeftOf(Stream, 0)
<1> DEFINE w == SubSeq(wire, 1, n)
<1>1. /\ wire \in Seq(Tokens) /\ rbuf \in Seq(Tokens) /\ n \in Nat
      /\ Len(wire) \in Nat /\ Len(rbuf) \in Nat /\ n <= Len(wire)
  BY LenProperties DEF TcpTypeOK
<1>2. w \in Seq(Tokens) /\ Len(w) = n /\ \A i \in 1..n : w[i] = wire[i]
  <2>1. \A i \in 1..n : wire[i] \in Tokens
    BY <1>1, ElementOfSeq
  <2> HIDE DEF w
  <2>2. 1 \in Int /\ n \in Int
    BY <1>1
  <2>3. /\ w \in Seq(Tokens)
        /\ Len(w) = IF 1 <= n THEN n - 1 + 1 ELSE 0
        /\ \A i \in 1..(n - 1 + 1) : w[i] = wire[1 + i - 1]
    BY <2>1, <2>2, SubSeqProperties DEF w
  <2>4. \A i \in 1..n : i \in 1..(n - 1 + 1) /\ 1 + i - 1 = i
    BY <1>1
  <2>5. \A k \in Nat : (IF 1 <= k THEN k - 1 + 1 ELSE 0) = k
    OBVIOUS
  <2>6. \A i \in 1..n : w[i] = wire[i]
    BY <2>3, <2>4
  <2>7. Len(w) = n
    BY <1>1, <2>3, <2>5, Zenon
  <2> QED BY <2>3, <2>6, <2>7, Zenon
<1> HIDE DEF w
<1>3. Stream' = rbuf \o w
  BY DEF Stream, w
<1>4. /\ Len(Stream') = Len(rbuf) + n /\ Len(Stream) = Len(rbuf) + Len(wire)
      /\ \A i \in 1..(Len(rbuf) + n) :
            Stream'[i] = IF i <= Len(rbuf) THEN rbuf[i] ELSE w[i - Len(rbuf)]
      /\ \A i \in 1..(Len(rbuf) + Len(wire)) :
            Stream[i] = IF i <= Len(rbuf) THEN rbuf[i] ELSE wire[i - Len(rbuf)]
  BY <1>1, <1>2, <1>3, ConcatProperties DEF Stream
<1>5. ASSUME NEW i \in 1..(Len(rbuf) + n)
      PROVE  Stream'[i] = Stream[i + 0]
  <2>1. i + 0 = i /\ i \in 1..(Len(rbuf) + Len(wire))
    BY <1>1
  <2>2. ~(i <= Len(rbuf)) => i - Len(rbuf) \in 1..n
    BY <1>1
  <2> QED BY <1>2, <1>4, <2>1, <2>2
<1> QED BY <1>1, <1>4, <1>5 DEF LeftOf

\* Every step keeps the invariant.
LEMMA TcpExecutionStep ==
    TcpTypeOK /\ TcpTypeOK' /\ TcpExecutionInv /\ [TcpNext]_allVars
        => TcpExecutionInv'
<1> SUFFICES ASSUME TcpTypeOK, TcpTypeOK', TcpExecutionInv, [TcpNext]_allVars
             PROVE  TcpExecutionInv'
  OBVIOUS
<1>0. StreamOK /\ execs \in [Commands -> Nat]
  BY DEF TcpExecutionInv, StreamOK, TcpTypeOK, TypeOK
<1>1. CASE TcpReadHeader
  <2>1. /\ pc = "header" /\ sent' = sent /\ out' = out /\ execs' = execs
        /\ faults' = faults
        /\ pc' = "command" => slotType' = "Command"
        /\ pc' # "clear"
    BY <1>1 DEF TcpReadHeader, mgmtVars, ghosts, Dispatch
  <2>2. PICK n \in 0..Len(wire) : Receive(n)
    BY <1>1 DEF TcpReadHeader
  <2>3. /\ StreamOK'
        /\ \A c \in Commands :
              InStream(c)' => InStream(c) /\ slotBody'.cmd # c
        /\ slotBody'.cmd \in sent' \cup {NoCommand}
        /\ \/ UNCHANGED slotVars
           \/ \A c \in Commands : slotBody'.cmd = c => execs[c] = 0
    BY <2>1, <2>2, ReceiveKeeps
  <2>4. \A c \in Commands : Armed(c)' => execs'[c] = 0
    BY <2>1, <2>3 DEF Armed, slotVars, TcpExecutionInv
  <2> QED BY <2>1, <2>3, <2>4 DEF TcpExecutionInv, StreamOK
<1>2. CASE TcpReadCommand
  <2>1. /\ pc = "command" /\ pc' = "clear" /\ sent' = sent /\ out' = out
        /\ faults' = faults
        /\ execs' = IF Accepts(msg, slotBody')
                    THEN [execs EXCEPT ![slotBody'.cmd] = @ + 1] ELSE execs
    BY <1>2 DEF TcpReadCommand, mgmtVars
  <2>2. PICK n \in 0..Len(wire) : Receive(n)
    BY <1>2 DEF TcpReadCommand
  <2>3. /\ StreamOK'
        /\ \A c \in Commands :
              InStream(c)' => InStream(c) /\ slotBody'.cmd # c
        /\ slotBody'.cmd \in sent' \cup {NoCommand}
        /\ \/ UNCHANGED slotVars
           \/ \A c \in Commands : slotBody'.cmd = c => execs[c] = 0
    BY <2>1, <2>2, ReceiveKeeps
  <2>4. \A c \in Commands : slotBody'.cmd = c => execs[c] = 0
    BY <2>1, <2>3 DEF Armed, slotVars, TcpExecutionInv
  <2>5. \A c \in Commands :
           \/ execs'[c] = execs[c]
           \/ /\ execs'[c] = 1 /\ slotBody'.cmd = c
              /\ c \in sent \cap Signed \cap Mine
    <3> TAKE c \in Commands
    <3>1. CASE Accepts(msg, slotBody') /\ slotBody'.cmd = c
      <4>1. execs' = [execs EXCEPT ![c] = @ + 1]
        BY <2>1, <3>1
      <4>2. execs'[c] = 1
        BY <1>0, <2>4, <3>1, <4>1
      <4>3. c \in sent \cap Signed \cap Mine
        BY <2>1, <2>3, <3>1, CommandAssumption DEF Accepts
      <4> QED BY <3>1, <4>2, <4>3
    <3>2. CASE ~(Accepts(msg, slotBody') /\ slotBody'.cmd = c)
      BY <1>0, <2>1, <3>2
    <3> QED BY <3>1, <3>2
  <2>6. \A c \in Commands : ~Armed(c)'
    BY <2>1 DEF Armed
  <2>7. \A c \in Commands : InStream(c)' => execs'[c] = 0
    BY <2>3, <2>5 DEF TcpExecutionInv
  <2>8. \A c \in Commands : /\ execs'[c] > 0 => c \in sent' \cap Signed \cap Mine
                            /\ execs'[c] <= 1
    BY <2>1, <2>5 DEF TcpExecutionInv
  <2> QED BY <2>1, <2>3, <2>6, <2>7, <2>8 DEF TcpExecutionInv, StreamOK
<1>3. CASE MonitorRead
  <2>1. /\ sent' = sent /\ out' = out /\ execs' = execs /\ pc' = pc
        /\ faults' = faults
    BY <1>3 DEF MonitorRead, mgmtVars, ghosts
  <2>2. PICK n \in 0..Len(wire) : Receive(n)
    BY <1>3, LenProperties DEF MonitorRead
  <2>3. /\ StreamOK'
        /\ \A c \in Commands :
              InStream(c)' => InStream(c) /\ slotBody'.cmd # c
        /\ slotBody'.cmd \in sent' \cup {NoCommand}
        /\ \/ UNCHANGED slotVars
           \/ \A c \in Commands : slotBody'.cmd = c => execs[c] = 0
    BY <2>1, <2>2, ReceiveKeeps
  <2>4. \A c \in Commands : Armed(c)' => execs'[c] = 0
    BY <2>1, <2>3 DEF Armed, slotVars, TcpExecutionInv
  <2> QED BY <2>1, <2>3, <2>4 DEF TcpExecutionInv, StreamOK
<1>4. CASE LocalStep \/ TcpClearCommand \/ (Terminate /\ UNCHANGED tcpVars)
           \/ UNCHANGED allVars
  <2>1. /\ UNCHANGED <<wire, rbuf, slotBody, sent, execs, faults>>
        /\ out' = out \/ out'.cmd = NoCommand
    BY <1>4, TcpAssumption
       DEF LocalStep, tcpVars, Arm, LoopTest, CheckPickup, ChooseMessage,
           TestState, DescriptionDue, ReadPage, Message, Advance, TurnPage,
           TurnState, MarkWritten,
           WaitForUpdate, TcpClearCommand, ClearCommand, Fault, Terminate,
           allVars, vars, slotVars, mgmtVars, ghosts
  <2>2. \A c \in Commands : Armed(c)' => Armed(c)
    BY <1>4, TcpAssumption
       DEF Armed, LocalStep, Arm, LoopTest, CheckPickup, ChooseMessage,
           TestState, DescriptionDue, ReadPage, Advance, TurnPage,
           TurnState, MarkWritten,
           WaitForUpdate, TcpClearCommand, ClearCommand, Fault, Terminate,
           allVars, vars, slotVars
  <2>3. Stream' = Stream
    BY <2>1 DEF Stream
  <2>4. \A c \in Commands : InStream(c)' <=> InStream(c)
    BY <2>3 DEF InStream
  <2> QED BY <2>1, <2>2, <2>3, <2>4 DEF TcpExecutionInv, StreamOK
<1>5. CASE TcpWriteMessage \/ TcpQuit
  <2>1. /\ UNCHANGED <<rbuf, sent, execs, faults, out>>
        /\ slotBody'.cmd = NoCommand /\ slotType' = "Empty"
        /\ pc' # "command"
        /\ wire' = wire \/ wire' = <<>>
    BY <1>5 DEF TcpWriteMessage, TcpQuit, WriteData, Send, Reconnect,
                ConnectFails, FinalPage, TcpExecutionInv
  <2>2. LeftOf(Stream, 0)
    <3>1. CASE wire' = wire
      <4>1. Stream' = Stream
        BY <2>1, <3>1 DEF Stream
      <4> QED BY <4>1, StreamLength DEF LeftOf
    <3>2. CASE wire' = <<>>
      <4>1. 0 \in 0..Len(wire)
        BY LenProperties DEF TcpTypeOK
      <4>2. SubSeq(wire, 1, 0) = <<>>
        BY SubSeqEmpty
      <4> QED BY <2>1, <3>2, <4>1, <4>2, WireCut
    <3> QED BY <2>1, <3>1, <3>2
  <2>3. StreamOK' /\ \A c : InStream(c)' => InStream(c)
    BY <1>0, <2>1, <2>2, ShorterStream
  <2>4. \A c \in Commands : ~Armed(c)' /\ slotBody'.cmd # c
    BY <2>1, CommandAssumption DEF Armed
  <2> QED BY <2>1, <2>3, <2>4 DEF TcpExecutionInv, StreamOK
<1>6. CASE ControllerCommand
  <2>1. PICK c \in Commands \ sent :
                sent' = sent \cup {c} /\ wire' = wire \o Packet(c)
    BY <1>6 DEF ControllerCommand
  <2>2. UNCHANGED <<rbuf, slotVars, execs, faults, out, pc>>
    BY <1>6 DEF ControllerCommand, ghosts
  <2>3. /\ StreamOK'
        /\ \A d \in Commands : InStream(d)' => InStream(d) \/ d = c
    BY <1>0, <2>1, <2>2, LongerStream
  <2>4. \A d \in Commands : Armed(d)' => Armed(d)
    BY <2>2 DEF Armed, slotVars
  <2>5. execs[c] = 0 /\ slotBody.cmd # c
    BY <1>0, CommandAssumption DEF TcpExecutionInv
  <2> QED BY <2>1, <2>2, <2>3, <2>4, <2>5 DEF TcpExecutionInv, slotVars
<1>7. CASE LinkBreaks
  <2>1. UNCHANGED <<rbuf, sent, slotVars, execs, faults, out, pc>>
    BY <1>7 DEF LinkBreaks, vars, slotVars
  <2>2. PICK n \in 0..Len(wire) : wire' = SubSeq(wire, 1, n)
    BY <1>7 DEF LinkBreaks
  <2>3. StreamOK' /\ \A c : InStream(c)' => InStream(c)
    BY <1>0, <2>1, <2>2, WireCut, ShorterStream
  <2>4. \A d \in Commands : Armed(d)' => Armed(d)
    BY <2>1 DEF Armed, slotVars
  <2> QED BY <2>1, <2>3, <2>4 DEF TcpExecutionInv, slotVars
<1> QED
  BY <1>1, <1>2, <1>3, <1>4, <1>5, <1>6, <1>7 DEF TcpNext, TcpMainThread

(***************************************************************************)
(* Over TCP no command is executed twice, whatever the packets are split   *)
(* into, wherever connections break and whoever reads the socket.          *)
(***************************************************************************)
THEOREM TcpExecutionsArePaidFor == TcpSpec => []ExecutionsPaidFor
<1>1. TcpTypeOK /\ TcpExecutionInv => ExecutionsPaidFor
  <2> SUFFICES ASSUME TcpExecutionInv, NEW c \in Commands
               PROVE  execs[c] <= 1 + faults
    BY DEF ExecutionsPaidFor
  <2>1. execs[c] <= 1 /\ faults = 0
    BY DEF TcpExecutionInv
  <2> QED BY <2>1
<1> QED
  BY <1>1, TcpTypeCorrect, TcpExecutionInit, TcpExecutionStep, PTL DEF TcpSpec
=============================================================================
