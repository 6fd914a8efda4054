---------------------------- MODULE Daemon_proofs ----------------------------
(***************************************************************************)
(* Proofs about Daemon, for every set of commands, number of pages, bound  *)
(* on faults and bound on resets.                                          *)
(***************************************************************************)
EXTENDS Daemon, FiniteSetTheorems, TLAPS

USE DEF loopVars, slotVars, ghosts, mgmtVars

-----------------------------------------------------------------------------
(* Type correctness.                                                       *)

\* The messages that are written into the slot are well formed.
LEMMA BodyTypes ==
    /\ \A t \in MessageTypes : Leftover(t) \in Bodies
    /\ \A t \in MessageTypes, p \in 0..MaxPages : Message(t, p) \in Bodies
    /\ \A c \in Commands : CommandBody(c) \in Bodies
    /\ FinalPage \in Bodies
BY PagesAssumption
   DEF Leftover, Message, CommandBody, FinalPage, Bodies, MessageTypes

\* Every message has a size that is a number.
LEMMA SizeType == \A b \in Bodies : SizeOf(b) \in Nat
BY CommandAssumption DEF SizeOf, Bodies

\* The state after the startup is well typed.
LEMMA TypeInit == Init => TypeOK
<1> SUFFICES ASSUME Init PROVE TypeOK
  OBVIOUS
<1>1. mFirstWriteDone \in BOOLEAN /\ mShutdown \in BOOLEAN /\ term \in BOOLEAN
  BY Zenon DEF Init
<1>2. msg \in Headers
  BY CommandAssumption DEF Init, Headers
<1>3. out \in Bodies /\ slotBody \in Bodies
  BY BodyTypes DEF Init, MessageTypes
<1> QED
  BY <1>1, <1>2, <1>3, PagesAssumption, BoundsAssumption DEF Init, TypeOK

\* Every step of the loop and of the threads around it keeps the types.
LEMMA TypeStep == TypeOK /\ [Next]_vars => TypeOK'
<1> SUFFICES ASSUME TypeOK, [Next]_vars PROVE TypeOK'
  OBVIOUS
<1> USE DEF TypeOK
<1>1. CASE Arm
  <2>1. mShutdown' \in BOOLEAN /\ mFirstWriteDone' \in BOOLEAN
    BY <1>1, Zenon DEF Arm
  <2> QED
    BY <1>1, <2>1, PagesAssumption DEF Arm
<1>2. CASE LoopTest
  BY <1>2 DEF LoopTest
<1>3. CASE ReadHeader
  BY <1>3, SizeType DEF ReadHeader, Headers, Dispatch, Fault
<1>4. CASE ReadCommand
  BY <1>4 DEF ReadCommand, Fault
<1>5. CASE ClearCommand
  BY <1>5 DEF ClearCommand, Fault, MessageTypes
<1>6. CASE CheckPickup
  BY <1>6 DEF CheckPickup
<1>7. CASE ChooseMessage
  <2>1. "Basic_Information" \in MessageTypes /\ "Monitoring_Data" \in MessageTypes
        /\ "Monitoring_Description" \in MessageTypes
    BY DEF MessageTypes
  <2>2. 0 \in 0..MaxPages /\ (pc # "turn" => mCurrentPage \in 0..MaxPages)
    BY PagesAssumption
  <2>3. out' \in Bodies
    BY <1>7, <2>1, <2>2, BodyTypes DEF ChooseMessage, DescriptionDue, ReadPage, TestState
  <2> QED
    BY <1>7, <2>3 DEF ChooseMessage, DescriptionDue, ReadPage, TestState
<1>8. CASE WriteMessage
  <2>1. slotType' \in MessageTypes /\ slotBody' \in Bodies
    BY <1>8 DEF WriteMessage, Bodies
  <2>2. lost' \in Nat /\ faults' \in Nat
    BY <1>8 DEF WriteMessage, Fault
  <2>3. dropped' \in SUBSET Commands
    BY <1>8 DEF WriteMessage, CommandInSlot
  <2> QED
    BY <1>8, <2>1, <2>2, <2>3 DEF WriteMessage
<1>9. CASE Advance
  BY <1>9, PagesAssumption DEF Advance
<1>10. CASE TurnPage
  BY <1>10, PagesAssumption DEF TurnPage
<1>11. CASE TurnState
  BY <1>11 DEF TurnState
<1>12. CASE MarkWritten
  <2>1. mFirstWriteDone' \in BOOLEAN
    BY <1>12, Zenon DEF MarkWritten
  <2> QED
    BY <1>12, <2>1 DEF MarkWritten
<1>13. CASE WaitForUpdate
  <2>1. mShutdown' \in BOOLEAN
    BY <1>13, Zenon DEF WaitForUpdate
  <2> QED
    BY <1>13, <2>1 DEF WaitForUpdate
<1>14. CASE Quit
  <2>1. FinalPage.kind \in MessageTypes
    BY DEF FinalPage, MessageTypes
  <2> QED
    BY <1>14, <2>1, BodyTypes DEF Quit, Fault, CommandInSlot
<1>15. CASE ResetBegin
  BY <1>15 DEF ResetBegin
<1>16. CASE ResetFinish
  <2>1. mFirstWriteDone' \in BOOLEAN
    BY <1>16, Zenon DEF ResetFinish
  <2> QED
    BY <1>16, <2>1, PagesAssumption DEF ResetFinish
<1>17. CASE Terminate
  <2>1. mShutdown' \in BOOLEAN /\ term' \in BOOLEAN
    BY <1>17, Zenon DEF Terminate
  <2> QED
    BY <1>17, <2>1 DEF Terminate
<1>18. CASE MgmtPickUp
  <2>1. Item(slotBody) \in 0..(MaxPages + 1)
    BY PagesAssumption DEF Item, Bodies
  <2> QED
    BY <1>18, <2>1 DEF MgmtPickUp, MessageTypes
<1>19. CASE MgmtCommand
  BY <1>19, BodyTypes DEF MgmtCommand, MessageTypes
<1>20. CASE UNCHANGED vars
  BY <1>20 DEF vars
<1> QED
  BY <1>1, <1>2, <1>3, <1>4, <1>5, <1>6, <1>7, <1>8, <1>9, <1>10, <1>11,
     <1>12, <1>13, <1>14, <1>15, <1>16, <1>17, <1>18, <1>19, <1>20
     DEF Next, MainThread

(***************************************************************************)
(* The variables keep their types, and mCurrentPage its range, in every    *)
(* behaviour of the main loop and the threads around it.                   *)
(***************************************************************************)
THEOREM TypeCorrect == Spec => []TypeOK
BY TypeInit, TypeStep, PTL DEF Spec

-----------------------------------------------------------------------------
(* Executions.                                                             *)

(***************************************************************************)
(* The next read of a command body executes c without any further fault,   *)
(* if c is accepted.                                                       *)
(***************************************************************************)
Armed(c) ==
    /\ slotBody.cmd = c
    /\ pc = "command" \/ (slotType = "Command" /\ pc # "clear")

(***************************************************************************)
(* The inductive invariant: a command that is armed still has an execution *)
(* in hand.  Only sent commands reach the slot; the loop writes none.      *)
(***************************************************************************)
ExecutionInv ==
    /\ out.cmd = NoCommand
    /\ slotBody.cmd \in sent \cup {NoCommand}
    /\ \A c \in Commands : execs[c] > 0 => c \in sent
    /\ \A c \in Commands : execs[c] <= 1 + faults
    /\ \A c \in Commands : Armed(c) => execs[c] <= faults

\* Initially nothing was sent, so nothing is armed or executed.
LEMMA ExecutionInvInit == Init => ExecutionInv
BY CommandAssumption, BoundsAssumption
   DEF Init, ExecutionInv, Armed, Leftover

\* Every step keeps the account of executions.
LEMMA ExecutionInvStep ==
    TypeOK /\ TypeOK' /\ ExecutionInv /\ [Next]_vars => ExecutionInv'
<1> SUFFICES ASSUME TypeOK, TypeOK', ExecutionInv, [Next]_vars
             PROVE  ExecutionInv'
  OBVIOUS
<1> USE DEF ExecutionInv, Armed
<1>0. faults \in Nat /\ execs \in [Commands -> Nat] /\ NoCommand \notin Commands
      /\ slotBody.cmd \in Commands \cup {NoCommand} /\ sent \subseteq Commands
  BY CommandAssumption DEF TypeOK, Bodies
<1>1. CASE Arm
  BY <1>1, <1>0 DEF Arm
<1>2. CASE LoopTest
  BY <1>2, <1>0 DEF LoopTest
<1>3. CASE ReadHeader
  BY <1>3, <1>0 DEF ReadHeader, Dispatch, Fault
<1>4. CASE ReadCommand
  <2>1. CASE execs' = execs
    BY <1>4, <2>1, <1>0 DEF ReadCommand, Fault
  <2>2. CASE execs' # execs
    <3> DEFINE d == slotBody.cmd
    <3>1. /\ d \in Mine /\ d \in Signed
          /\ execs' = [execs EXCEPT ![d] = @ + 1]
          /\ pc = "command" /\ pc' = "clear" /\ faults' = faults
          /\ UNCHANGED <<out, slotType, slotBody, sent>>
      BY <1>4, <2>2 DEF ReadCommand, Accepts
    <3>2. CASE d = NoCommand
      BY <3>1, <3>2, <2>2, <1>0
    <3>3. CASE d \in Commands
      <4>1. d \in sent /\ execs[d] <= faults
        BY <3>1, <3>3, <1>0
      <4>2. \A c \in Commands : execs'[c] = IF c = d THEN execs[c] + 1 ELSE execs[c]
        BY <3>1, <3>3, <1>0
      <4> QED
        BY <3>1, <3>3, <4>1, <4>2, <1>0
    <3> QED
      BY <3>2, <3>3, <1>0
  <2> QED
    BY <2>1, <2>2
<1>5. CASE ClearCommand
  BY <1>5, <1>0 DEF ClearCommand, Fault
<1>6. CASE CheckPickup
  BY <1>6, <1>0 DEF CheckPickup
<1>7. CASE ChooseMessage
  BY <1>7, <1>0 DEF ChooseMessage, DescriptionDue, ReadPage, TestState, Message
<1>8. CASE WriteMessage
  BY <1>8, <1>0 DEF WriteMessage, Fault
<1>9. CASE Advance
  BY <1>9, <1>0 DEF Advance
<1>10. CASE TurnPage
  BY <1>10, <1>0 DEF TurnPage
<1>11. CASE TurnState
  BY <1>11, <1>0 DEF TurnState
<1>12. CASE MarkWritten
  BY <1>12, <1>0 DEF MarkWritten
<1>13. CASE WaitForUpdate
  BY <1>13, <1>0 DEF WaitForUpdate
<1>14. CASE Quit
  BY <1>14, <1>0 DEF Quit, FinalPage, Fault
<1>15. CASE ResetBegin \/ ResetFinish \/ Terminate
  BY <1>15, <1>0 DEF ResetBegin, ResetFinish, Terminate
<1>16. CASE MgmtPickUp
  BY <1>16, <1>0 DEF MgmtPickUp
<1>17. CASE MgmtCommand
  <2>1. PICK c \in Commands \ sent :
             /\ sent' = sent \cup {c} /\ slotBody' = CommandBody(c)
             /\ UNCHANGED <<out, execs, faults>>
    BY <1>17 DEF MgmtCommand
  <2>2. execs[c] = 0
    BY <1>0, <2>1
  <2> QED
    BY <2>1, <2>2, <1>0 DEF CommandBody
<1>18. CASE UNCHANGED vars
  BY <1>18 DEF vars
<1> QED
  BY <1>1, <1>2, <1>3, <1>4, <1>5, <1>6, <1>7, <1>8, <1>9, <1>10, <1>11,
     <1>12, <1>13, <1>14, <1>15, <1>16, <1>17, <1>18 DEF Next, MainThread

(***************************************************************************)
(* Each execution of a command beyond the first is paid for by a failed    *)
(* bus access (Daemon.cpp:401, 437-441).                                   *)
(***************************************************************************)
THEOREM ExecutionsArePaidFor == Spec => []ExecutionsPaidFor
<1>1. ExecutionInv => ExecutionsPaidFor
  BY DEF ExecutionInv, ExecutionsPaidFor
<1> QED
  BY <1>1, TypeCorrect, ExecutionInvInit, ExecutionInvStep, PTL DEF Spec

-----------------------------------------------------------------------------
(* Commands that get lost.                                                 *)

Genuine == Signed \cap Mine

(***************************************************************************)
(* The loop is about to clear the slot although what it has handled, or    *)
(* will handle, is not the command that is there or may still come.        *)
(***************************************************************************)
Astray ==
    \/ pc = "command" /\ ~(slotType = "Command" /\ msg.size = SizeOf(slotBody))
    \/ /\ pc = "clear"
       /\ ~(slotType = "Command"
            /\ (slotBody.cmd \in Commands \cap Genuine => execs[slotBody.cmd] > 0))

Straying == IF Astray THEN 1 ELSE 0

(***************************************************************************)
(* The inductive invariant: a loop that went astray has a command in hand  *)
(* that may vanish.                                                        *)
(***************************************************************************)
AccountInv ==
    /\ IsFiniteSet(sent)
    /\ out.cmd = NoCommand
    /\ Cardinality(Vanished) + Straying <= faults

\* The number of vanished commands is a number.
LEMMA VanishedFinite ==
    ASSUME IsFiniteSet(sent)
    PROVE  IsFiniteSet(Vanished) /\ Cardinality(Vanished) \in Nat
<1>1. Vanished \subseteq sent
  BY DEF Vanished
<1> QED
  BY <1>1, FS_Subset, FS_CardinalityType

\* Fewer commands have vanished than in a set that contains them.
LEMMA FewerVanished ==
    ASSUME NEW A, NEW B, IsFiniteSet(B), A \subseteq B
    PROVE  Cardinality(A) <= Cardinality(B)
BY FS_Subset

\* A step by which no command vanishes pays for going astray by a fault.
LEMMA NoneVanishes ==
    ASSUME TypeOK, AccountInv, sent' = sent, out'.cmd = NoCommand,
           Vanished' \subseteq Vanished,
           faults' = faults \/ faults' = faults + 1,
           Straying' = 1 => Straying = 1 \/ faults' = faults + 1
    PROVE  AccountInv'
<1> DEFINE v == Cardinality(Vanished)
           w == Cardinality(Vanished')
<1>1. faults \in Nat /\ Straying \in {0, 1} /\ Straying' \in {0, 1}
  BY DEF TypeOK, Straying
<1>2. v \in Nat /\ w \in Nat /\ w <= v /\ IsFiniteSet(sent')
  <2>1. IsFiniteSet(Vanished) /\ v \in Nat
    BY VanishedFinite DEF AccountInv
  <2>2. IsFiniteSet(Vanished') /\ w <= v
    BY <2>1, FS_Subset
  <2>3. w \in Nat
    BY <2>2, FS_CardinalityType
  <2> QED
    BY <2>1, <2>2, <2>3 DEF AccountInv
<1>3. v + Straying <= faults
  BY DEF AccountInv
<1>4. w + Straying' <= faults'
  <2> HIDE DEF v, w
  <2> QED BY <1>1, <1>2, <1>3
<1>5. Cardinality(Vanished)' = w
  OBVIOUS
<1> QED
  BY <1>2, <1>4, <1>5 DEF AccountInv

\* Initially nothing was sent.
LEMMA AccountInvInit == Init => AccountInv
<1> SUFFICES ASSUME Init PROVE AccountInv
  OBVIOUS
<1>1. Vanished = {} /\ IsFiniteSet(sent)
  BY FS_EmptySet DEF Init, Vanished
<1>2. Cardinality(Vanished) = 0 /\ Straying = 0
  BY <1>1, FS_EmptySet DEF Init, Straying, Astray
<1> QED
  BY <1>1, <1>2 DEF AccountInv, Init, Leftover

\* The slot and the account are left alone.
SlotKept == UNCHANGED <<slotType, slotBody, sent, execs, dropped>>

LEMMA SlotKeptVanished ==
    ASSUME SlotKept PROVE Vanished' = Vanished /\ CommandInSlot' = CommandInSlot
BY DEF SlotKept, Vanished, CommandInSlot

\* Every step keeps the account of commands.
LEMMA AccountInvStep ==
    TypeOK /\ TypeOK' /\ AccountInv /\ [Next]_vars => AccountInv'
<1> SUFFICES ASSUME TypeOK, TypeOK', AccountInv, [Next]_vars
             PROVE  AccountInv'
  OBVIOUS
<1>0. /\ faults \in Nat /\ execs \in [Commands -> Nat] /\ NoCommand \notin Commands
      /\ slotBody.cmd \in Commands \cup {NoCommand} /\ sent \subseteq Commands
      /\ out.cmd = NoCommand
  BY CommandAssumption DEF TypeOK, Bodies, AccountInv
<1>1. CASE Arm \/ LoopTest \/ CheckPickup \/ Advance \/ TurnPage \/ TurnState
           \/ MarkWritten \/ WaitForUpdate \/ ResetBegin \/ ResetFinish
           \/ Terminate
  <2>1. /\ SlotKept /\ out' = out /\ faults' = faults /\ msg' = msg
        /\ pc' = pc \/ pc' \notin {"command", "clear"}
    BY <1>1 DEF SlotKept, Arm, LoopTest, CheckPickup, Advance, TurnPage,
       TurnState, MarkWritten, WaitForUpdate, ResetBegin, ResetFinish, Terminate
  <2>2. Straying' = 1 => Straying = 1
    BY <2>1 DEF Straying, Astray, SlotKept
  <2> QED
    BY <1>0, <2>1, <2>2, SlotKeptVanished, NoneVanishes DEF SlotKept
<1>2. CASE ReadHeader
  <2>1. /\ SlotKept /\ out' = out
        /\ faults' = faults \/ faults' = faults + 1
    BY <1>2 DEF ReadHeader, SlotKept, Fault
  <2>2. Straying' = 1 => faults' = faults + 1
    <3>1. pc' # "clear" /\ (pc' = "command" => msg'.type = "Command")
      BY <1>2 DEF ReadHeader, Dispatch
    <3>2. faults' = faults + 1 \/ pc' = "wait"
          \/ msg' = [type |-> slotType, size |-> SizeOf(slotBody)]
      BY <1>2 DEF ReadHeader, Fault
    <3>3. SizeOf(slotBody)' = SizeOf(slotBody)
      BY <2>1 DEF SizeOf, SlotKept
    <3> QED
      BY <3>1, <3>2, <3>3, <2>1 DEF Straying, Astray, SlotKept
  <2> QED
    BY <1>0, <2>1, <2>2, SlotKeptVanished, NoneVanishes DEF SlotKept
<1>3. CASE ReadCommand
  <2>1. /\ UNCHANGED <<slotType, slotBody, sent, dropped, out, msg>>
        /\ pc = "command"
        /\ faults' = faults \/ faults' = faults + 1
    BY <1>3 DEF ReadCommand, Fault
  <2>2. \A c \in Commands : execs'[c] >= execs[c]
    BY <1>3, <1>0 DEF ReadCommand
  <2>3. Vanished' \subseteq Vanished
    BY <1>0, <2>1, <2>2 DEF Vanished, CommandInSlot, TypeOK
  <2>4. Straying' = 1 => Straying = 1 \/ faults' = faults + 1
    <3> SUFFICES ASSUME Astray', ~Astray, faults' = faults PROVE FALSE
      BY <2>1 DEF Straying
    <3>1. slotType = "Command" /\ msg.size = SizeOf(slotBody) /\ pc' = "clear"
      BY <2>1, <1>3 DEF Astray, ReadCommand, Fault
    <3>2. slotBody.cmd \in Commands \cap Genuine /\ ~(execs'[slotBody.cmd] > 0)
      BY <2>1, <3>1 DEF Astray
    <3>3. Accepts(msg, slotBody)
      BY <1>0, <3>1, <3>2 DEF Accepts, SizeOf, Genuine
    <3>4. execs' = [execs EXCEPT ![slotBody.cmd] = @ + 1]
      BY <1>0, <1>3, <3>1, <3>3 DEF ReadCommand, Fault
    <3> QED
      BY <1>0, <3>2, <3>4
  <2> QED
    BY <1>0, <2>1, <2>3, <2>4, NoneVanishes
<1>4. CASE ClearCommand
  <2>1. /\ pc = "clear" /\ pc' = "wait"
        /\ UNCHANGED <<slotBody, sent, dropped, execs, out>>
    BY <1>4 DEF ClearCommand
  <2>2. Straying' = 0
    BY <2>1 DEF Straying, Astray
  <2>3. CASE Fault("write") /\ UNCHANGED slotType
    BY <1>0, <2>1, <2>2, <2>3, SlotKeptVanished, NoneVanishes
       DEF SlotKept, Fault
  <2>4. CASE ~Astray /\ faults' = faults
    <3>1. slotBody.cmd \in Commands \cap Genuine => execs[slotBody.cmd] > 0
      BY <2>1, <2>4 DEF Astray
    <3>2. Vanished' \subseteq Vanished
      BY <1>0, <2>1, <3>1 DEF Vanished, CommandInSlot, Genuine
    <3> QED
      BY <1>0, <2>1, <2>2, <2>4, <3>2, NoneVanishes
  <2>5. CASE Astray /\ faults' = faults
    <3> DEFINE d == slotBody.cmd
               B == Vanished \cup {d}
    <3>1. Vanished' \subseteq B
      BY <1>0, <2>1 DEF Vanished, CommandInSlot
    <3>2. IsFiniteSet(Vanished) /\ Cardinality(Vanished) \in Nat
      BY VanishedFinite DEF AccountInv
    <3>3. IsFiniteSet(B) /\ Cardinality(B) <= Cardinality(Vanished) + 1
      BY <3>2, FS_AddElement
    <3>4. Cardinality(Vanished') <= Cardinality(B) /\ Cardinality(B) \in Nat
          /\ Cardinality(Vanished') \in Nat
      BY <3>1, <3>3, FS_Subset, FS_CardinalityType
    <3>5. Straying = 1 /\ Cardinality(Vanished) + Straying <= faults
      BY <2>5 DEF Straying, AccountInv
    <3>6. Cardinality(Vanished') + Straying' <= faults'
      BY <1>0, <2>2, <2>5, <3>2, <3>3, <3>4, <3>5
    <3>7. Cardinality(Vanished)' = Cardinality(Vanished')
      OBVIOUS
    <3> QED
      BY <1>0, <2>1, <3>6, <3>7 DEF AccountInv
  <2> QED
    BY <1>4, <2>3, <2>4, <2>5 DEF ClearCommand
<1>5. CASE ChooseMessage
  <2>1. /\ SlotKept /\ faults' = faults /\ pc' \notin {"command", "clear"}
        /\ out' = out \/ out'.cmd = NoCommand
    BY <1>5 DEF ChooseMessage, DescriptionDue, ReadPage, TestState, Message,
       SlotKept
  <2>2. Straying' = 0
    BY <2>1 DEF Straying, Astray
  <2> QED
    BY <1>0, <2>1, <2>2, SlotKeptVanished, NoneVanishes DEF SlotKept
<1>6. CASE WriteMessage \/ Quit
  <2>1. /\ pc' \notin {"command", "clear"}
        /\ UNCHANGED <<sent, execs, out>>
        /\ faults' = faults \/ faults' = faults + 1
        /\ \/ dropped' = dropped \cup CommandInSlot
           \/ UNCHANGED <<slotType, slotBody, dropped>>
    BY <1>6 DEF WriteMessage, Quit, Fault
  <2>2. Straying' = 0
    BY <2>1 DEF Straying, Astray
  <2>3. Vanished' \subseteq Vanished
    <3>1. CASE dropped' = dropped \cup CommandInSlot
      BY <2>1, <3>1 DEF Vanished
    <3>2. CASE UNCHANGED <<slotType, slotBody, dropped>>
      BY <2>1, <3>2, SlotKeptVanished DEF SlotKept
    <3> QED
      BY <2>1, <3>1, <3>2
  <2> QED
    BY <1>0, <2>1, <2>2, <2>3, NoneVanishes
<1>7. CASE MgmtPickUp
  <2>1. /\ UNCHANGED <<pc, slotBody, sent, execs, dropped, out, faults, msg>>
        /\ slotType # "Command" /\ slotType' # "Command"
    BY <1>7 DEF MgmtPickUp, WaitTypes
  <2>2. Vanished' = Vanished
    BY <2>1 DEF Vanished, CommandInSlot
  <2>3. Straying' = 1 => Straying = 1
    BY <2>1 DEF Straying, Astray
  <2> QED
    BY <1>0, <2>1, <2>2, <2>3, NoneVanishes
<1>8. CASE MgmtCommand
  <2>1. PICK c \in Commands \ sent :
             /\ sent' = sent \cup {c} /\ slotBody' = CommandBody(c)
             /\ UNCHANGED <<pc, execs, dropped, out, faults, msg>>
             /\ slotType # "Command" /\ slotType' = "Command"
    BY <1>8 DEF MgmtCommand
  <2>2. Vanished' \subseteq Vanished
    BY <1>0, <2>1 DEF Vanished, CommandInSlot, CommandBody
  <2>3. Straying' \in {0, 1} /\ (Straying' = 1 => Straying = 1) /\ Straying \in {0, 1}
    BY <2>1 DEF Straying, Astray
  <2>4. IsFiniteSet(Vanished) /\ Cardinality(Vanished) \in Nat
    BY VanishedFinite DEF AccountInv
  <2>5. IsFiniteSet(sent')
    BY <2>1, FS_AddElement DEF AccountInv
  <2>6. Cardinality(Vanished') <= Cardinality(Vanished)
        /\ Cardinality(Vanished') \in Nat
    BY <2>2, <2>4, FS_Subset, FS_CardinalityType
  <2>7. Cardinality(Vanished) + Straying <= faults
    BY DEF AccountInv
  <2>8. Cardinality(Vanished') + Straying' <= faults'
    BY <1>0, <2>1, <2>3, <2>4, <2>6, <2>7
  <2>9. Cardinality(Vanished)' = Cardinality(Vanished')
    OBVIOUS
  <2> QED
    BY <1>0, <2>1, <2>5, <2>8, <2>9 DEF AccountInv
<1>9. CASE UNCHANGED vars
  <2>1. SlotKept /\ UNCHANGED <<out, faults, msg, pc>>
    BY <1>9 DEF vars, SlotKept
  <2>2. Straying' = 1 => Straying = 1
    BY <2>1 DEF Straying, Astray, SlotKept, SizeOf
  <2> QED
    BY <1>0, <2>1, <2>2, SlotKeptVanished, NoneVanishes DEF SlotKept
<1> QED
  BY <1>1, <1>2, <1>3, <1>4, <1>5, <1>6, <1>7, <1>8, <1>9 DEF Next, MainThread

(***************************************************************************)
(* Genuine commands are executed, still in the slot, or overwritten in the *)
(* window between the read of the header and the write of a message; at    *)
(* most one for each failed bus access disappears in another way           *)
(* (Daemon.cpp:399-441).                                                   *)
(***************************************************************************)
THEOREM CommandsAreAccountedFor == Spec => []CommandsAccountedFor
<1>1. TypeOK /\ AccountInv => CommandsAccountedFor
  <2> SUFFICES ASSUME TypeOK, AccountInv PROVE Cardinality(Vanished) <= faults
    BY DEF CommandsAccountedFor
  <2>1. Cardinality(Vanished) \in Nat /\ Straying \in {0, 1} /\ faults \in Nat
    BY VanishedFinite DEF AccountInv, Straying, TypeOK
  <2> QED
    BY <2>1 DEF AccountInv
<1> QED
  BY <1>1, TypeCorrect, AccountInvInit, AccountInvStep, PTL DEF Spec

-----------------------------------------------------------------------------
(* Unread messages.                                                        *)

(***************************************************************************)
(* The loop is on its way to overwrite an unread message: it is past the   *)
(* test for it, or will not wait at that test.                             *)
(***************************************************************************)
Exposed ==
    /\ Unread
    /\ \/ pc \in {"isBasic", "isData", "isDescription", "page", "write"}
       \/ pc = "check" /\ msg.type \notin WaitTypes
       \/ /\ pc \in {"arm", "loop", "header", "command", "clear", "check",
                     "wait"}
          /\ ~mFirstWriteDone

Exposure == IF Exposed THEN 1 ELSE 0

Resetting == IF telnet = "idle" THEN 0 ELSE 1

(***************************************************************************)
(* The inductive invariant: an exposed message, and a reset that has not   *)
(* cleared mFirstWriteDone yet, each have a loss in hand.                  *)
(***************************************************************************)
LossInv ==
    /\ pc = "arm" => ~slotBody.fresh
    /\ lost + Exposure + Resetting <= resets + faults

\* Initially no message of this run is in the slot.
LEMMA LossInvInit == Init => LossInv
BY DEF Init, LossInv, Exposure, Resetting, Exposed, Unread, Leftover

\* Arithmetic of the account: exposure may grow by what the faults grow.
LEMMA Balance ==
    ASSUME NEW l \in Nat, NEW e \in Nat, NEW e2 \in Nat, NEW t \in Nat,
           NEW r \in Nat, NEW f \in Nat, NEW f2 \in Nat,
           l + e + t <= r + f, e2 <= e + (f2 - f)
    PROVE  l + e2 + t <= r + f2
OBVIOUS

\* A step that overwrites nothing keeps the account balanced.
LEMMA NoLoss ==
    ASSUME TypeOK, TypeOK', LossInv, pc' # "arm",
           UNCHANGED <<lost, resets, telnet>>,
           faults' = faults \/ faults' = faults + 1,
           Exposure' = 1 => Exposure = 1 \/ faults' = faults + 1
    PROVE  LossInv'
<1>1. /\ faults \in Nat /\ resets \in Nat /\ lost \in Nat /\ faults' \in Nat
      /\ Exposure \in Nat /\ Exposure' \in Nat /\ Resetting \in Nat
      /\ Resetting' = Resetting
  BY DEF TypeOK, Exposure, Resetting
<1>2. Exposure' <= Exposure + (faults' - faults)
  <2>1. (Exposure = 0 \/ Exposure = 1) /\ (Exposure' = 0 \/ Exposure' = 1)
    BY DEF Exposure
  <2>2. CASE faults' = faults
    BY <1>1, <2>1, <2>2
  <2>3. CASE faults' = faults + 1
    BY <1>1, <2>1, <2>3
  <2> QED
    BY <2>2, <2>3
<1>3. lost + Exposure + Resetting <= resets + faults
  BY DEF LossInv
<1>4. lost + Exposure' + Resetting <= resets + faults'
  BY <1>1, <1>2, <1>3, Balance
<1>5. lost' = lost /\ resets' = resets
  OBVIOUS
<1>6. lost' + Exposure' + Resetting' <= resets' + faults'
  BY <1>1, <1>4, <1>5
<1> QED
  BY <1>6 DEF LossInv

\* Every step keeps the account of unread messages.
LEMMA LossInvStep ==
    TypeOK /\ TypeOK' /\ LossInv /\ [Next]_vars => LossInv'
<1> SUFFICES ASSUME TypeOK, TypeOK', LossInv, [Next]_vars
             PROVE  LossInv'
  OBVIOUS
<1>0. /\ faults \in Nat /\ resets \in Nat /\ lost \in Nat
      /\ faults' \in Nat /\ resets' \in Nat /\ lost' \in Nat
      /\ telnet \in {"idle", "page", "first"}
      /\ Exposure \in {0, 1} /\ Exposure' \in {0, 1}
  BY DEF TypeOK, Exposure
<1>1. CASE Arm
  BY <1>1, <1>0 DEF Arm, LossInv, Exposure, Resetting, Exposed,
       Unread
<1>2. CASE LoopTest
  BY <1>2, <1>0 DEF LoopTest, LossInv, Exposure, Resetting, Exposed,
       Unread
<1>3. CASE ReadHeader
  <2>1. /\ UNCHANGED <<lost, resets, telnet>> /\ pc' # "arm"
        /\ faults' = faults \/ faults' = faults + 1
    BY <1>3 DEF ReadHeader, Dispatch, Fault, WaitTypes
  <2>2. Exposure' = 1 => Exposure = 1 \/ faults' = faults + 1
    BY <1>3 DEF ReadHeader, Dispatch, Fault, WaitTypes, Exposure, Exposed, Unread
  <2> QED
    BY <2>1, <2>2, NoLoss
<1>4. CASE ReadCommand
  <2>1. /\ UNCHANGED <<lost, resets, telnet>> /\ pc' # "arm"
        /\ faults' = faults \/ faults' = faults + 1
    BY <1>4 DEF ReadCommand, Fault
  <2>2. Exposure' = 1 => Exposure = 1 \/ faults' = faults + 1
    BY <1>4 DEF ReadCommand, Fault, Exposure, Exposed, Unread
  <2> QED
    BY <2>1, <2>2, NoLoss
<1>5. CASE ClearCommand
  <2>1. /\ UNCHANGED <<lost, resets, telnet>> /\ pc' # "arm"
        /\ faults' = faults \/ faults' = faults + 1
    BY <1>5 DEF ClearCommand, Fault
  <2>2. Exposure' = 1 => Exposure = 1 \/ faults' = faults + 1
    BY <1>5 DEF ClearCommand, Fault, Exposure, Exposed, Unread
  <2> QED
    BY <2>1, <2>2, NoLoss
<1>6. CASE CheckPickup
  BY <1>6, <1>0 DEF CheckPickup, LossInv, Exposure, Resetting, Exposed,
       Unread
<1>7. CASE ChooseMessage
  <2>1. /\ UNCHANGED <<lost, resets, telnet>> /\ pc' # "arm"
        /\ faults' = faults \/ faults' = faults + 1
    BY <1>7 DEF ChooseMessage, DescriptionDue, ReadPage, TestState
  <2>2. Exposure' = 1 => Exposure = 1 \/ faults' = faults + 1
    BY <1>7 DEF ChooseMessage, DescriptionDue, ReadPage, TestState, Exposure, Exposed, Unread
  <2> QED
    BY <2>1, <2>2, NoLoss
<1>8. CASE WriteMessage
  <2>1. /\ UNCHANGED <<resets, telnet>> /\ pc' # "arm"
        /\ Exposure' = 0
        /\ \/ lost' = lost /\ (faults' = faults \/ faults' = faults + 1)
           \/ lost' = lost + 1 /\ faults' = faults /\ Exposure = 1
    BY <1>8 DEF WriteMessage, Fault, Exposure, Exposed, Unread
  <2>2. CASE lost' = lost /\ (faults' = faults \/ faults' = faults + 1)
    BY <2>1, <2>2, NoLoss
  <2>3. CASE lost' = lost + 1 /\ faults' = faults /\ Exposure = 1
    <3>1. lost + 1 + Resetting <= resets + faults
      BY <2>3, <1>0 DEF LossInv
    <3>2. Resetting' = Resetting /\ Resetting \in Nat
      BY <2>1 DEF Resetting
    <3>3. lost' + Exposure' + Resetting' <= resets' + faults'
      BY <3>1, <3>2, <2>1, <2>3, <1>0
    <3> QED
      BY <2>1, <3>3 DEF LossInv
  <2> QED
    BY <2>1, <2>2, <2>3
<1>9. CASE Advance
  BY <1>9, <1>0 DEF Advance, LossInv, Exposure, Resetting, Exposed,
       Unread
<1>10. CASE TurnPage
  BY <1>10, <1>0 DEF TurnPage, LossInv, Exposure, Resetting, Exposed,
       Unread
<1>11. CASE TurnState
  BY <1>11, <1>0 DEF TurnState, LossInv, Exposure, Resetting, Exposed,
       Unread
<1>12. CASE MarkWritten
  BY <1>12, <1>0 DEF MarkWritten, LossInv, Exposure, Resetting, Exposed,
       Unread
<1>13. CASE WaitForUpdate
  BY <1>13, <1>0 DEF WaitForUpdate, LossInv, Exposure, Resetting, Exposed,
       Unread
<1>14. CASE Quit
  <2>1. /\ UNCHANGED <<lost, resets, telnet>> /\ pc' # "arm"
        /\ faults' = faults \/ faults' = faults + 1
    BY <1>14 DEF Quit, Fault, FinalPage
  <2>2. Exposure' = 1 => Exposure = 1 \/ faults' = faults + 1
    BY <1>14 DEF Quit, Fault, FinalPage, Exposure, Exposed, Unread
  <2> QED
    BY <2>1, <2>2, NoLoss
<1>15. CASE ResetBegin
  BY <1>15, <1>0 DEF ResetBegin, LossInv, Exposure, Resetting, Exposed,
       Unread
<1>16. CASE ResetFinish
  BY <1>16, <1>0 DEF ResetFinish, LossInv, Exposure, Resetting, Exposed,
       Unread
<1>17. CASE Terminate
  BY <1>17, <1>0 DEF Terminate, LossInv, Exposure, Resetting, Exposed,
       Unread
<1>18. CASE MgmtPickUp
  BY <1>18, <1>0 DEF MgmtPickUp, LossInv, Exposure, Resetting, Exposed,
       Unread
<1>19. CASE MgmtCommand
  BY <1>19, <1>0 DEF MgmtCommand, CommandBody, LossInv, Exposure, Resetting, Exposed,
       Unread
<1>20. CASE UNCHANGED vars
  BY <1>20 DEF vars, LossInv, Exposure, Resetting, Exposed,
       Unread
<1> QED
  BY <1>1, <1>2, <1>3, <1>4, <1>5, <1>6, <1>7, <1>8, <1>9, <1>10, <1>11,
     <1>12, <1>13, <1>14, <1>15, <1>16, <1>17, <1>18, <1>19, <1>20 DEF
     Next, MainThread

(***************************************************************************)
(* An unread description page or basic block is overwritten at most once   *)
(* for each reset and each failed bus access (Daemon.cpp:448-482).         *)
(***************************************************************************)
THEOREM UnreadLossIsBounded == Spec => []UnreadLossBounded
<1>1. TypeOK /\ LossInv => UnreadLossBounded
  BY DEF TypeOK, LossInv, Exposure, Resetting, UnreadLossBounded
<1> QED
  BY <1>1, TypeCorrect, LossInvInit, LossInvStep, PTL DEF Spec

-----------------------------------------------------------------------------
(* Order of delivery.                                                      *)

Quiet == resets = 0 /\ faults = 0

Prefix(k) == {i \in FirstItem..(MaxPages + 1) : i < k}

\* The item the loop writes next.
NextItem == IF mState = "BasicInformation" THEN 0
            ELSE IF mState = "MonitoringDescription" THEN mCurrentPage
            ELSE MaxPages + 1

\* A message of this run waits in the slot.
Pending == slotBody.fresh /\ slotType \in WaitTypes \cup {"Monitoring_Data"}

\* Items known to the controller or waiting for it.
Published == IF Pending THEN known \cup {Item(slotBody)} ELSE known

LoopKinds == {"Basic_Information", "Monitoring_Description", "Monitoring_Data"}

\* Messages of this run are of the three kinds the loop writes.
SlotInv ==
    /\ slotBody.fresh => /\ slotBody.kind \in LoopKinds
                         /\ slotType \in {"Empty", slotBody.kind}
    /\ pc \in {"write", "advance"} => out.fresh /\ out.kind \in LoopKinds

\* The local decisions of the loop agree with mState, as nobody resets it.
DecisionInv ==
    /\ pc = "arm" => mState = "BasicInformation"
    /\ pc = "isData" => mState # "BasicInformation"
    /\ pc \in {"isDescription", "page"} => mState = "MonitoringDescription"
    /\ pc = "write" =>
          /\ Item(out) = NextItem
          /\ out.kind = "Basic_Information" <=> mState = "BasicInformation"
          /\ out.kind = "Monitoring_Data" <=> mState = "MonitoringData"
    /\ pc = "advance" =>
          /\ mState # "MonitoringData"
          /\ out.kind = "Basic_Information" <=> mState = "BasicInformation"
    /\ pc \in {"turn", "turned"} => mState = "MonitoringDescription"
    /\ pc \in {"command", "clear"} => slotType = "Command"
    /\ mState # "MonitoringDescription" \/ pc = "turned" => mCurrentPage = 1

\* Everything before the next item is published, in order.
ProgressInv ==
    /\ pc = "advance" => Published = Prefix(NextItem + 1)
    /\ pc = "turned" => Published = Prefix(MaxPages + 1)
    /\ pc \notin {"advance", "turned", "stopped"} =>
          \/ Published = Prefix(NextItem)
          \/ mState = "MonitoringData" /\ Published = Prefix(MaxPages + 2)
    /\ Pending => \/ Item(slotBody) \in known
                  \/ known = Prefix(Item(slotBody))
    /\ pc = "stopped" => /\ ~Pending
                         /\ \E k \in 0..(MaxPages + 2) : known = Prefix(k)

OrderInv == SlotInv /\ (Quiet => DecisionInv /\ ProgressInv)

\* Prefixes of the items start empty, grow by one and end with data.
LEMMA PrefixFacts ==
    /\ Prefix(0) = {}
    /\ ~BasicFits => Prefix(1) = {}
    /\ FirstItem \in 0..1
    /\ \A k \in FirstItem..(MaxPages + 1) : Prefix(k) \cup {k} = Prefix(k + 1)
    /\ \A k \in 0..(MaxPages + 2) : (MaxPages + 1) \in Prefix(k) => k = MaxPages + 2
<1>1. FirstItem \in 0..1 /\ (BasicFits => FirstItem = 0) /\ (~BasicFits => FirstItem = 1)
  BY DEF FirstItem
<1>2. Prefix(0) = {} /\ (~BasicFits => Prefix(1) = {})
  BY <1>1 DEF Prefix
<1>3. ASSUME NEW k \in FirstItem..(MaxPages + 1)
      PROVE  Prefix(k) \cup {k} = Prefix(k + 1)
  BY <1>1, PagesAssumption DEF Prefix
<1>4. ASSUME NEW k \in 0..(MaxPages + 2), (MaxPages + 1) \in Prefix(k)
      PROVE  k = MaxPages + 2
  BY <1>4, PagesAssumption DEF Prefix
<1> QED
  BY <1>1, <1>2, <1>3, <1>4

\* Initially nothing is published and the basic block is next.
LEMMA OrderInvInit == Init => OrderInv
<1> SUFFICES ASSUME Init PROVE OrderInv
  OBVIOUS
<1>1. ~slotBody.fresh
  BY DEF Init, Leftover
<1>2. Published = {} /\ NextItem = 0 /\ ~Pending
  BY <1>1 DEF Init, Published, Pending, NextItem
<1> QED
  BY <1>1, <1>2, PrefixFacts
     DEF Init, OrderInv, SlotInv, DecisionInv, ProgressInv

\* Every step keeps messages of this run to the three kinds.
LEMMA SlotInvStep == TypeOK /\ SlotInv /\ [Next]_vars => SlotInv'
<1> SUFFICES ASSUME TypeOK, SlotInv, [Next]_vars PROVE SlotInv'
  OBVIOUS
<1> USE DEF SlotInv
<1>1. CASE Arm \/ LoopTest \/ ReadHeader \/ ReadCommand \/ ClearCommand
           \/ CheckPickup
  BY <1>1 DEF Arm, LoopTest, ReadHeader, Dispatch, ReadCommand, ClearCommand,
     CheckPickup
<1>2. CASE ChooseMessage
  BY <1>2 DEF ChooseMessage, DescriptionDue, ReadPage, TestState, Message, LoopKinds
<1>3. CASE WriteMessage
  BY <1>3 DEF WriteMessage
<1>4. CASE Advance \/ TurnPage \/ TurnState \/ MarkWritten \/ WaitForUpdate
  BY <1>4 DEF Advance, TurnPage, TurnState, MarkWritten, WaitForUpdate
<1>5. CASE Quit
  BY <1>5 DEF Quit, FinalPage
<1>6. CASE ResetBegin \/ ResetFinish \/ Terminate
  BY <1>6 DEF ResetBegin, ResetFinish, Terminate
<1>7. CASE MgmtPickUp \/ MgmtCommand
  BY <1>7 DEF MgmtPickUp, MgmtCommand, CommandBody
<1>8. CASE UNCHANGED vars
  BY <1>8 DEF vars
<1> QED
  BY <1>1, <1>2, <1>3, <1>4, <1>5, <1>6, <1>7, <1>8 DEF Next, MainThread

\* As long as it is quiet, no unread message is exposed.
LEMMA QuietUnexposed ==
    ASSUME TypeOK, LossInv, Quiet PROVE ~Exposed /\ telnet = "idle"
BY DEF TypeOK, LossInv, Quiet, Exposure, Resetting

\* Resets and faults are only counted up, so it was quiet before.
LEMMA QuietBefore ==
    ASSUME TypeOK, [Next]_vars, Quiet' PROVE Quiet /\ faults' = faults
<1>1. faults \in Nat /\ resets \in Nat
  BY DEF TypeOK
<1>2. /\ faults' = faults \/ faults' = faults + 1
      /\ resets' = resets \/ resets' = resets + 1
  BY DEF Next, MainThread, Arm, LoopTest, ReadHeader, ReadCommand, ClearCommand,
     CheckPickup, ChooseMessage, DescriptionDue, ReadPage, TestState, WriteMessage, Advance, TurnPage,
     TurnState, MarkWritten, WaitForUpdate, Quit, ResetBegin, ResetFinish,
     Terminate, MgmtPickUp, MgmtCommand, Fault, vars
<1> QED
  BY <1>1, <1>2 DEF Quiet

\* The slot, the state machine and what is known do not change.
Still == UNCHANGED <<mState, mCurrentPage, slotType, slotBody, known>>

\* What is published and what is next depend on these variables only.
LEMMA StillPublished ==
    ASSUME Still
    PROVE  /\ Published' = Published /\ Pending' = Pending
           /\ NextItem' = NextItem /\ Item(slotBody)' = Item(slotBody)
BY DEF Still, Published, Pending, NextItem, Item

\* What the controller knows is a prefix, with or without a pending item.
LEMMA KnownIsPrefix ==
    ASSUME TypeOK, ProgressInv PROVE \E k \in 0..(MaxPages + 2) : known = Prefix(k)
<1>p. /\ MaxPages \in 1..254 /\ mCurrentPage \in 1..(MaxPages + 1)
      /\ slotBody.page \in 0..MaxPages
      /\ mCurrentPage = MaxPages + 1 => pc = "turn"
      /\ mState \in {"BasicInformation", "MonitoringDescription", "MonitoringData"}
  BY PagesAssumption DEF TypeOK, Bodies
<1>1. Item(slotBody) \in 0..(MaxPages + 1) /\ NextItem \in 0..(MaxPages + 1)
  BY <1>p DEF Item, NextItem
<1>2. CASE Pending /\ known = Prefix(Item(slotBody))
  BY <1>1, <1>2, <1>p
<1>3. CASE Published = known
  BY <1>1, <1>3, <1>p DEF ProgressInv
<1> QED
  BY <1>2, <1>3 DEF ProgressInv, Published

\* While it is quiet, every step keeps the order of publication.
LEMMA OrderInvStep ==
    TypeOK /\ TypeOK' /\ LossInv /\ OrderInv /\ [Next]_vars => OrderInv'
<1> SUFFICES ASSUME TypeOK, TypeOK', LossInv, OrderInv, [Next]_vars, Quiet'
             PROVE  DecisionInv' /\ ProgressInv'
  BY SlotInvStep DEF OrderInv
<1>q. /\ Quiet /\ faults' = faults /\ ~Exposed /\ telnet = "idle"
      /\ SlotInv /\ DecisionInv /\ ProgressInv
  BY QuietBefore, QuietUnexposed DEF OrderInv
<1>p. /\ MaxPages \in 1..254 /\ mCurrentPage \in 1..(MaxPages + 1)
      /\ mCurrentPage = MaxPages + 1 => pc = "turn"
      /\ mState \in {"BasicInformation", "MonitoringDescription", "MonitoringData"}
  BY PagesAssumption DEF TypeOK
<1>1. CASE Arm
  <2>1. Pending = FALSE /\ Pending' = FALSE /\ known' = known
    BY <1>1, <1>q DEF Arm, LossInv, Pending
  <2>2. /\ Published = known /\ Published' = known
        /\ NextItem = 0 /\ NextItem' = 0 /\ pc' = "loop"
    BY <1>1, <1>q, <2>1 DEF Arm, Published, NextItem, DecisionInv
  <2> QED
    BY <1>1, <1>q, <2>1, <2>2 DEF Arm, DecisionInv, ProgressInv
<1>2. CASE LoopTest
  <2>1. Still
    BY <1>2 DEF LoopTest, Still
  <2> QED
    BY <1>2, <1>q, <2>1, StillPublished DEF LoopTest, DecisionInv, ProgressInv
<1>3. CASE ReadHeader
  <2>1. Still
    BY <1>3 DEF ReadHeader, Still
  <2>2. pc = "header" /\ pc' \in {"wait", "command", "check"}
        /\ (pc' = "command" => slotType' = "Command")
    BY <1>3, <1>q DEF ReadHeader, Dispatch, Fault, Quiet, TypeOK
  <2> QED
    BY <1>q, <2>1, <2>2, StillPublished DEF DecisionInv, ProgressInv, Still
<1>4. CASE ReadCommand \/ CheckPickup \/ MarkWritten \/ WaitForUpdate \/ Terminate
  <2>1. Still
    BY <1>4 DEF ReadCommand, CheckPickup, MarkWritten, WaitForUpdate, Terminate,
       Still
  <2>2. \/ pc = "command" /\ pc' \in {"wait", "clear"}
        \/ pc = "check" /\ pc' \in {"wait", "isBasic"}
        \/ pc \in {"done", "wait"} /\ pc' \in {"wait", "loop"}
        \/ pc' = pc
    BY <1>4 DEF ReadCommand, CheckPickup, MarkWritten, WaitForUpdate, Terminate
  <2>3. out' = out
    BY <1>4 DEF ReadCommand, CheckPickup, MarkWritten, WaitForUpdate, Terminate
  <2>4. Item(out)' = Item(out) /\ slotType' = slotType /\ mState' = mState
    BY <2>1, <2>3 DEF Item, Still
  <2> QED
    BY <1>q, <2>1, <2>2, <2>3, <2>4, StillPublished
       DEF DecisionInv, ProgressInv, Still
<1>5. CASE ClearCommand
  <2>1. /\ pc = "clear" /\ pc' = "wait" /\ slotType = "Command"
        /\ slotType' = "Empty"
        /\ UNCHANGED <<mState, mCurrentPage, slotBody, known>>
    BY <1>5, <1>q DEF ClearCommand, Fault, DecisionInv, Quiet, TypeOK
  <2>2. ~Pending /\ ~Pending' /\ Published = known /\ Published' = known
        /\ NextItem' = NextItem
    BY <2>1 DEF Pending, Published, NextItem, WaitTypes
  <2> QED
    BY <1>q, <2>1, <2>2 DEF DecisionInv, ProgressInv
<1>6. CASE ChooseMessage
  <2>1. Still
    BY <1>6 DEF ChooseMessage, DescriptionDue, ReadPage, TestState, Still
  <2>2. CASE pc' # "write"
    <3>1. \/ pc = "isBasic" /\ pc' = "isData" /\ mState # "BasicInformation"
          \/ pc = "isData" /\ pc' = "isDescription" /\ mState # "MonitoringData"
             /\ mState # "BasicInformation"
          \/ pc = "isDescription" /\ pc' = "page"
             /\ mState = "MonitoringDescription"
      BY <1>6, <2>2, <1>q DEF ChooseMessage, DescriptionDue, ReadPage, TestState, DecisionInv
    <3> QED
      BY <1>q, <1>p, <2>1, <3>1, StillPublished
         DEF DecisionInv, ProgressInv, Still
  <2>3. CASE pc' = "write"
    <3>1. /\ pc \in {"isBasic", "isData", "page"}
          /\ Item(out)' = NextItem
          /\ out'.kind = "Basic_Information" <=> mState = "BasicInformation"
          /\ out'.kind = "Monitoring_Data" <=> mState = "MonitoringData"
      BY <1>6, <2>3, <1>q, <1>p
         DEF ChooseMessage, DescriptionDue, ReadPage, TestState, DecisionInv, Item, Message, NextItem
    <3> QED
      BY <1>q, <2>1, <2>3, <3>1, StillPublished
         DEF DecisionInv, ProgressInv, Still
  <2> QED
    BY <2>2, <2>3
<1>7. CASE WriteMessage
  <2>1. /\ pc = "write" /\ known' = known /\ out' = out
        /\ pc' = IF out.kind = "Monitoring_Data" THEN "done" ELSE "advance"
        /\ UNCHANGED <<mState, mCurrentPage>>
    BY <1>7 DEF WriteMessage
  <2>2. /\ Item(out) = NextItem /\ NextItem' = NextItem
        /\ Published = Prefix(NextItem)
           \/ (mState = "MonitoringData" /\ Published = Prefix(MaxPages + 2))
    BY <1>q, <2>1 DEF DecisionInv, ProgressInv, NextItem
  <2>3. Pending => slotBody.kind = "Monitoring_Data" /\ Item(slotBody) = MaxPages + 1
    BY <1>q, <2>1
       DEF Pending, Exposed, Unread, SlotInv, LoopKinds, WaitTypes, Item
  <2>4. CASE out.kind = "Basic_Information" /\ ~BasicFits
    <3>1. Still /\ NextItem = 0 /\ mState = "BasicInformation"
      BY <1>7, <1>q, <2>1, <2>4 DEF WriteMessage, Still, DecisionInv, NextItem,
         Quiet, TypeOK, Fault
    <3>2. Published = Prefix(NextItem + 1)
      <4>1. Published = {} /\ NextItem + 1 = 1
        BY <2>2, <3>1, PrefixFacts
      <4> QED
        BY <4>1, <2>4, PrefixFacts
    <3> QED
      BY <1>q, <2>1, <2>4, <3>1, <3>2, StillPublished
         DEF DecisionInv, ProgressInv, Still
  <2>5. CASE ~(out.kind = "Basic_Information" /\ ~BasicFits)
    <3>1. slotType' = out.kind /\ slotBody' = out /\ out.fresh
      BY <1>7, <1>q, <2>1, <2>5 DEF WriteMessage, SlotInv, Fault, TypeOK
    <3>2. /\ Pending' /\ Item(slotBody)' = NextItem
          /\ Published' = known \cup {NextItem}
      BY <1>q, <2>1, <2>2, <3>1
         DEF Pending, Published, Item, SlotInv, LoopKinds, WaitTypes
    <3>3. NextItem \in FirstItem..(MaxPages + 1)
      BY <1>q, <1>p, <2>1, <2>5 DEF NextItem, FirstItem, DecisionInv
    <3>4. CASE mState = "MonitoringData"
      <4>1. NextItem = MaxPages + 1 /\ pc' = "done"
        BY <1>q, <2>1, <3>4 DEF NextItem, DecisionInv
      <4>2. \/ known = Prefix(MaxPages + 1)
            \/ known = Prefix(MaxPages + 2) /\ (MaxPages + 1) \in known
        <5>1. (MaxPages + 1) \in Prefix(MaxPages + 2)
              /\ (MaxPages + 1) \notin Prefix(MaxPages + 1)
          BY <1>p, PrefixFacts DEF Prefix
        <5>2. CASE Pending
          BY <1>q, <2>2, <2>3, <4>1, <5>1, <5>2 DEF ProgressInv, Published
        <5>3. CASE ~Pending
          BY <2>2, <4>1, <5>1, <5>3 DEF Published
        <5> QED
          BY <5>2, <5>3
      <4>3. Published' = Prefix(MaxPages + 2)
        BY <1>p, <3>2, <3>3, <4>1, <4>2, PrefixFacts
      <4> QED
        BY <1>q, <2>1, <2>2, <3>1, <3>2, <3>4, <4>1, <4>2, <4>3
           DEF DecisionInv, ProgressInv
    <3>5. CASE mState # "MonitoringData"
      <4>1. NextItem \in 0..MaxPages /\ pc' = "advance"
        BY <1>q, <1>p, <2>1, <3>5 DEF NextItem, DecisionInv
      <4>2. ~Pending /\ known = Prefix(NextItem)
        <5>1. (MaxPages + 1) \notin Prefix(NextItem)
          BY <1>p, <4>1, PrefixFacts
        <5> QED
          BY <2>2, <2>3, <3>5, <5>1 DEF Published
      <4>3. Published' = Prefix(NextItem + 1)
        BY <3>2, <3>3, <4>2, PrefixFacts
      <4> QED
        BY <1>q, <2>1, <2>2, <3>1, <3>2, <3>5, <4>1, <4>2, <4>3
           DEF DecisionInv, ProgressInv
    <3> QED
      BY <3>4, <3>5
  <2> QED
    BY <2>4, <2>5
<1>8. CASE Advance
  <2>1. /\ pc = "advance" /\ UNCHANGED <<slotType, slotBody, known>>
        /\ Published = Prefix(NextItem + 1)
    BY <1>8, <1>q DEF Advance, ProgressInv
  <2>2. /\ Published' = Published /\ Pending' = Pending
        /\ Item(slotBody)' = Item(slotBody)
    BY <2>1 DEF Published, Pending, Item
  <2>3. CASE out.kind = "Basic_Information"
    <3>1. /\ NextItem = 0 /\ NextItem' = 1 /\ pc' = "done" /\ mCurrentPage' = 1
          /\ mState' = "MonitoringDescription"
      BY <1>8, <1>q, <1>p, <2>1, <2>3 DEF Advance, NextItem, DecisionInv
    <3> QED
      BY <1>q, <2>1, <2>2, <3>1 DEF DecisionInv, ProgressInv
  <2>4. CASE out.kind # "Basic_Information"
    <3>1. /\ mState = "MonitoringDescription" /\ mState' = mState
          /\ mCurrentPage' = mCurrentPage + 1 /\ pc' = "turn"
      BY <1>8, <1>q, <1>p, <2>1, <2>4 DEF Advance, DecisionInv
    <3>2. NextItem = mCurrentPage /\ NextItem' = NextItem + 1
      BY <3>1 DEF NextItem
    <3> QED
      BY <1>q, <2>1, <2>2, <3>1, <3>2 DEF DecisionInv, ProgressInv
  <2> QED
    BY <2>3, <2>4
<1>9. CASE TurnPage
  <2>1. /\ pc = "turn" /\ UNCHANGED <<slotType, slotBody, known, mState>>
        /\ mState = "MonitoringDescription" /\ Published = Prefix(mCurrentPage)
    BY <1>9, <1>q DEF TurnPage, DecisionInv, ProgressInv, NextItem
  <2>2. /\ Published' = Published /\ Pending' = Pending
        /\ Item(slotBody)' = Item(slotBody)
    BY <2>1 DEF Published, Pending, Item
  <2>3. \/ mCurrentPage = MaxPages + 1 /\ mCurrentPage' = 1 /\ pc' = "turned"
        \/ mCurrentPage' = mCurrentPage /\ pc' = "done"
    BY <1>9, <1>p DEF TurnPage
  <2>4. NextItem' = mCurrentPage'
    BY <2>1 DEF NextItem
  <2> QED
    BY <1>q, <2>1, <2>2, <2>3, <2>4 DEF DecisionInv, ProgressInv
<1>10. CASE TurnState
  <2>1. /\ pc = "turned" /\ pc' = "done" /\ mState' = "MonitoringData"
        /\ mCurrentPage = 1 /\ Published = Prefix(MaxPages + 1)
        /\ UNCHANGED <<mCurrentPage, slotType, slotBody, known>>
    BY <1>10, <1>q DEF TurnState, DecisionInv, ProgressInv
  <2>2. /\ Published' = Published /\ Pending' = Pending
        /\ Item(slotBody)' = Item(slotBody) /\ NextItem' = MaxPages + 1
    BY <2>1 DEF Published, Pending, Item, NextItem
  <2> QED
    BY <1>q, <2>1, <2>2 DEF DecisionInv, ProgressInv
<1>11. CASE Quit
  <2>1. /\ pc' = "stopped" /\ UNCHANGED <<known, mState, mCurrentPage>>
        /\ ~slotBody'.fresh
    BY <1>11, <1>q DEF Quit, FinalPage, Fault, Quiet, TypeOK
  <2>2. ~Pending' /\ Published' = known
    BY <2>1 DEF Pending, Published
  <2>3. pc = "quit" /\ (mState # "MonitoringDescription" => mCurrentPage = 1)
    BY <1>11, <1>q DEF Quit, DecisionInv
  <2> QED
    BY <1>q, <2>1, <2>2, <2>3, KnownIsPrefix DEF DecisionInv, ProgressInv, Prefix
<1>12. CASE ResetBegin \/ ResetFinish
  BY <1>12, <1>q DEF ResetBegin, ResetFinish, Quiet, TypeOK
<1>13. CASE MgmtPickUp
  <2>1. /\ UNCHANGED <<pc, mState, mCurrentPage, out, slotBody>>
        /\ slotType' = "Empty" /\ slotType # "Command"
        /\ known' = IF Pending THEN known \cup {Item(slotBody)} ELSE known
    BY <1>13 DEF MgmtPickUp, Pending, WaitTypes
  <2>2. ~Pending' /\ Published' = Published /\ NextItem' = NextItem
    BY <2>1 DEF Pending, Published, NextItem, WaitTypes
  <2>3. pc = "stopped" => known' = known
    BY <1>q, <2>1 DEF ProgressInv
  <2>4. Item(out)' = Item(out)
    BY <2>1 DEF Item
  <2> QED
    BY <1>q, <2>1, <2>2, <2>3, <2>4 DEF DecisionInv, ProgressInv, Prefix
<1>14. CASE MgmtCommand
  <2>1. /\ UNCHANGED <<pc, mState, mCurrentPage, out, known>>
        /\ slotType \in {"Empty", "Monitoring_Data"} /\ slotType' = "Command"
    BY <1>14 DEF MgmtCommand
  <2>2. ~Pending' /\ Published' = known /\ NextItem' = NextItem
        /\ Item(out)' = Item(out)
    BY <2>1 DEF Pending, Published, NextItem, WaitTypes, Item
  <2>3. CASE Published = known
    BY <1>q, <2>1, <2>2, <2>3 DEF DecisionInv, ProgressInv, Prefix
  <2>4. CASE Published # known
    <3>1. Pending /\ Item(slotBody) \notin known
      BY <2>4 DEF Published
    <3>2. Item(slotBody) = MaxPages + 1
      BY <1>q, <2>1, <3>1
         DEF Pending, SlotInv, Item, WaitTypes
    <3>3. known = Prefix(MaxPages + 1) /\ (MaxPages + 1) \in Published
          /\ pc # "stopped"
      BY <1>q, <3>1, <3>2 DEF ProgressInv, Published
    <3>4. NextItem \in 0..(MaxPages + 1)
      BY <1>p DEF NextItem
    <3>5. mState = "MonitoringData" /\ pc # "advance" /\ pc # "turned"
      <4>1. Published # Prefix(NextItem) /\ Published # Prefix(MaxPages + 1)
        BY <1>p, <3>3, <3>4, PrefixFacts
      <4>2. pc = "advance" => NextItem # MaxPages + 1
        BY <1>q, <1>p DEF DecisionInv, NextItem
      <4>3. pc # "advance"
        BY <1>q, <1>p, <3>3, <3>4, <4>2, PrefixFacts DEF ProgressInv
      <4> QED
        BY <1>q, <3>3, <4>1, <4>3 DEF ProgressInv
    <3>6. NextItem = MaxPages + 1
      BY <3>5 DEF NextItem
    <3> QED
      BY <1>q, <2>1, <2>2, <3>3, <3>5, <3>6 DEF DecisionInv, ProgressInv
  <2> QED
    BY <2>3, <2>4
<1>15. CASE UNCHANGED vars
  <2>1. Still /\ out' = out /\ pc' = pc
    BY <1>15 DEF vars, Still
  <2>2. Item(out)' = Item(out)
    BY <2>1 DEF Item
  <2> QED
    BY <1>q, <2>1, <2>2, StillPublished DEF DecisionInv, ProgressInv, Still, Prefix
<1> QED
  BY <1>1, <1>2, <1>3, <1>4, <1>5, <1>6, <1>7, <1>8, <1>9, <1>10, <1>11,
     <1>12, <1>13, <1>14, <1>15 DEF Next, MainThread

(***************************************************************************)
(* As long as nobody resets and no bus access fails, the controller knows  *)
(* a prefix of: basic block, pages 1 to maxPages, data (Daemon.cpp:        *)
(* 405-482).                                                               *)
(***************************************************************************)
THEOREM DeliveryIsInOrder == Spec => []DeliveredInOrder
<1>1. TypeOK /\ OrderInv => DeliveredInOrder
  BY KnownIsPrefix DEF OrderInv, Quiet, DeliveredInOrder, Prefix
<1> QED
  BY <1>1, TypeCorrect, LossInvInit, LossInvStep, OrderInvInit, OrderInvStep,
     PTL DEF Spec

-----------------------------------------------------------------------------
(* Implementation of Publication.                                          *)

WithinBounds == faults \in 0..MaxFaults /\ resets \in 0..MaxResets

\* Faults and resets stay within their bounds.
LEMMA BoundsKept == Spec => []WithinBounds
<1>1. Init => WithinBounds
  BY BoundsAssumption DEF Init, WithinBounds
<1>2. WithinBounds /\ [Next]_vars => WithinBounds'
  <2> SUFFICES ASSUME WithinBounds, [Next]_vars PROVE WithinBounds'
    OBVIOUS
  <2>1. /\ faults' = faults \/ (faults < MaxFaults /\ faults' = faults + 1)
        /\ resets' = resets \/ (resets < MaxResets /\ resets' = resets + 1)
    BY DEF Next, MainThread, Arm, LoopTest, ReadHeader, ReadCommand,
       ClearCommand, CheckPickup, ChooseMessage, DescriptionDue, ReadPage, TestState, WriteMessage,
       Advance, TurnPage, TurnState, MarkWritten, WaitForUpdate, Quit,
       ResetBegin, ResetFinish, Terminate, MgmtPickUp, MgmtCommand, Fault, vars
  <2> QED
    BY <2>1, BoundsAssumption DEF WithinBounds
<1> QED
  BY <1>1, <1>2, PTL DEF Spec

\* The controller learns by picking a pending message up, not otherwise.
LEMMA OnlyPickUpTeaches ==
    ASSUME [Next]_vars, known' # known
    PROVE  Pending /\ known' = known \cup {Item(slotBody)}
<1>1. MgmtPickUp
  BY DEF Next, MainThread, Arm, LoopTest, ReadHeader, ReadCommand,
     ClearCommand, CheckPickup, ChooseMessage, DescriptionDue, ReadPage, TestState, WriteMessage,
     Advance, TurnPage, TurnState, MarkWritten, WaitForUpdate, Quit,
     ResetBegin, ResetFinish, Terminate, MgmtCommand, vars
<1> QED
  BY <1>1 DEF MgmtPickUp, Pending

\* Every quiet step is a step of Publication or leaves it alone.
LEMMA PublicationStep ==
    ASSUME TypeOK, OrderInv, Quiet, [Next]_vars
    PROVE  [Promise!Next]_known
<1> SUFFICES ASSUME known' # known PROVE Promise!Next
  OBVIOUS
<1>1. Pending /\ known' = known \cup {Item(slotBody)}
  BY OnlyPickUpTeaches
<1>2. known = Prefix(Item(slotBody)) /\ pc # "stopped"
  BY <1>1 DEF OrderInv, ProgressInv
<1>3. Item(slotBody) \in FirstItem..(MaxPages + 1)
  <2>1. Item(slotBody) \in Published
    BY <1>1 DEF Published
  <2> QED
    BY <1>2, <2>1 DEF OrderInv, ProgressInv, Prefix
<1>4. Promise!Learn(Item(slotBody))
  BY <1>1, <1>2 DEF Promise!Learn, Promise!Items, Prefix
<1> QED
  BY <1>3, <1>4 DEF Promise!Next, Promise!Items

(***************************************************************************)
(* With a reliable bus and without resets the daemon implements            *)
(* Publication: the controller learns the basic block, each page and data  *)
(* one by one (Daemon.cpp:405-482).                                        *)
(***************************************************************************)
THEOREM ImplementsPublication ==
    ASSUME MaxFaults = 0, MaxResets = 0
    PROVE  Spec => PublishesInOrder
<1>1. Init => Promise!Init
  BY DEF Init, Promise!Init
<1>2. WithinBounds => Quiet
  BY DEF WithinBounds, Quiet
<1>3. TypeOK /\ OrderInv /\ WithinBounds /\ [Next]_vars => [Promise!Next]_known
  BY <1>2, PublicationStep
<1> QED
  BY <1>1, <1>3, TypeCorrect, LossInvInit, LossInvStep, OrderInvInit,
     OrderInvStep, BoundsKept, PTL DEF Spec, PublishesInOrder, Promise!Spec
=============================================================================
