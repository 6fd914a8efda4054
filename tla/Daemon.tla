------------------------------- MODULE Daemon -------------------------------
(***************************************************************************)
(* The main loop of Daemon::run (daemon/src/Daemon.cpp): one thread that   *)
(* shares a message segment ("slot") of the baseboard memory with the      *)
(* management controller, publishes the basic information block, the pages *)
(* of the sensor description and then sensor data through it, and executes *)
(* the signed commands it finds there.                                     *)
(*                                                                         *)
(* Around it: the telnet thread, which calls resetStatemachine without a   *)
(* lock; the signal handler; and the management controller, which is not   *)
(* in the repository and is modelled from how the loop uses the slot.      *)
(*                                                                         *)
(* A label of pc stands for the point before one access to state another   *)
(* actor can touch.  A call of the communicator is one step: it runs under *)
(* mCommMutex.                                                             *)
(***************************************************************************)
EXTENDS Integers, FiniteSets

CONSTANTS
    Commands,     \* commands the management controller can send, each once
    Signed,       \* those whose signature verifies
    Mine,         \* those addressed to this baseboard and slot
    NoCommand,    \* "no command in this message"
    CmdSize,      \* [Commands -> size in the message header]
    MessageMaxSize, \* messageMaxSize: size of this node's segment
    OtherSize,    \* size of every message that is not a command
    MaxPages,     \* maxPages, as getDescriptionPage computes it
    BasicFits,    \* the basic information block fits into the segment
    ExitAfter,    \* argument of run(): loops before quitting, 0 for no limit
    Faults,       \* what can go wrong on the bus: "zero", "error", "write"
    MaxFaults,    \* bound on failing bus accesses ("error" and "write")
    MaxResets,    \* bound on telnet resets
    CanTerm       \* SIGINT or SIGTERM can arrive

ASSUME CommandAssumption ==
    /\ NoCommand \notin Commands
    /\ CmdSize \in [Commands -> Nat]
    /\ MessageMaxSize \in Nat
    /\ OtherSize \in Nat /\ OtherSize <= MessageMaxSize

(***************************************************************************)
(* With 255 pages the uint8_t mCurrentPage would wrap before it exceeds    *)
(* maxPages, and the description phase would never end.                    *)
(***************************************************************************)
ASSUME PagesAssumption == MaxPages \in 1..254

ASSUME BoundsAssumption ==
    /\ BasicFits \in BOOLEAN /\ CanTerm \in BOOLEAN
    /\ Faults \subseteq {"zero", "error", "write"}
    /\ ExitAfter \in Nat /\ MaxFaults \in Nat /\ MaxResets \in Nat

VARIABLES
    pc,              \* where the main thread is
    mState, mCurrentPage, mFirstWriteDone, mShutdown,
    exitAfter,       \* remaining loops
    msg,             \* the local Message_Header, never initialised
    out,             \* the message the loop is about to write
    slotType,        \* type byte of the message in the slot
    slotBody,        \* everything else of that message
    telnet,          \* where a telnet thread is inside resetStatemachine
    term,            \* a terminating signal was caught
    sent,            \* commands the management controller has written
    known,           \* items of this run the management controller picked up
    execs,           \* executions per command
    faults, resets,  \* failing bus accesses, calls of resetStatemachine
    lost,            \* unread description or basic messages overwritten
    dropped          \* commands overwritten before the loop read them

loopVars == <<mState, mCurrentPage, mFirstWriteDone>>
slotVars == <<slotType, slotBody>>
ghosts == <<execs, lost, dropped>>
mgmtVars == <<sent, known>>
vars == <<pc, mState, mCurrentPage, mFirstWriteDone, mShutdown, exitAfter, msg,
          out, slotType, slotBody, telnet, term, sent, known, execs, faults,
          resets, lost, dropped>>

-----------------------------------------------------------------------------
(* Messages.                                                               *)

MessageTypes == {"Empty", "Monitoring_Description", "Monitoring_Data",
                 "Command", "Command_Result", "Basic_Information"}

(***************************************************************************)
(* What the bytes behind the type byte hold.  fresh marks a message the    *)
(* loop wrote in this run, as opposed to what it found at startup or wrote *)
(* while quitting.                                                         *)
(***************************************************************************)
Bodies == [kind : MessageTypes, page : 0..MaxPages,
           cmd : Commands \cup {NoCommand}, fresh : BOOLEAN]

Message(kind, page) ==
    [kind |-> kind, page |-> page, cmd |-> NoCommand, fresh |-> TRUE]

Leftover(kind) ==
    [kind |-> kind, page |-> 0, cmd |-> NoCommand, fresh |-> FALSE]

CommandBody(c) ==
    [kind |-> "Command", page |-> 0, cmd |-> c, fresh |-> FALSE]

SizeOf(body) ==
    IF body.cmd = NoCommand THEN OtherSize ELSE CmdSize[body.cmd]

Headers == [type : MessageTypes, size : Nat]

\* The description of an empty sensor set, the last message of a run.
FinalPage == [kind |-> "Monitoring_Description", page |-> 1,
              cmd |-> NoCommand, fresh |-> FALSE]

\* Messages the loop leaves alone until they were picked up.
WaitTypes == {"Monitoring_Description", "Basic_Information", "Command_Result"}

(***************************************************************************)
(* The items of a run in the order of publication: 0 for the basic         *)
(* information block, k for description page k, MaxPages + 1 for data.     *)
(***************************************************************************)
Item(body) ==
    IF body.kind = "Monitoring_Data" THEN MaxPages + 1 ELSE body.page

FirstItem == IF BasicFits THEN 0 ELSE 1

Unread == slotBody.fresh /\ slotType \in {"Monitoring_Description",
                                          "Basic_Information"}

-----------------------------------------------------------------------------
(***************************************************************************)
(* Daemon() and the end of the startup: the signal handlers are installed, *)
(* the telnet server runs, the flags have their constructor's values.  The *)
(* slot holds whatever was left there.                                     *)
(***************************************************************************)
Init ==
    /\ pc = "arm"
    /\ mState = "BasicInformation" /\ mCurrentPage = 1
    /\ mFirstWriteDone = FALSE /\ mShutdown = FALSE
    /\ exitAfter = ExitAfter
    /\ msg \in [type : MessageTypes, size : {OtherSize, MessageMaxSize + 1}]
    /\ out = Leftover("Empty")
    /\ slotType \in MessageTypes /\ slotBody = Leftover(slotType)
    /\ telnet = "idle" /\ term = FALSE
    /\ sent = {} /\ known = {}
    /\ execs = [c \in Commands |-> 0]
    /\ faults = 0 /\ resets = 0 /\ lost = 0 /\ dropped = {}

-----------------------------------------------------------------------------
(* The main thread.                                                        *)

\* A failing bus access, within the bound.
Fault(kind) ==
    /\ kind \in Faults
    /\ faults < MaxFaults
    /\ faults' = faults + 1

\* mShutdown = false; resetStatemachine(), after the handlers are installed.
Arm ==
    /\ pc = "arm"
    /\ pc' = "loop"
    /\ mShutdown' = FALSE
    /\ mState' = "BasicInformation"
    /\ mCurrentPage' = 1
    /\ mFirstWriteDone' = FALSE
    /\ UNCHANGED <<exitAfter, msg, out, slotVars, telnet, term, mgmtVars,
                   ghosts, faults, resets>>

\* Fault: the loop does not test mShutdown.
LoopTest_Forever ==
    /\ pc = "loop"
    /\ pc' = "header"
    /\ UNCHANGED <<loopVars, mShutdown, exitAfter, msg, out, slotVars, telnet,
                   term, mgmtVars, ghosts, faults, resets>>

\* while (!mShutdown)
LoopTest ==
    /\ pc = "loop"
    /\ pc' = IF mShutdown THEN "quit" ELSE "header"
    /\ UNCHANGED <<loopVars, mShutdown, exitAfter, msg, out, slotVars, telnet,
                   term, mgmtVars, ghosts, faults, resets>>

\* Where the loop goes with a header it takes for valid.
Dispatch(m) ==
    IF m.size > MessageMaxSize THEN "wait"
    ELSE IF m.type = "Command" THEN "command"
    ELSE "check"

(***************************************************************************)
(* Reading the header.  Only a result of 0 counts as failure; a negative   *)
(* error code (or a short read) passes for success and leaves what the     *)
(* stack slot of msg held before.                                          *)
(***************************************************************************)
ReadHeader ==
    /\ pc = "header"
    /\ \/ /\ msg' = [type |-> slotType, size |-> SizeOf(slotBody)]
          /\ pc' = Dispatch(msg')
          /\ UNCHANGED faults
       \/ /\ "zero" \in Faults
          /\ pc' = "wait"
          /\ UNCHANGED <<msg, faults>>
       \/ /\ Fault("error")
          /\ pc' = Dispatch(msg)
          /\ UNCHANGED msg
    /\ UNCHANGED <<loopVars, mShutdown, exitAfter, out, slotVars, telnet, term,
                   mgmtVars, ghosts, resets>>

(***************************************************************************)
(* The command is addressed to this node and its signature, which covers   *)
(* the header read before, verifies.                                       *)
(***************************************************************************)
Accepts(m, body) ==
    /\ body.cmd \in Mine
    /\ body.cmd \in Signed
    /\ m.size = CmdSize[body.cmd]

\* Fault: a command whose rest could not be read is cleared all the same.
ReadCommand_ClearsUnread ==
    /\ pc = "command"
    /\ pc' = "clear"
    /\ \/ /\ execs' = IF Accepts(msg, slotBody)
                      THEN [execs EXCEPT ![slotBody.cmd] = @ + 1]
                      ELSE execs
          /\ UNCHANGED faults
       \/ "zero" \in Faults /\ UNCHANGED <<execs, faults>>
       \/ Fault("error") /\ UNCHANGED execs
    /\ UNCHANGED <<loopVars, mShutdown, exitAfter, msg, out, slotVars, telnet,
                   term, mgmtVars, lost, dropped, resets>>

(***************************************************************************)
(* Reading the rest of a command and executing it when it is accepted.  A  *)
(* result of 0 keeps the message for the next loop; after an error the     *)
(* checks see an uninitialised buffer, which no signature covers.          *)
(***************************************************************************)
ReadCommand ==
    /\ pc = "command"
    /\ \/ /\ pc' = "clear"
          /\ execs' = IF Accepts(msg, slotBody)
                      THEN [execs EXCEPT ![slotBody.cmd] = @ + 1]
                      ELSE execs
          /\ UNCHANGED faults
       \/ /\ "zero" \in Faults
          /\ pc' = "wait"
          /\ UNCHANGED <<execs, faults>>
       \/ /\ Fault("error")
          /\ pc' = "clear"
          /\ UNCHANGED execs
    /\ UNCHANGED <<loopVars, mShutdown, exitAfter, msg, out, slotVars, telnet,
                   term, mgmtVars, lost, dropped, resets>>

\* Fault: the handled command stays in the slot.
ClearCommand_Skipped ==
    /\ pc = "clear"
    /\ pc' = "wait"
    /\ UNCHANGED <<loopVars, mShutdown, exitAfter, msg, out, slotVars, telnet,
                   term, mgmtVars, ghosts, faults, resets>>

\* Clearing the type byte of a handled command; the result is not checked.
ClearCommand ==
    /\ pc = "clear"
    /\ pc' = "wait"
    /\ \/ /\ slotType' = "Empty"
          /\ UNCHANGED faults
       \/ /\ Fault("write")
          /\ UNCHANGED slotType
    /\ UNCHANGED <<loopVars, mShutdown, exitAfter, msg, out, slotBody, telnet,
                   term, mgmtVars, ghosts, resets>>

\* Fault: a description page does not hold the loop up.
CheckPickup_NoWait ==
    /\ pc = "check"
    /\ pc' = IF msg.type \in (WaitTypes \ {"Monitoring_Description"})
                /\ mFirstWriteDone
             THEN "wait" ELSE "isBasic"
    /\ UNCHANGED <<loopVars, mShutdown, exitAfter, msg, out, slotVars, telnet,
                   term, mgmtVars, ghosts, faults, resets>>

\* Not yet read by management: keep it, unless nothing was written so far.
CheckPickup ==
    /\ pc = "check"
    /\ pc' = IF msg.type \in WaitTypes /\ mFirstWriteDone
             THEN "wait" ELSE "isBasic"
    /\ UNCHANGED <<loopVars, mShutdown, exitAfter, msg, out, slotVars, telnet,
                   term, mgmtVars, ghosts, faults, resets>>

(***************************************************************************)
(* The chain of tests on mState.  mState is read anew by each test, so a   *)
(* reset in between can make all three fail.                               *)
(***************************************************************************)
TestState(label, state, message, otherwise) ==
    /\ pc = label
    /\ IF mState = state
       THEN /\ out' = message
            /\ pc' = "write"
       ELSE /\ pc' = otherwise
            /\ UNCHANGED out
    /\ UNCHANGED <<loopVars, mShutdown, exitAfter, msg, slotVars, telnet,
                   term, mgmtVars, ghosts, faults, resets>>

DescriptionDue ==
    /\ pc = "isDescription"
    /\ pc' = IF mState = "MonitoringDescription" THEN "page" ELSE "done"
    /\ UNCHANGED <<loopVars, mShutdown, exitAfter, msg, out, slotVars, telnet,
                   term, mgmtVars, ghosts, faults, resets>>

\* mCurrentPage is read after the test, as an argument of getDescriptionPage.
ReadPage ==
    /\ pc = "page"
    /\ pc' = "write"
    /\ out' = Message("Monitoring_Description", mCurrentPage)
    /\ UNCHANGED <<loopVars, mShutdown, exitAfter, msg, slotVars, telnet, term,
                   mgmtVars, ghosts, faults, resets>>

ChooseMessage ==
    \/ TestState("isBasic", "BasicInformation",
                 Message("Basic_Information", 0), "isData")
    \/ TestState("isData", "MonitoringData",
                 Message("Monitoring_Data", 0), "isDescription")
    \/ DescriptionDue
    \/ ReadPage

\* The command that a write to the slot destroys.
CommandInSlot ==
    {c \in Commands : slotType = "Command" /\ slotBody.cmd = c}

(***************************************************************************)
(* Writing the message, whatever the slot holds by now.  A basic block     *)
(* that does not fit has size 0 and leaves the slot as it is.              *)
(***************************************************************************)
WriteMessage ==
    /\ pc = "write"
    /\ pc' = IF out.kind = "Monitoring_Data" THEN "done" ELSE "advance"
    /\ \/ /\ out.kind = "Basic_Information" => BasicFits
          /\ slotType' = out.kind
          /\ slotBody' = out
          /\ lost' = IF Unread THEN lost + 1 ELSE lost
          /\ dropped' = dropped \cup CommandInSlot
          /\ UNCHANGED faults
       \/ /\ out.kind = "Basic_Information" /\ ~BasicFits
          /\ UNCHANGED <<slotVars, lost, dropped, faults>>
       \/ /\ Fault("write")
          /\ UNCHANGED <<slotVars, lost, dropped>>
    /\ UNCHANGED <<loopVars, mShutdown, exitAfter, msg, out, telnet, term,
                   mgmtVars, execs, resets>>

\* Fault: the page is counted up twice.
Advance_Twice ==
    /\ pc = "advance"
    /\ IF out.kind = "Basic_Information"
       THEN /\ mState' = "MonitoringDescription"
            /\ pc' = "done"
            /\ UNCHANGED mCurrentPage
       ELSE /\ mCurrentPage' = (mCurrentPage + 2) % 256
            /\ pc' = "turn"
            /\ UNCHANGED mState
    /\ UNCHANGED <<mFirstWriteDone, mShutdown, exitAfter, msg, out, slotVars,
                   telnet, term, mgmtVars, ghosts, faults, resets>>

\* mState = State_MonitoringDescription, or mCurrentPage++ (uint8_t).
Advance ==
    /\ pc = "advance"
    /\ IF out.kind = "Basic_Information"
       THEN /\ mState' = "MonitoringDescription"
            /\ pc' = "done"
            /\ UNCHANGED mCurrentPage
       ELSE /\ mCurrentPage' = (mCurrentPage + 1) % 256
            /\ pc' = "turn"
            /\ UNCHANGED mState
    /\ UNCHANGED <<mFirstWriteDone, mShutdown, exitAfter, msg, out, slotVars,
                   telnet, term, mgmtVars, ghosts, faults, resets>>

\* Fault: >= instead of >, the last page is left out.
TurnPage_Early ==
    /\ pc = "turn"
    /\ IF mCurrentPage >= MaxPages
       THEN mCurrentPage' = 1 /\ pc' = "turned"
       ELSE UNCHANGED mCurrentPage /\ pc' = "done"
    /\ UNCHANGED <<mState, mFirstWriteDone, mShutdown, exitAfter, msg, out,
                   slotVars, telnet, term, mgmtVars, ghosts, faults, resets>>

\* Fault: the page is not set back to 1.
TurnPage_NoReset ==
    /\ pc = "turn"
    /\ pc' = IF mCurrentPage > MaxPages THEN "turned" ELSE "done"
    /\ UNCHANGED <<loopVars, mShutdown, exitAfter, msg, out, slotVars, telnet,
                   term, mgmtVars, ghosts, faults, resets>>

\* if (mCurrentPage > maxPages) { mCurrentPage = 1; ...
TurnPage ==
    /\ pc = "turn"
    /\ IF mCurrentPage > MaxPages
       THEN mCurrentPage' = 1 /\ pc' = "turned"
       ELSE UNCHANGED mCurrentPage /\ pc' = "done"
    /\ UNCHANGED <<mState, mFirstWriteDone, mShutdown, exitAfter, msg, out,
                   slotVars, telnet, term, mgmtVars, ghosts, faults, resets>>

\* Fault: the description starts over instead of giving way to data.
TurnState_Missing ==
    /\ pc = "turned"
    /\ pc' = "done"
    /\ UNCHANGED <<loopVars, mShutdown, exitAfter, msg, out, slotVars, telnet,
                   term, mgmtVars, ghosts, faults, resets>>

\* ... mState = State_MonitoringData; }
TurnState ==
    /\ pc = "turned"
    /\ pc' = "done"
    /\ mState' = "MonitoringData"
    /\ UNCHANGED <<mCurrentPage, mFirstWriteDone, mShutdown, exitAfter, msg,
                   out, slotVars, telnet, term, mgmtVars, ghosts, faults,
                   resets>>

MarkWritten ==
    /\ pc = "done"
    /\ pc' = "wait"
    /\ mFirstWriteDone' = TRUE
    /\ UNCHANGED <<mState, mCurrentPage, mShutdown, exitAfter, msg, out,
                   slotVars, telnet, term, mgmtVars, ghosts, faults, resets>>

\* Fault: exitAfter is tested before it is counted down.
WaitForUpdate_Late ==
    /\ pc = "wait"
    /\ pc' = "loop"
    /\ exitAfter' = IF exitAfter > 1 THEN exitAfter - 1 ELSE exitAfter
    /\ mShutdown' = (mShutdown \/ (ExitAfter > 0 /\ exitAfter = 0))
    /\ UNCHANGED <<loopVars, msg, out, slotVars, telnet, term, mgmtVars,
                   ghosts, faults, resets>>

\* Waiting for the next update, then counting down exitAfter.
WaitForUpdate ==
    /\ pc = "wait"
    /\ pc' = "loop"
    /\ exitAfter' = IF exitAfter > 0 THEN exitAfter - 1 ELSE 0
    /\ mShutdown' = (mShutdown \/ exitAfter = 1)
    /\ UNCHANGED <<loopVars, msg, out, slotVars, telnet, term, mgmtVars,
                   ghosts, faults, resets>>

\* Quitting: the description of the cleared sensor set is written last.
Quit ==
    /\ pc = "quit"
    /\ pc' = "stopped"
    /\ \/ /\ slotType' = FinalPage.kind
          /\ slotBody' = FinalPage
          /\ dropped' = dropped \cup CommandInSlot
          /\ UNCHANGED faults
       \/ /\ Fault("write")
          /\ UNCHANGED <<slotVars, dropped>>
    /\ UNCHANGED <<loopVars, mShutdown, exitAfter, msg, out, telnet, term,
                   mgmtVars, execs, lost, resets>>

MainThread ==
    \/ Arm \/ LoopTest \/ ReadHeader \/ ReadCommand \/ ClearCommand
    \/ CheckPickup \/ ChooseMessage \/ WriteMessage \/ Advance \/ TurnPage
    \/ TurnState \/ MarkWritten \/ WaitForUpdate \/ Quit

-----------------------------------------------------------------------------
(* The other actors.                                                       *)

(***************************************************************************)
(* resetStatemachine called by a telnet thread (addsensors): three plain   *)
(* assignments, without a lock.                                            *)
(***************************************************************************)
ResetBegin ==
    /\ telnet = "idle" /\ pc # "stopped"
    /\ resets < MaxResets
    /\ resets' = resets + 1
    /\ telnet' = "page"
    /\ mState' = "BasicInformation"
    /\ UNCHANGED <<pc, mCurrentPage, mFirstWriteDone, mShutdown, exitAfter,
                   msg, out, slotVars, term, mgmtVars, ghosts, faults>>

ResetFinish ==
    /\ \/ /\ telnet = "page"
          /\ telnet' = "first"
          /\ mCurrentPage' = 1
          /\ UNCHANGED mFirstWriteDone
       \/ /\ telnet = "first"
          /\ telnet' = "idle"
          /\ mFirstWriteDone' = FALSE
          /\ UNCHANGED mCurrentPage
    /\ UNCHANGED <<pc, mState, mShutdown, exitAfter, msg, out, slotVars, term,
                   mgmtVars, ghosts, faults, resets>>

\* signal_handler for SIGINT and SIGTERM, then shutdown().
Terminate ==
    /\ CanTerm /\ ~term /\ pc # "stopped"
    /\ term' = TRUE
    /\ mShutdown' = TRUE
    /\ UNCHANGED <<pc, loopVars, exitAfter, msg, out, slotVars, telnet,
                   mgmtVars, ghosts, faults, resets>>

\* The management controller takes a message and marks the slot empty.
MgmtPickUp ==
    /\ slotType \in WaitTypes \cup {"Monitoring_Data"}
    /\ slotType' = "Empty"
    /\ known' = IF slotBody.fresh THEN known \cup {Item(slotBody)} ELSE known
    /\ UNCHANGED <<pc, loopVars, mShutdown, exitAfter, msg, out, slotBody,
                   telnet, term, sent, ghosts, faults, resets>>

\* The management controller sends a command, never over an unread reply.
MgmtCommand ==
    /\ slotType \in {"Empty", "Monitoring_Data"}
    /\ \E c \in Commands \ sent :
          /\ sent' = sent \cup {c}
          /\ slotBody' = CommandBody(c)
    /\ slotType' = "Command"
    /\ UNCHANGED <<pc, loopVars, mShutdown, exitAfter, msg, out, telnet, term,
                   known, ghosts, faults, resets>>

Next ==
    \/ MainThread
    \/ ResetBegin \/ ResetFinish \/ Terminate
    \/ MgmtPickUp \/ MgmtCommand

Spec == Init /\ [][Next]_vars

(***************************************************************************)
(* The main thread is never blocked for good (bus accesses and sleeps are  *)
(* bounded), a telnet thread finishes its reset, and the management        *)
(* controller polls the slot.                                              *)
(***************************************************************************)
Fairness ==
    WF_vars(MainThread) /\ WF_vars(ResetFinish) /\ WF_vars(MgmtPickUp)

FairSpec == Spec /\ Fairness

-----------------------------------------------------------------------------
(* Properties.                                                             *)

(***************************************************************************)
(* The variables have their types, with the ranges the program relies on:  *)
(* mCurrentPage never leaves 1..maxPages except between its increment and  *)
(* the test that follows it (Daemon.cpp:477), resets notwithstanding.      *)
(***************************************************************************)
TypeOK ==
    /\ pc \in {"arm", "loop", "header", "command", "clear", "check", "isBasic",
               "isData", "isDescription", "page", "write", "advance", "turn",
               "turned", "done", "wait", "quit", "stopped"}
    /\ mState \in {"BasicInformation", "MonitoringDescription",
                   "MonitoringData"}
    /\ mCurrentPage \in 1..(MaxPages + 1)
    /\ mCurrentPage = MaxPages + 1 => pc = "turn"
    /\ mFirstWriteDone \in BOOLEAN /\ mShutdown \in BOOLEAN
    /\ exitAfter \in Nat
    /\ msg \in Headers
    /\ out \in Bodies
    /\ slotType \in MessageTypes /\ slotBody \in Bodies
    /\ telnet \in {"idle", "page", "first"} /\ term \in BOOLEAN
    /\ sent \in SUBSET Commands /\ known \in SUBSET (0..(MaxPages + 1))
    /\ execs \in [Commands -> Nat]
    /\ faults \in Nat /\ resets \in Nat /\ lost \in Nat
    /\ dropped \in SUBSET Commands

(***************************************************************************)
(* A command is executed at most once, plus once for each bus access that  *)
(* failed: clearing one byte of the slot (Daemon.cpp:437-441) is all that  *)
(* stands between a command and its repetition, and a failed header read   *)
(* that passes for success (Daemon.cpp:401) brings a cleared one back.     *)
(***************************************************************************)
ExecutionsPaidFor == \A c \in Commands : execs[c] <= 1 + faults

(***************************************************************************)
(* No command gets lost unnoticed: a genuine command was executed, is      *)
(* still in the slot, or was overwritten by a message the loop had decided *)
(* to write before the command came (dropped).  Only a failed bus access   *)
(* can make one disappear otherwise, by a stale header (Daemon.cpp:401) or *)
(* an unread body (Daemon.cpp:411), and each at most one.                  *)
(***************************************************************************)
Vanished ==
    {c \in sent \cap Signed \cap Mine :
        execs[c] = 0 /\ c \notin dropped \cup CommandInSlot}

CommandsAccountedFor == Cardinality(Vanished) <= faults

(***************************************************************************)
(* "Reply not yet read by management, keep data" (Daemon.cpp:450): each    *)
(* description page or basic block of this run that the loop overwrites    *)
(* before it was picked up is owed to a reset or to a failed bus access.   *)
(***************************************************************************)
UnreadLossBounded == lost <= resets + faults

(***************************************************************************)
(* Without resets and faults the controller learns the basic block, then   *)
(* the pages in order, then data: what it knows is a prefix (Daemon.cpp:   *)
(* 452-482), whatever commands it sends in between and whatever the slot   *)
(* held at startup.                                                        *)
(***************************************************************************)
DeliveredInOrder ==
    resets = 0 /\ faults = 0 =>
        \E k \in 0..(MaxPages + 2) :
            known = {i \in FirstItem..(MaxPages + 1) : i < k}

(***************************************************************************)
(* The run implements Publication when nothing fails and nobody resets:    *)
(* items reach the controller one at a time and none is skipped            *)
(* (Daemon.cpp:405-482).                                                   *)
(***************************************************************************)
Promise == INSTANCE Publication
              WITH First <- FirstItem, Last <- MaxPages + 1

PublishesInOrder == Promise!Spec

(***************************************************************************)
(* The loop ends up publishing data after a complete description, unless   *)
(* it is told to stop (Daemon.cpp:395-482).                                *)
(***************************************************************************)
EventuallyPublished == <>(known = FirstItem..(MaxPages + 1) \/ mShutdown)

(***************************************************************************)
(* Once the loop has started, a request to stop ends the run               *)
(* (Daemon.cpp:395, 512-540).                                              *)
(***************************************************************************)
StopsOnRequest == (mShutdown /\ pc # "arm") ~> (pc = "stopped")

(***************************************************************************)
(* A run with a limited number of loops ends (Daemon.cpp:512-517).         *)
(***************************************************************************)
LimitedRunEnds == ExitAfter > 0 => <>(pc = "stopped")

(***************************************************************************)
(* "Terminate signal catched, shutting down..." (Daemon.cpp:113): a signal *)
(* the handler caught ends the run.                                        *)
(***************************************************************************)
CaughtSignalStops == term ~> (pc = "stopped")
=============================================================================
