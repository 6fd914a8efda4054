------------------------------ MODULE Lifecycle ------------------------------
(***************************************************************************)
(* Daemon::run from its first line to the main loop and from its end to    *)
(* the return, on top of PluginManager; the telnet server's thread and its *)
(* clients (network/TelnetServer.cpp, Thread.cpp), which run beside the    *)
(* main thread and use what it creates and deletes.                        *)
(*                                                                         *)
(* The main loop itself is module Daemon: here it is one place, "loop".    *)
(* An object is named by its role; live says which exist and, for objects  *)
(* made by a plugin, in which library their code is.  The role "givenUp"   *)
(* is that of plugin objects that exist but are referred to by nothing.    *)
(***************************************************************************)
EXTENDS PluginManager, Segment

CONSTANTS
    Headers,      \* headers that a communicator can read
    Slots,        \* slots that a detector can find; -1 is an error
    SensorSizes,  \* sizes of the data message
    Clients       \* telnet clients that may connect

\* What Daemon::run asks the configuration for.
Configurations ==
    [PluginName : STRING, BaseboardPluginName : STRING,
     slotPluginName : STRING, defaultSlot : Int, sensor : STRING]

ASSUME LifecycleAssumption ==
    /\ Headers \subseteq Header
    /\ \A h \in Headers : h.size < SizeLimit   \* it is a uint16_t
    /\ Slots \subseteq Int /\ SensorSizes \subseteq Nat
    /\ \A s \in Setups : s.conf \in Configurations

VARIABLES
    pc,           \* where the main thread is
    todo,         \* what it still has to release before it returns
    live,         \* [role -> library], the library "" for the daemon itself
    hdr,          \* the header of the shared memory
    boardSlots,   \* baseboardHeader.maxSlots, -1 before it is known
    mSlot,
    server,       \* the server's thread
    running,      \* its Thread::running
    listening,    \* its socket is open
    clients,      \* [client -> state of its thread]
    late,         \* history: stop found a thread that had not reached Run
    stray         \* history: <<thread, role>> used or deleted while not live

vars == <<pmVars, pc, todo, live, hdr, boardSlots, mSlot, server, running,
          listening, clients, late, stray>>
threadVars == <<server, running, listening, clients, late>>
dataVars == <<hdr, boardSlots, mSlot>>

conf == setup.conf
NoHeader == [magic |-> FALSE, size |-> 0, maxSlots |-> 0, version |-> 0,
             dynamicAreaOffset |-> 0]

\* The uses of objects that are not there any more.
Uses(thread, roles) == {<<thread, r>> : r \in roles \ DOMAIN live}

Init ==
    /\ PMInit
    /\ pc = "config" /\ todo = <<>>
    /\ live = [r \in {"loggers"} |-> ""]
    /\ hdr = NoHeader /\ boardSlots = -1 /\ mSlot = 0
    /\ server = "none" /\ running = FALSE /\ listening = FALSE
    /\ clients = [c \in Clients |-> "none"]
    /\ late = FALSE /\ stray = {}

-----------------------------------------------------------------------------
(* Startup.  The main thread is alone until the server is created.         *)

\* An early return: delete these, then what every path releases.
ReleaseOrder == <<"plugins", "loggers", "config">>

Release(objects) == pc' = "release" /\ todo' = objects

Return(objects) == Release(objects \o ReleaseOrder)

Goto(place) == pc' = place /\ UNCHANGED todo

NewPluginObject(role, type) ==
    live' = Put(live, role, Creator(type).library)

LoadConfig ==
    /\ pc = "config"
    /\ live' = Put(live, "config", "")
    /\ OpenDirectory
    /\ Goto("loadAll")
    /\ UNCHANGED <<dataVars, threadVars, stray>>

LoadAll ==
    /\ pc = "loadAll"
    /\ LoadEntry
    /\ UNCHANGED <<pc, todo, live, dataVars, threadVars, stray>>

PluginsLoaded ==
    /\ pc = "loadAll" /\ unread = {}
    /\ IF conf.PluginName = "" THEN Return(<<>>)
       ELSE IF conf.BaseboardPluginName = "" THEN Goto("communicator")
       ELSE Goto("baseboard")
    /\ UNCHANGED <<pmVars, live, dataVars, threadVars, stray>>

CreateBaseboardCommunicator ==
    /\ pc = "baseboard"
    /\ Promote(conf.BaseboardPluginName)
    /\ IF Creator(conf.BaseboardPluginName) = NoCreator
       THEN Return(<<>>) /\ UNCHANGED live
       ELSE /\ Goto("baseboardHeader")
            /\ NewPluginObject("baseboard", conf.BaseboardPluginName)
    /\ UNCHANGED <<dataVars, threadVars, stray>>

\* A result that is not 0 counts as read, also a negative one.
ReadBaseboardHeader ==
    /\ pc = "baseboardHeader"
    /\ live' = Erase(live, {"baseboard"})
    /\ \/ Return(<<>>) /\ UNCHANGED boardSlots
       \/ \E h \in Headers :
             /\ IF h.magic THEN Goto("communicator") ELSE Return(<<>>)
             /\ boardSlots' = IF h.magic THEN h.maxSlots ELSE boardSlots
    /\ UNCHANGED <<pmVars, hdr, mSlot, threadVars, stray>>

CreateCommunicator ==
    /\ pc = "communicator"
    /\ Promote(conf.PluginName)
    /\ IF Creator(conf.PluginName) = NoCreator
       THEN Return(<<>>) /\ UNCHANGED live
       ELSE /\ Goto("initInterface")
            /\ NewPluginObject("comm", conf.PluginName)
    /\ UNCHANGED <<dataVars, threadVars, stray>>

InitInterface ==
    /\ pc = "initInterface"
    /\ Goto("header") \/ Return(<<"comm">>)
    /\ UNCHANGED <<pmVars, live, dataVars, threadVars, stray>>

ReadMemoryHeader ==
    /\ pc = "header"
    /\ \/ Return(<<"comm">>) /\ UNCHANGED <<hdr, boardSlots>>
       \/ \E h \in Headers :
             /\ hdr' = h
             /\ boardSlots' = IF boardSlots = -1 THEN h.maxSlots
                              ELSE boardSlots
             /\ IF h.magic /\ boardSlots' > 0 THEN Goto("slot")
                ELSE Return(<<"comm">>)
    /\ UNCHANGED <<pmVars, live, mSlot, threadVars, stray>>

CreateSlotDetector ==
    /\ pc = "slot"
    /\ mSlot' = conf.defaultSlot
    /\ IF conf.slotPluginName = ""
       THEN Goto("segment") /\ UNCHANGED <<pmVars, live>>
       ELSE /\ Promote(conf.slotPluginName)
            /\ IF Creator(conf.slotPluginName) = NoCreator
               THEN Return(<<"comm">>) /\ UNCHANGED live
               ELSE /\ Goto("detect")
                    /\ NewPluginObject("detector", conf.slotPluginName)
    /\ UNCHANGED <<hdr, boardSlots, threadVars, stray>>

DetectSlot ==
    /\ pc = "detect"
    /\ mSlot' \in Slots
    /\ IF mSlot' < 0
       THEN Return(<<"detector", "comm">>) /\ UNCHANGED live
       ELSE /\ Goto("segment")
            /\ live' = Erase(live, {"detector"})
    /\ UNCHANGED <<pmVars, hdr, boardSlots, threadVars, stray>>

CheckSegment ==
    /\ pc = "segment"
    /\ IF messageMaxSize(hdr) < 4
       THEN Release(<<"comm", "plugins", "config", "loggers">>)
       ELSE Goto("node")
    /\ UNCHANGED <<pmVars, live, dataVars, threadVars, stray>>

(***************************************************************************)
(* Node::Node makes a SensorSet, which makes the configured sensors: with  *)
(* the plugin directly or through a provider, which may have none.  The    *)
(* map keeps some of them.  Others are given up, and nothing refers to     *)
(* them any more: a sensor that cannot be configured, one whose name is    *)
(* taken by a later one, one of a provider whose name is taken already, a  *)
(* JSON provider whose name is taken.                                      *)
(***************************************************************************)
CreateNode ==
    /\ pc = "node"
    /\ IF conf.sensor = "" \/ Creator(conf.sensor) = NoCreator
       THEN /\ live' = Put(live, "node", "")
            /\ UNCHANGED pmVars
       ELSE /\ \E made \in SUBSET {"sensors", "givenUp"} :
                  live' = Put([r \in DOMAIN live \cup made |->
                                  IF r \in made
                                  THEN Creator(conf.sensor).library
                                  ELSE live[r]],
                              "node", "")
            /\ Promote(conf.sensor)
    /\ \E size \in SensorSizes :
          IF size <= messageMaxSize(hdr) THEN Goto("server")
          ELSE Return(<<"node", "comm">>)
    /\ UNCHANGED <<dataVars, threadVars, stray>>

\* CommandLineServer::CommandLineServer with Network, which only logs that its
\* socket cannot listen, and Thread::start.
CreateServer ==
    /\ pc = "server"
    /\ live' = Put(Put(live, "network", ""), "server", "")
    /\ server' = "created" /\ listening' \in BOOLEAN
    /\ Goto("signature")
    /\ UNCHANGED <<pmVars, dataVars, running, clients, late, stray>>

CreateSignature ==
    /\ pc = "signature"
    /\ live' = Put(live, "signature", "")
    /\ Goto("loop")
    /\ UNCHANGED <<pmVars, dataVars, threadVars, stray>>

-----------------------------------------------------------------------------
(* The end of Daemon::run.  todo is the order of the code; ~Thread calls   *)
(* stop once more after ~CommandLineServer.                                *)

\* Fault: the thread is stopped before its socket is closed.
TearDown_Order ==
    <<"signature", "thread", "socket", "network", "thread", "server", "node",
      "comm">>

\* Fault: the communicator is deleted after its plugin.
EndLoop_Late ==
    /\ pc = "loop"
    /\ live' = Erase(live, {"sensors"})
    /\ Release(<<"signature", "socket", "thread", "network", "thread",
                 "server", "node", "plugins", "comm", "loggers", "config">>)
    /\ UNCHANGED <<pmVars, dataVars, threadVars, stray>>

TearDown ==
    <<"signature", "socket", "thread", "network", "thread", "server", "node",
      "comm">>

\* SensorSet::clear deletes the sensors; the empty page that is written then
\* uses the node, which is still there.
EndLoop ==
    /\ pc = "loop"
    /\ live' = Erase(live, {"sensors"})
    /\ Return(TearDown)
    /\ UNCHANGED <<pmVars, dataVars, threadVars, stray>>

Releasing(what) == pc = "release" /\ todo # <<>> /\ Head(todo) = what
Released == pc' = pc /\ todo' = Tail(todo)

\* Node::~Node deletes the sensors that are still there (an early return).
Owned(role) == IF role = "node" THEN {"node", "sensors"} ELSE {role}

DeleteObject ==
    \E role \in {"signature", "network", "server", "node", "comm",
                 "detector", "loggers", "config"} :
        /\ Releasing(role)
        /\ Released
        /\ live' = Erase(live, Owned(role))
        /\ stray' = stray \cup Uses("main", {role})
        /\ UNCHANGED <<pmVars, dataVars, threadVars>>

\* Network::closeSocket: shutdown wakes up the thread in accept.
CloseSocket ==
    /\ Releasing("socket")
    /\ Released
    /\ listening' = FALSE
    /\ UNCHANGED <<pmVars, live, dataVars, server, running, clients, late,
                   stray>>

\* Fault: the thread is not waited for.
Stop_NoJoin ==
    /\ Releasing("thread")
    /\ running' = FALSE
    /\ Released
    /\ late' = (late \/ server = "created")
    /\ UNCHANGED <<pmVars, live, dataVars, server, listening, clients, stray>>

\* Thread::stop; a thread that has not reached Run yet is not waited for.
Stop ==
    /\ Releasing("thread")
    /\ running' = FALSE
    /\ IF running THEN pc' = pc /\ todo' = <<"join">> \o Tail(todo)
       ELSE Released
    /\ late' = (late \/ server = "created")
    /\ UNCHANGED <<pmVars, live, dataVars, server, listening, clients, stray>>

Join ==
    /\ Releasing("join")
    /\ server = "done"
    /\ Released
    /\ UNCHANGED <<pmVars, live, dataVars, threadVars, stray>>

UnloadPlugins ==
    /\ Releasing("plugins")
    /\ Shutdown
    /\ Released
    /\ UNCHANGED <<live, dataVars, threadVars, stray>>

\* main returns; the destructor of the static PluginManager shuts down again.
Exit ==
    /\ pc = "release" /\ todo = <<>>
    /\ Shutdown
    /\ pc' = "exited" /\ UNCHANGED todo
    /\ UNCHANGED <<live, dataVars, threadVars, stray>>

-----------------------------------------------------------------------------
(* The threads of the server and of its clients.  A thread that uses an    *)
(* object after its deletion is recorded in stray and not followed further *)
(* ("wild").  The threads end with the process.                            *)

Present(roles) == roles \subseteq DOMAIN live

ServerUses(roles, next) ==
    /\ stray' = stray \cup Uses("server", roles)
    /\ server' = IF Present(roles) THEN next ELSE "wild"

\* Thread::entryPoint and Run
ServerRun ==
    /\ server = "created" /\ pc # "exited"
    /\ ServerUses({"server"}, "test")
    /\ running' = Present({"server"})
    /\ UNCHANGED <<pmVars, pc, todo, live, dataVars, listening, clients, late>>

\* The loop of CommandLineServer::execute
ServerTest ==
    /\ server = "test" /\ pc # "exited"
    /\ ServerUses({"server"}, IF running THEN "accept" ELSE "done")
    /\ UNCHANGED <<pmVars, pc, todo, live, dataVars, running, listening,
                   clients, late>>

\* acceptConnection returns NULL: the socket is closed or never listened.
ServerAcceptFails ==
    /\ server = "accept" /\ pc # "exited"
    /\ ~listening
    /\ ServerUses({"server", "network"}, "test")
    /\ UNCHANGED <<pmVars, pc, todo, live, dataVars, running, listening,
                   clients, late>>

ServerAccept(c) ==
    /\ server = "accept" /\ pc # "exited"
    /\ listening /\ clients[c] = "none"
    /\ ServerUses({"server", "network"}, "test")
    /\ clients' = [clients EXCEPT ![c] = "created"]
    /\ UNCHANGED <<pmVars, pc, todo, live, dataVars, running, listening, late>>

\* What a command of a client uses; readline comes first and uses nothing.
CommandUses ==
    [getnodeid |-> {"server", "node"}, monitor |-> {"server", "node", "comm"},
     addsensors |-> {"server", "node"}, updatesensors |-> {"server", "node"},
     unknown |-> {}]

ClientRun(c) ==
    /\ clients[c] = "created" /\ pc # "exited"
    /\ clients' = [clients EXCEPT ![c] = "readline"]
    /\ UNCHANGED <<pmVars, pc, todo, live, dataVars, server, running,
                   listening, late, stray>>

ClientCommand(c) ==
    /\ clients[c] = "readline" /\ pc # "exited"
    /\ \E cmd \in DOMAIN CommandUses :
          /\ stray' = stray \cup Uses("client", CommandUses[cmd])
          /\ clients' = [clients EXCEPT ![c] =
                            IF Present(CommandUses[cmd]) THEN @ ELSE "wild"]
    /\ UNCHANGED <<pmVars, pc, todo, live, dataVars, server, running,
                   listening, late>>

\* "exit", or the end of the connection
ClientEnd(c) ==
    /\ clients[c] = "readline" /\ pc # "exited"
    /\ clients' = [clients EXCEPT ![c] = "done"]
    /\ UNCHANGED <<pmVars, pc, todo, live, dataVars, server, running,
                   listening, late, stray>>

-----------------------------------------------------------------------------
Startup ==
    \/ LoadConfig \/ LoadAll \/ PluginsLoaded
    \/ CreateBaseboardCommunicator \/ ReadBaseboardHeader
    \/ CreateCommunicator \/ InitInterface \/ ReadMemoryHeader
    \/ CreateSlotDetector \/ DetectSlot \/ CheckSegment
    \/ CreateNode \/ CreateServer \/ CreateSignature

End ==
    DeleteObject \/ CloseSocket \/ Stop \/ Join \/ UnloadPlugins \/ Exit

Server ==
    ServerRun \/ ServerTest \/ ServerAcceptFails
    \/ \E c \in Clients : ServerAccept(c)

ClientThreads == \E c \in Clients : ClientRun(c) \/ ClientCommand(c) \/ ClientEnd(c)

Next == Startup \/ EndLoop \/ End \/ Server \/ ClientThreads

\* The scheduler runs the main thread and the thread of the server.  When
\* the main loop ends, and whether clients connect, is up to others.
Spec ==
    /\ Init /\ [][Next]_vars
    /\ WF_vars(Startup) /\ WF_vars(End)
    /\ WF_vars(ServerRun) /\ WF_vars(ServerTest) /\ WF_vars(ServerAcceptFails)

-----------------------------------------------------------------------------
(* Properties.                                                             *)

LifecycleTypeOK ==
    /\ unread \subseteq setup.directory
    /\ dynamicLibraryMap_ \subseteq Paths
    /\ \A t \in DOMAIN exactMatchMap_ : exactMatchMap_[t].library \in Paths
    /\ ToSet(exitFuncVec_) \subseteq Paths
    /\ handles \in [Paths -> Nat] /\ exits \in [Paths -> Nat]
    /\ \A r \in DOMAIN live : live[r] \in Paths \cup {""}
    /\ hdr \in Headers \cup {NoHeader}
    /\ mSlot \in Slots \cup {0} \cup {s.conf.defaultSlot : s \in Setups}
    /\ server \in {"none", "created", "test", "accept", "done", "wild"}
    /\ clients \in [Clients -> {"none", "created", "readline", "done", "wild"}]

(***************************************************************************)
(* On every path out of Daemon::run, early returns included, everything    *)
(* created is deleted once: at the end nothing is left except the sensors  *)
(* and providers that SensorSet::SensorSet gave up, no library stays open, *)
(* the exit function of a library ran at most once, and the main thread    *)
(* deleted nothing twice.                                                  *)
(***************************************************************************)
ReleasedOnce ==
    /\ \A s \in stray : s[1] # "main"
    /\ \A p \in Paths : handles[p] \in 0..1 /\ exits[p] \in 0..1
    /\ pc = "exited" => /\ DOMAIN live \subseteq {"givenUp"}
                       /\ \A p \in Paths : handles[p] = 0

(***************************************************************************)
(* The code of an object made by a plugin stays loaded as long as the      *)
(* object exists and something refers to it: only what the sensor set gave *)
(* up is left when the libraries are closed.  The loggers handed out to    *)
(* plugins outlive the libraries.                                          *)
(***************************************************************************)
CodeStaysLoaded ==
    /\ \A r \in DOMAIN live \ {"givenUp"} :
          live[r] # "" => handles[live[r]] > 0
    /\ "loggers" \notin DOMAIN live => \A p \in Paths : handles[p] = 0

(***************************************************************************)
(* ~CommandLineServer waits for the thread that accepts connections, which *)
(* uses the server and its socket: that thread meets neither after its     *)
(* deletion, unless stop came before it had reached Run.  The threads of   *)
(* the clients are detached, and nothing is said of them.                  *)
(***************************************************************************)
ServerOutlived == \A s \in stray : s[1] = "server" => late

(***************************************************************************)
(* Once the node is created, the header of the shared memory gives every   *)
(* slot of the baseboard a segment of its own inside the memory.           *)
(***************************************************************************)
SegmentSafe ==
    pc \in {"node", "server", "signature", "loop"} => SegmentsApart(hdr)

(***************************************************************************)
(* An object type keeps the library that it was first registered from, so  *)
(* that a plugin which is loaded later cannot take it over.                *)
(***************************************************************************)
FirstRegistrationWins ==
    [][\A t \in DOMAIN exactMatchMap_ :
          t \in DOMAIN exactMatchMap_' =>
              exactMatchMap_'[t].library = exactMatchMap_[t].library]_vars

(***************************************************************************)
(* Whatever a client does, the process ends once the main loop has ended   *)
(* or startup has failed: the thread of the server does not block its      *)
(* join (unless stop missed it, see ServerOutlived).                       *)
(***************************************************************************)
TearDownEnds == pc = "release" ~> (pc = "exited" \/ late)
=============================================================================
