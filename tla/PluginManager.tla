---------------------------- MODULE PluginManager ----------------------------
(***************************************************************************)
(* daemon/src/plugin_framework: PluginManager with DynamicLibrary,         *)
(* Directory and Path, and what each plugin of the repository registers.   *)
(*                                                                         *)
(* A library is named by its absolute path.  The order in which a          *)
(* directory is read is that of the file system: any order.  An object     *)
(* type is a string; what kind of object it is, and that the configuration *)
(* asks for the right kind, is not checked by the code and not modelled.   *)
(***************************************************************************)
EXTENDS Integers, Sequences, SequencesExt, FiniteSets, Maps

CONSTANT Setups   \* plugin directories (sets of entries, or NoDirectory) with
                  \* the configurations used with them

(***************************************************************************)
(* Registrations: PF_RegisterParams with the object type it is made for,   *)
(* the types its create function returns an object for, the services that  *)
(* the plugin asked for, and the library it came from once it is accepted. *)
(***************************************************************************)
Registration(key, language, makes, services) ==
    [key |-> key, language |-> language, major |-> 1, complete |-> TRUE,
     makes |-> makes, services |-> services, library |-> ""]

Plugin(key, services) == Registration(key, "CPP", {key}, services)

(* PF_initPlugin of the plugins in plugins/. *)
CommunicatorAdlink == Plugin("CommunicatorAdlink", {"getLogger"})
CommunicatorCongatec == Plugin("CommunicatorCongatec", {"getLogger"})
CommunicatorDummy == Plugin("CommunicatorDummy", {"getLogger"})
CommunicatorTCP ==
    Plugin("CommunicatorTCP", {"getLogger", "getConfig", "resetStatemachine"})
LinuxCommunicatorDev == Plugin("LinuxCommunicatorDev", {"getLogger", "getConfig"})
LinuxSensorIP == Plugin("SensorIP", {"getLogger"})
LinuxSensorProviderEth == Plugin("LinuxSensorProviderEth", {"getLogger"})
LinuxSlotDetectorGPIO ==
    Plugin("LinuxSlotDetectorGPIO", {"getLogger", "getConfig"})
SensorDummy == Plugin("SensorDummy", {"getLogger"})
SensorFileReader == Plugin("SensorFileReader", {"getLogger"})
SensorProviderJetson == Plugin("SensorProviderJetson", {"getLogger"})
SensorProviderSystem == Plugin("SensorProviderSystem", {"getLogger"})
SensorProviderZynq == Plugin("SensorProviderZynq", {"getLogger", "getConfig"})
SensorProviderZynqModule ==
    Plugin("SensorProviderZynqModule", {"getLogger", "getConfig"})
WindowsCommunicatorI2CTinyUSB ==
    Plugin("WindowsCommunicatorI2CTinyUSB", {"getLogger"})

RepositoryPlugins ==
    {CommunicatorAdlink, CommunicatorCongatec, CommunicatorDummy,
     CommunicatorTCP, LinuxCommunicatorDev, LinuxSensorIP,
     LinuxSensorProviderEth, LinuxSlotDetectorGPIO, SensorDummy,
     SensorFileReader, SensorProviderJetson, SensorProviderSystem,
     SensorProviderZynq, SensorProviderZynqModule,
     WindowsCommunicatorI2CTinyUSB}

(***************************************************************************)
(* Directory entries.  A link with a relative target is resolved against   *)
(* the working directory, where there is no such file.                     *)
(***************************************************************************)
NoDirectory == {[kind |-> "none", path |-> ""]}

Library(path, registrations) ==
    [kind |-> "library", path |-> path, target |-> path, loads |-> TRUE,
     entry |-> TRUE, registrations |-> registrations]
NotALibrary(path) == [Library(path, <<>>) EXCEPT !.loads = FALSE]
NoEntryPoint(path) == [Library(path, <<>>) EXCEPT !.entry = FALSE]
Link(path, library) == [library EXCEPT !.kind = "link", !.path = path]
RelativeLink(path, library) ==
    [Link(path, library) EXCEPT !.target = "missing", !.loads = FALSE]
Subdirectory(path) == [NotALibrary(path) EXCEPT !.kind = "directory"]
OtherFile(path) == [NotALibrary(path) EXCEPT !.kind = "other"]

Registrations ==
    [key : STRING, language : STRING, major : Nat, complete : BOOLEAN,
     makes : SUBSET STRING, services : SUBSET STRING, library : STRING]

Entries ==
    [kind : {"library", "link", "directory", "other"}, path : STRING,
     target : STRING, loads : BOOLEAN, entry : BOOLEAN,
     registrations : Seq(Registrations)]

ASSUME SetupsAssumption ==
    \A s \in Setups : s.directory = NoDirectory \/ s.directory \subseteq Entries

VARIABLES
    setup,               \* the plugin directory and the configuration
    unread,              \* entries that the iterator has not returned yet
    dynamicLibraryMap_,  \* absolute paths of the libraries in the map
    exactMatchMap_,      \* [object type -> registration]
    wildCardVec_,        \* registrations of "*"
    exitFuncVec_,        \* libraries whose exit function was stored
    handles,             \* [path -> open handles of dlopen]
    exits                \* [path -> calls of its exit function]

pmVars == <<setup, unread, dynamicLibraryMap_, exactMatchMap_,
            wildCardVec_, exitFuncVec_, handles, exits>>

Paths == {e.target : e \in {x \in UNION {s.directory : s \in Setups} :
                                x.kind \in {"library", "link"}}}

PMInit ==
    /\ setup \in Setups
    /\ unread = {}
    /\ dynamicLibraryMap_ = {}
    /\ exactMatchMap_ = <<>> /\ wildCardVec_ = <<>> /\ exitFuncVec_ = <<>>
    /\ handles = [p \in Paths |-> 0] /\ exits = [p \in Paths |-> 0]

-----------------------------------------------------------------------------
(* Registration.                                                           *)

isValid(r) == r.key # "" /\ r.complete

\* Fault: a second registration of an object type replaces the first.
Refused_Replace(exact, r) == ~isValid(r) \/ r.major # 1

\* registerObject returns -1: platformServices_.version.major is 1.
Refused(exact, r) ==
    \/ ~isValid(r)
    \/ r.major # 1
    \/ r.key # "*" /\ r.key \in DOMAIN exact

registerObject(tables, r, path) ==
    LET rp == [r EXCEPT !.library = path] IN
    CASE Refused(tables.exact, r) -> [tables EXCEPT !.accepted = FALSE]
      [] ~Refused(tables.exact, r) /\ r.key = "*" ->
            [tables EXCEPT !.wild = Append(@, rp)]
      [] OTHER -> [tables EXCEPT !.exact = Put(@, r.key, rp)]

(***************************************************************************)
(* initializePlugin: the plugin registers its objects in turn and returns  *)
(* NULL when one was refused.  What was accepted stays registered.         *)
(***************************************************************************)
initializePlugin(registrations, path) ==
    LET t[i \in 0..Len(registrations)] ==
            IF i = 0
            THEN [exact |-> exactMatchMap_, wild |-> wildCardVec_,
                  accepted |-> TRUE]
            ELSE registerObject(t[i - 1], registrations[i], path)
    IN  t[Len(registrations)]

-----------------------------------------------------------------------------
(* Loading.                                                                *)

OpenDirectory ==
    /\ unread' = IF setup.directory = NoDirectory THEN {}
                 ELSE setup.directory
    /\ UNCHANGED <<setup, dynamicLibraryMap_, exactMatchMap_, wildCardVec_,
                   exitFuncVec_, handles, exits>>

\* Fault: nothing keeps a library from being loaded again.
AlreadyLoaded_Never(e) == FALSE

\* The path is absolute already, and so is the target of a link.
AlreadyLoaded(e) == e.target \in dynamicLibraryMap_

\* Entries that loadAll passes over, and the early returns of loadByPath.
Skipped(e) ==
    \/ e.kind \in {"directory", "other"}
    \/ AlreadyLoaded(e)
    \/ ~e.loads

\* loadLibrary: the library stays in the map whatever happens next.
Opened(e) ==
    /\ dynamicLibraryMap_' = dynamicLibraryMap_ \cup {e.target}
    /\ handles' = [handles EXCEPT ![e.target] = @ + 1]

loadByPath(e) ==
    IF Skipped(e)
    THEN UNCHANGED <<dynamicLibraryMap_, handles, exactMatchMap_,
                     wildCardVec_, exitFuncVec_>>
    ELSE /\ Opened(e)
         /\ LET t == initializePlugin(e.registrations, e.target) IN
            /\ exactMatchMap_' = IF e.entry THEN t.exact ELSE exactMatchMap_
            /\ wildCardVec_' = IF e.entry THEN t.wild ELSE wildCardVec_
            /\ exitFuncVec_' = IF e.entry /\ t.accepted
                               THEN Append(exitFuncVec_, e.target)
                               ELSE exitFuncVec_

\* One round of the loop of loadAll.
LoadEntry ==
    \E e \in unread :
        /\ unread' = unread \ {e}
        /\ loadByPath(e)
        /\ UNCHANGED <<setup, exits>>

-----------------------------------------------------------------------------
(* Objects.                                                                *)

NoCreator == [key |-> "", library |-> ""]

ByExactMatch(type) ==
    type \in DOMAIN exactMatchMap_ /\ type \in exactMatchMap_[type].makes

ByWildCard(type) ==
    /\ ~ByExactMatch(type)
    /\ \E i \in DOMAIN wildCardVec_ : type \in wildCardVec_[i].makes

FirstWildCard(type) ==
    wildCardVec_[SelectInSeq(wildCardVec_, LAMBDA r : type \in r.makes)]

(***************************************************************************)
(* createObject: who makes an object of this type, or NoCreator.  When the *)
(* registered plugin fails and a wild card steps in, its promotion is      *)
(* refused, and the object is destroyed again.                             *)
(***************************************************************************)
Creator(type) ==
    CASE type = "*" -> NoCreator
      [] type # "*" /\ ByExactMatch(type) -> exactMatchMap_[type]
      [] type # "*" /\ ByWildCard(type) /\ type \notin DOMAIN exactMatchMap_ ->
            FirstWildCard(type)
      [] OTHER -> NoCreator

\* The wild card is registered for the type as well.
Promote(type) ==
    /\ exactMatchMap_' =
          IF Creator(type) # NoCreator /\ ~ByExactMatch(type)
          THEN Put(exactMatchMap_, type, [Creator(type) EXCEPT !.key = type])
          ELSE exactMatchMap_
    /\ UNCHANGED <<setup, unread, dynamicLibraryMap_, wildCardVec_,
                   exitFuncVec_, handles, exits>>

-----------------------------------------------------------------------------
\* Fault: the closed libraries stay in the map.
Shutdown_Open ==
    /\ exits' = [p \in Paths |->
                    exits[p] + Cardinality({i \in DOMAIN exitFuncVec_ :
                                               exitFuncVec_[i] = p})]
    /\ handles' = [p \in Paths |->
                    IF p \in dynamicLibraryMap_ THEN handles[p] - 1
                    ELSE handles[p]]
    /\ exactMatchMap_' = <<>> /\ wildCardVec_' = <<>> /\ exitFuncVec_' = <<>>
    /\ UNCHANGED <<setup, unread, dynamicLibraryMap_>>

\* PluginManager::shutdown
Shutdown ==
    /\ exits' = [p \in Paths |->
                    exits[p] + Cardinality({i \in DOMAIN exitFuncVec_ :
                                               exitFuncVec_[i] = p})]
    /\ handles' = [p \in Paths |->
                    IF p \in dynamicLibraryMap_ THEN handles[p] - 1
                    ELSE handles[p]]
    /\ dynamicLibraryMap_' = {} /\ exactMatchMap_' = <<>>
    /\ wildCardVec_' = <<>> /\ exitFuncVec_' = <<>>
    /\ UNCHANGED <<setup, unread>>
=============================================================================
