------------------------------ MODULE SensorSet ------------------------------
(***************************************************************************)
(* SensorSet and JSONSensorsParser (daemon/src): the sensors of the node,  *)
(* collected by the constructor from the configuration, from sensor        *)
(* providers and from JSON sensor providers; the description and the data  *)
(* messages made from them; and the telnet commands that add JSON groups.  *)
(*                                                                         *)
(* A sensor name is a number, so that the order of std::map is the order   *)
(* of numbers.  Of the main loop only the steps of the description phase   *)
(* are kept, and of resetStatemachine the two assignments they depend on;  *)
(* Daemon has the rest.                                                    *)
(***************************************************************************)
EXTENDS Paging, SequencesExt, Maps

CONSTANTS
    Sensors,       \* sensors that can be configured or provided
    Descriptions,  \* JSON descriptions: sequences of entries
    PluginGroups,  \* names of configured JSON sensor providers
    TelnetClients, \* telnet clients, each with a thread of its own
    TelnetGroups,  \* group names that they use
    NoGroup,       \* the empty group name
    GroupLimit,    \* number of group ids (255 in the code)
    MaxManual, MaxProviders \* bounds on the configuration

(***************************************************************************)
(* What a sensor is made from.  An entry is valid when it is an object     *)
(* with the keys name and dataType, a known type and a name that is short  *)
(* enough.                                                                 *)
(***************************************************************************)
Entries == [name : Nat, group : STRING, size : 1..255, valid : BOOLEAN]

SensorNames ==
    {s.name : s \in Sensors}
        \cup UNION {{d[i].name : i \in DOMAIN d} : d \in Descriptions}

(***************************************************************************)
(* At most 254 pages: *maxPages is a uint8_t, and with 255 the mCurrentPage*)
(* of the main loop would wrap (see PagesAssumption in Daemon).            *)
(***************************************************************************)
ASSUME SensorAssumption ==
    /\ Sensors \subseteq Entries
    /\ Descriptions \subseteq Seq(Entries)
    /\ IsFiniteSet(SensorNames)
    /\ Cardinality(SensorNames) <= 254 * PerPage
    /\ NoGroup \in STRING
    /\ GroupLimit \in 1..255
    /\ MaxManual \in Nat /\ MaxProviders \in Nat

VARIABLES
    phase,         \* "manual", "providers", "json", "run" or "cleared"
    configured,    \* configured sensors or providers handled in this phase
    mSensorMap,    \* [name -> sensor]
    mJSONSensorsParsers, \* [JSON group -> mSensorsOrdered]
    mKnownGroups,  \* [group -> id]
    mSize,         \* size of mData, fixed by the constructor
    values,        \* [JSON sensor -> field of the provider's data it holds]
    mState, mCurrentPage, \* the main loop's place in the publication
    at,            \* where the main thread is in its loop
    maxPages,      \* as returned by the last getDescriptionPage
    telnet,        \* [client -> where its thread is in addsensors]
    table,         \* what the pages since page 1 said
    skewed,        \* mCurrentPage was reset between the description of a
                   \* page and its increment, and no page 1 followed
    message,       \* the layout of the last data message
    promised       \* sensors that addsensors accepted

setVars == <<mSensorMap, mJSONSensorsParsers, mKnownGroups, mSize, values>>
loopVars == <<mState, mCurrentPage, at, maxPages, table, skewed, message>>
vars == <<phase, configured, setVars, loopVars, telnet, promised>>

\* The i-th name is the one that i - 1 names precede.
Sorted(names) ==
    [i \in 1..Cardinality(names) |->
        CHOOSE n \in names : Cardinality({m \in names : m < n}) = i - 1]

Order == Sorted(DOMAIN mSensorMap)

DataHeaderSize == 7  \* sizeof(Monitoring_Data_Header)

SizeOf(map) ==
    DataHeaderSize + MapThenSumSet(LAMBDA n : map[n].size, DOMAIN map)

Init ==
    /\ phase = "manual" /\ configured = 0
    /\ mSensorMap = <<>> /\ mJSONSensorsParsers = <<>>
    /\ mKnownGroups = <<>> /\ mSize = 0
    /\ values = <<>>
    /\ mState = "BasicInformation" /\ mCurrentPage = 1
    /\ at = "idle" /\ maxPages = 0
    /\ telnet = [c \in TelnetClients |-> "idle"]
    /\ table = <<>> /\ skewed = FALSE /\ message = <<>>
    /\ promised = {}

-----------------------------------------------------------------------------
(* The constructor.                                                        *)

\* A sensor from the configuration replaces one of the same name.
ConfigureSensor ==
    /\ phase = "manual" /\ configured < MaxManual
    /\ configured' = configured + 1
    /\ \E s \in Sensors :
          /\ s.valid
          /\ mSensorMap' = Put(mSensorMap, s.name, s)
    /\ UNCHANGED <<phase, mJSONSensorsParsers, mKnownGroups, mSize, values,
                   loopVars, telnet, promised>>

\* The sensors of a provider: insert keeps what is there.
EnableProvider ==
    /\ phase = "providers" /\ configured < MaxProviders
    /\ configured' = configured + 1
    /\ \E s \in Sensors, t \in Sensors :
          mSensorMap' = Insert(mSensorMap,
                               Put(Put(<<>>, t.name, t), s.name, s))
    /\ UNCHANGED <<phase, mJSONSensorsParsers, mKnownGroups, mSize, values,
                   loopVars, telnet, promised>>

(***************************************************************************)
(* JSONSensorsParser::getSensors: the valid entries in their order, each   *)
(* with the field its provider reports it in (shifted: an invalid entry    *)
(* precedes it); of two with the same name the map keeps the first.        *)
(***************************************************************************)
JSONSensor(group, desc, i) ==
    [name |-> desc[i].name, group |-> desc[i].group, size |-> desc[i].size,
     json |-> group, field |-> i,
     shifted |-> \E j \in 1..(i - 1) : ~desc[j].valid]

Parse(group, desc) ==
    LET parsed[i \in 0..Len(desc)] ==
            IF i = 0 THEN <<>>
            ELSE IF desc[i].valid
                 THEN Append(parsed[i - 1], JSONSensor(group, desc, i))
            ELSE parsed[i - 1]
    IN  parsed[Len(desc)]

ByName(parsed) ==
    [n \in {parsed[i].name : i \in DOMAIN parsed} |->
        parsed[CHOOSE i \in DOMAIN parsed :
                   /\ parsed[i].name = n
                   /\ \A j \in 1..(i - 1) : parsed[j].name # n]]

\* addJSONSensorProvider, for a group name that is not taken.
AddJSONSensorProvider(group, desc) ==
    LET parsed == Parse(group, desc) IN
    /\ group \notin DOMAIN mJSONSensorsParsers
    /\ mSensorMap' = Insert(mSensorMap, ByName(parsed))
    /\ mJSONSensorsParsers' = Put(mJSONSensorsParsers, group, parsed)
    /\ values' = Insert(values, [s \in ToSet(parsed) |-> 0])

EnableJSONProvider ==
    /\ phase = "json"
    /\ \E group \in PluginGroups, desc \in Descriptions :
          AddJSONSensorProvider(group, desc)
    /\ UNCHANGED <<phase, configured, mKnownGroups, mSize, loopVars, telnet,
                   promised>>

\* The next part of the constructor; at its end mData gets its size.
NextPhase ==
    /\ \/ /\ phase = "manual" /\ phase' = "providers" /\ UNCHANGED mSize
       \/ /\ phase = "providers" /\ phase' = "json" /\ UNCHANGED mSize
       \/ /\ phase = "json" /\ phase' = "run" /\ mSize' = SizeOf(mSensorMap)
    /\ configured' = 0
    /\ UNCHANGED <<mSensorMap, mJSONSensorsParsers, mKnownGroups, values,
                   loopVars, telnet, promised>>

-----------------------------------------------------------------------------
(* Messages.                                                               *)

\* Fault: ids start at 0, the id of "no group".
GetGroupId_FromZero(known, group) ==
    IF group = NoGroup THEN [id |-> 0, known |-> known]
    ELSE IF group \in DOMAIN known THEN [id |-> known[group], known |-> known]
    ELSE IF Cardinality(DOMAIN known) >= GroupLimit
         THEN [id |-> 0, known |-> known]
    ELSE LET id == Cardinality(DOMAIN known) IN
         [id |-> id, known |-> Put(known, group, id)]

\* getGroupId: the known id, a new one, or 0 when the ids are used up.
GetGroupId(known, group) ==
    IF group = NoGroup THEN [id |-> 0, known |-> known]
    ELSE IF group \in DOMAIN known THEN [id |-> known[group], known |-> known]
    ELSE IF Cardinality(DOMAIN known) >= GroupLimit
         THEN [id |-> 0, known |-> known]
    ELSE LET id == Cardinality(DOMAIN known) + 1 IN
         [id |-> id, known |-> Put(known, group, id)]

\* The sensors a page describes, in the order of the map.
OnPage(p) ==
    SubSeq(Order, StartingSensor(p) + 1,
           StartingSensor(p) + SensorsOnPage(Len(Order), p))

Describe(acc, name) ==
    LET s == mSensorMap[name]
        g == GetGroupId(acc.known, s.group)
    IN  [known |-> g.known,
         lines |-> Append(acc.lines, [name |-> name, size |-> s.size,
                                      group |-> g.id])]

\* The sensors one after the other, with the group ids known so far.
Told(names) ==
    LET told[i \in 0..Len(names)] ==
            IF i = 0 THEN [known |-> mKnownGroups, lines |-> <<>>]
            ELSE Describe(told[i - 1], names[i])
    IN  told[Len(names)]

-----------------------------------------------------------------------------
(* The main loop.                                                          *)

\* The tests of mState; a reset can fall between a test and what follows it.
ChooseMessage ==
    /\ phase = "run" /\ at = "idle"
    /\ \/ mState = "BasicInformation" /\ at' = "basic"
       \/ mState = "MonitoringDescription" /\ at' = "page"
    /\ UNCHANGED <<phase, configured, setVars, mState, mCurrentPage, maxPages,
                   table, skewed, message, telnet, promised>>

\* The basic information block was written.
BasicWritten ==
    /\ at = "basic"
    /\ at' = "idle"
    /\ mState' = "MonitoringDescription"
    /\ UNCHANGED <<phase, configured, setVars, mCurrentPage, maxPages, table,
                   skewed, message, telnet, promised>>

(***************************************************************************)
(* getDescriptionPage for the page that mCurrentPage names now.  Nobody    *)
(* else sees the buffer before the write that follows.                     *)
(***************************************************************************)
GetDescriptionPage ==
    /\ at = "page"
    /\ at' = "advance"
    /\ LET told == Told(OnPage(mCurrentPage))
       IN  /\ mKnownGroups' = told.known
           /\ table' = IF mCurrentPage = 1 THEN told.lines
                       ELSE table \o told.lines
    /\ maxPages' = PageCount(Len(Order))
    /\ skewed' = (skewed /\ mCurrentPage # 1)
    /\ UNCHANGED <<phase, configured, mSensorMap, mJSONSensorsParsers, mSize,
                   values, mState, mCurrentPage, message, telnet, promised>>

\* mCurrentPage++ (uint8_t), whatever it holds by now.
Advance ==
    /\ at = "advance"
    /\ at' = "turn"
    /\ mCurrentPage' = (mCurrentPage + 1) % 256
    /\ UNCHANGED <<phase, configured, setVars, mState, maxPages, table, skewed,
                   message, telnet, promised>>

\* if (mCurrentPage > maxPages) { mCurrentPage = 1; ...
TurnPage ==
    /\ at = "turn"
    /\ IF mCurrentPage > maxPages
       THEN mCurrentPage' = 1 /\ at' = "turned"
       ELSE at' = "idle" /\ UNCHANGED mCurrentPage
    /\ UNCHANGED <<phase, configured, setVars, mState, maxPages, table, skewed,
                   message, telnet, promised>>

\* ... mState = State_MonitoringData; }
TurnState ==
    /\ at = "turned"
    /\ at' = "idle"
    /\ mState' = "MonitoringData"
    /\ UNCHANGED <<phase, configured, setVars, mCurrentPage, maxPages, table,
                   skewed, message, telnet, promised>>

\* Fault: fields are assigned in the order of names.
FieldFor_ByName(parsed, s) ==
    Cardinality({t \in ToSet(parsed) : t.name <= s.name})

\* updateSensors: the k-th sensor takes the k-th field.
FieldFor(parsed, s) == CHOOSE k \in DOMAIN parsed : parsed[k] = s

(***************************************************************************)
(* getMessage: every parser updates its sensors, then the sensors are laid *)
(* out in the order of the map.  Data with too few fields (or none) leaves *)
(* all sensors of its parser as they are, a field of the wrong type its    *)
(* sensor; enough holds the parsers with enough fields.                    *)
(***************************************************************************)
GetMessage ==
    /\ phase = "run" /\ at = "idle" /\ mState = "MonitoringData"
    /\ \E enough \in SUBSET DOMAIN mJSONSensorsParsers,
          usable \in SUBSET DOMAIN values :
          values' = [s \in DOMAIN values |->
                        IF s.json \in enough /\ s \in usable
                        THEN FieldFor(mJSONSensorsParsers[s.json], s)
                        ELSE values[s]]
    /\ message' = [i \in DOMAIN Order |->
                      [name |-> Order[i], size |-> mSensorMap[Order[i]].size]]
    /\ UNCHANGED <<phase, configured, mSensorMap, mJSONSensorsParsers,
                   mKnownGroups, mSize, mState, mCurrentPage, at, maxPages,
                   table, skewed, telnet, promised>>

-----------------------------------------------------------------------------
(* Telnet, and the end of the run.                                         *)

\* Fault: the line keeps its case.
Lowered_Kept(desc) == desc

(***************************************************************************)
(* A telnet line is turned to lower case before it is parsed, and with it  *)
(* the key dataType of each entry, which getSensors then does not find.    *)
(***************************************************************************)
Lowered(desc) == [i \in DOMAIN desc |-> [desc[i] EXCEPT !.valid = FALSE]]

\* addsensors, for a group name that is free; the reset is still to come.
AddSensors(client) ==
    /\ phase \in {"run", "cleared"} /\ telnet[client] = "idle"
    /\ \E group \in TelnetGroups, desc \in Descriptions :
          /\ AddJSONSensorProvider(group, Lowered(desc))
          /\ promised' = promised \cup
                {desc[i].name : i \in {j \in DOMAIN desc : desc[j].valid}}
    /\ telnet' = [telnet EXCEPT ![client] = "state"]
    /\ UNCHANGED <<phase, configured, mKnownGroups, mSize, loopVars>>

\* resetStatemachine: one assignment after the other, without a lock.
ResetStatemachine(client) ==
    /\ \/ /\ telnet[client] = "state"
          /\ telnet' = [telnet EXCEPT ![client] = "page"]
          /\ mState' = "BasicInformation"
          /\ UNCHANGED <<mCurrentPage, skewed>>
       \/ /\ telnet[client] = "page"
          /\ telnet' = [telnet EXCEPT ![client] = "idle"]
          /\ mCurrentPage' = 1
          /\ skewed' = (skewed \/ (at = "advance" /\ mCurrentPage # 1))
          /\ UNCHANGED mState
    /\ UNCHANGED <<phase, configured, setVars, at, maxPages, table, message,
                   promised>>

(***************************************************************************)
(* clear, called when the main loop has ended, and the description page    *)
(* without sensors that is the last message of the run.                    *)
(***************************************************************************)
Clear ==
    /\ phase = "run" /\ at = "idle"
    /\ phase' = "cleared"
    /\ mSensorMap' = <<>> /\ mJSONSensorsParsers' = <<>>
    /\ mKnownGroups' = <<>> /\ values' = <<>>
    /\ table' = <<>>
    /\ UNCHANGED <<configured, mSize, mState, mCurrentPage, at, maxPages,
                   skewed, message, telnet, promised>>

MainLoop ==
    \/ ChooseMessage \/ BasicWritten \/ GetDescriptionPage \/ Advance
    \/ TurnPage \/ TurnState \/ GetMessage \/ Clear

Next ==
    \/ ConfigureSensor \/ EnableProvider \/ EnableJSONProvider \/ NextPhase
    \/ MainLoop
    \/ \E client \in TelnetClients :
          AddSensors(client) \/ ResetStatemachine(client)

Spec == Init /\ [][Next]_vars

-----------------------------------------------------------------------------
(* Properties.                                                             *)

\* The data phase, after a description whose pages were counted through.
Complete == phase = "run" /\ mState = "MonitoringData" /\ ~skewed

(***************************************************************************)
(* In the data phase the pages since the last page 1 describe every sensor *)
(* once and in the order of the data message (SensorSet.cpp:167-213,       *)
(* Daemon.cpp:466-480), wherever else the two assignments of a reset fall: *)
(* excepted is a description in which mCurrentPage was reset after a page  *)
(* was described and before it was counted (skewed), so that page 1 is     *)
(* left out.                                                               *)
(***************************************************************************)
DescriptionComplete ==
    Complete => [i \in DOMAIN table |-> table[i].name] = Order

(***************************************************************************)
(* Sensors get the same group id exactly when they are in the same group;  *)
(* 0 means no group, or that the ids are used up.  This holds across       *)
(* pages and repeated descriptions (SensorSet.cpp:227-244).                *)
(***************************************************************************)
GroupIdsFaithful ==
    phase = "run" =>
    \A i, j \in DOMAIN table :
        LET g == mSensorMap[table[i].name].group
            h == mSensorMap[table[j].name].group
        IN  /\ table[i].group # 0 => (g = h <=> table[i].group = table[j].group)
            /\ table[i].group = 0 =>
                  \/ g = NoGroup
                  \/ Cardinality(DOMAIN mKnownGroups) = GroupLimit

(***************************************************************************)
(* The data message fills the buffer that the constructor allocated, and   *)
(* its values lie where the description the controller last received in    *)
(* full says (SensorSet.cpp:112-116, 155-163).                             *)
(***************************************************************************)
DataFitsDescription ==
    (Complete /\ message # <<>>) =>
        /\ SizeOf(mSensorMap) = mSize
        /\ message = [i \in DOMAIN table |->
                         [name |-> table[i].name, size |-> table[i].size]]

(***************************************************************************)
(* When no invalid entry precedes it, a JSON sensor only ever shows the    *)
(* field that its own entry stands for, whatever the order of names and    *)
(* also when another sensor of that name took its place in the map         *)
(* (JSONSensorsParser.cpp:160-162, 190-212).                               *)
(***************************************************************************)
ValuesFromOwnField ==
    \A s \in DOMAIN values : ~s.shifted => values[s] \in {0, s.field}

(***************************************************************************)
(* "expected addsensors <group name> <JSON data>" (TelnetServer.cpp:102):  *)
(* the sensors described by an accepted addsensors command are there.      *)
(***************************************************************************)
AddedSensorsExist == phase = "run" => promised \subseteq DOMAIN mSensorMap
=============================================================================
