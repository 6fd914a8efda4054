# RECSDaemon: TLA+ models and proofs

The RECSDaemon runs on a compute module of a RECS|Box and shares a piece of
memory with the management controller of the baseboard: it publishes the
module's sensors through it and executes signed commands it finds there. This
directory models the parts of the daemon whose correctness depends on the order
of steps of several actors, on failing accesses or on arithmetic at limits.
Paths are relative to the repository; `Daemon.cpp` is `daemon/src/Daemon.cpp`.

## Inventory

| Component | State | Operations | Interacts with |
|---|---|---|---|
| Main loop (`Daemon.cpp:383-529`) | `mState`, `mCurrentPage`, `mFirstWriteDone`, `mShutdown`, the local message header | read header, handle command, wait for pick-up, write basic block / description page / data, wait, quit | communicator, sensor set, node, telnet threads (`resetStatemachine`), signal handler, management controller |
| Startup and tear-down (`Daemon.cpp:119-382`, `530-543`) | memory header, slot, segment offset and size, the objects made so far | checks with error exits that release what exists, the releases at the end | plugin manager, configuration, slot detector, telnet threads |
| Communicators (`plugins/*Communicator*`) | a bus, or for TCP a socket, a memory image and a receive buffer | `initInterface`, `readData`, `writeData` | main loop, and through `doRead` the telnet threads |
| Sensor set, JSON parser (`SensorSet.cpp`, `JSONSensorsParser.cpp`) | map of sensors, JSON parsers, group ids, data buffer | constructor, `getDescriptionPage`, `getMessage`, `addJSONSensorProvider`, `clear` | main loop, telnet threads |
| Telnet server (`network/TelnetServer.cpp`, `Thread.cpp`) | one thread to accept, one per client | `monitor`, `addsensors`, `updatesensors` | sensor set, `resetStatemachine`, `doRead` |
| Node (`Node.cpp`) | ids, sensor set, offset of the monitoring chunk | `executeCommand`, `getBasicInformationBlock`, chunk search | main loop, telnet |
| Signature (`Signature.cpp`) | a public key | `checkSignature` | main loop |
| Configuration (`Config.cpp`, `ini_manage.cpp`) | linked list of sections and values, the file, listeners | load, get, set, save, notify | everything at startup, plugins through the service `getConfig` |
| Plugin framework (`plugin_framework/`) | registration maps, loaded libraries, exit functions | load, register, create, shut down | startup, factories |
| Sensor plugins | counters of the last measurement | read a file, a device, a serial line | sensor set |

What is hard here, and what the properties are about:

* The main loop decides on a header it read earlier, releases the mutex in
  between and is written as if nobody else touched `mState`; telnet threads
  reset the state machine without a lock, and the TCP communicator resets it
  from inside a write of the loop itself.
* A failed access is noticed only when it returns 0; results of writes are
  ignored. A command is protected from repetition by one byte.
* Pages, pages per description and group ids are `uint8_t`.
* The data buffer is sized once, the set of sensors can be extended later.
* The run has to publish everything, and has to stop when told to.
* `Daemon::run` has a dozen ways out, each of which must release what exists by
  then, in an order in which no code, logger or socket goes before its last use;
  the telnet threads run beside it.
* The configuration file is truncated and written anew, and may be cut off.
* A bus transfer is split into blocks between which the controller writes; a
  serial answer comes in pieces, or too late; the search for a chunk follows
  lengths found in memory that the daemon does not own.

`PROJECT.json` lists each of these hazards at its line, with the properties that
would catch it going wrong.

## Modules

| Module | Models |
|---|---|
| `Publication` | What the controller is promised: items `First..Last` become known one at a time and in order. |
| `Daemon` | The main loop, telnet resets, the signal handler, the management controller (external). |
| `DaemonTCP` | `Daemon` composed with `CommunicatorTCP`: `readData`, `writeData`, `tryConnect`, and the telnet `monitor` command. |
| `Paging` | The arithmetic of `getDescriptionPage`, with the widths of its integers. |
| `SensorSet` | `SensorSet`, `JSONSensorsParser`, the telnet command `addsensors`. |
| `Store` | What a configuration promises: settings that are read, changed, saved whole or lost, and never saved over a file that could not be read. |
| `IniManage` | `ini_manage.cpp`: list, parser, printer. |
| `Config` | `Config.cpp` on top of it, with failing saves, crashes and restarts. |
| `Segment` | Where the messages of a slot are (`Daemon.cpp:320-331`). |
| `PluginManager` | `plugin_framework/`, and what each plugin registers. |
| `Lifecycle` | Startup and tear-down of `Daemon::run` composed with `PluginManager`, `Segment`, the telnet server's thread and its clients. |
| `Bus` | The communicators for a bus, and the dummy. |
| `NodeInfo` | `Node`: adapters, commands, monitoring data. |
| `Serial` | `SensorProviderZynqModule`. |
| `Readings` | `SensorBean`, the sensors of the other plugins, JSON values, rates. |
| `Devices` | The last four side by side: they share no state, and a behaviour is about one of them. |
| `Maps` | Assignment to, insertion into and removal from a `std::map`, as functions on a changing domain. |
| `Daemon_proofs`, `DaemonTCP_proofs`, `Paging_proofs`, `SensorSet_proofs`, `Config_proofs`, `Lifecycle_proofs`, `Devices_proofs` | Theorems and their proofs. |
| `NaturalFacts` | Facts about numbers that several proofs need: least elements, induction over a set, existence of recursive functions, division. |
| `MCDaemon`, `MCDaemonTCP`, `MCSensorSet`, `MCConfig`, `MCLifecycle`, `MCDevices` | Values of the constants for TLC. |

Operators whose name ends in `_` and a word, with a comment that begins with
"Fault:", are the mutants of `PROJECT.json` and used by no specification.

### Daemon

The values of `pc` are points before an access to something another actor can
touch; each action carries the main thread from one to the next. `ReadHeader`,
`ReadCommand`, `ClearCommand` and `WriteMessage` are the calls of the
communicator, made under `mCommMutex` and therefore atomic. `ChooseMessage` is
the chain of tests on `mState`, which is read anew by each test; `DescriptionDue`
is the test before a page, and `ReadPage` the read of `mCurrentPage` after it.
`Advance`, `TurnPage` and `TurnState` are separate because a reset can come
between them.
`ResetBegin` and `ResetFinish` are the three assignments of
`resetStatemachine`.

The segment is the type byte `slotType` and the rest `slotBody`. Of a message
only its kind, page and command matter; `fresh` marks messages of this run. The
controller (`MgmtPickUp`, `MgmtCommand`) is external: it marks a message it took
as empty, and writes a command only over an empty segment or over data. The
history variables `sent`, `known`, `execs`, `lost`, `dropped` are read by the
properties only; `dropped` has the commands that a message was written over
before the loop had read them.

A bus access can return 0 (`"zero"`), a negative code that passes for success
and leaves the local header as it was (`"error"`), or be a write that does not
happen (`"write"`).

### DaemonTCP

The message area is a buffer of the plugin, so `slotType` and `slotBody` are
now local. The socket is `wire`, the receive buffer `rbuf`, both sequences of
header and payload tokens, so that a read can end inside a packet. A connection
that breaks swallows one more send or fails at once; the write after a failure
reconnects and resets the state machine (`Reconnect`), or is refused
(`ConnectFails`). `known` is what the controller received on this connection;
`skewed` marks a connection made while a basic block or a page was being written.

### Paging and SensorSet

A sensor's name is a number, so that the order of `std::map` is the order of
numbers: `Sorted` puts at each place the name that the right number of names
precede. The constructor goes through the phases `manual`, `providers` and
`json`, with the two ways of inserting: a configured sensor replaces, a provided
one does not. The loop then goes through the steps `ChooseMessage`,
`BasicWritten`, `GetDescriptionPage` (which hands out group ids in passing),
`Advance`, `TurnPage`, `TurnState` and `GetMessage`, and between any two of them
telnet clients add sensors (`AddSensors`) and then reset the state machine, in
two steps. `skewed` marks a description in which `mCurrentPage` was reset after a
page was described and before it was counted (`Daemon.cpp:469-476`): the loop
then goes on at page 2, or turns to data after a single page. A JSON sensor
remembers the `field` its provider reports it in, and whether it is `shifted`,
that is, an entry before it was left out as invalid: the parser counts the
sensors it kept, so a shifted sensor takes its value from another entry's field.
The sensors are assumed to have room in 254 pages, as in `Daemon`. `Lowered`
is the effect of `TelnetServer.cpp:91`: the key `dataType` becomes `datatype`,
and no entry is valid any more.

### IniManage, Config and Store

A file is a sequence of lines (section, record, comment, empty, malformed), a
text a tuple, a comment the number of marks each of its lines has: `add_section`
and `_append` add a mark to every comment they are given, so comments grow with
each save, while settings do not change. `load` stops at the first malformed
line and keeps what it has; the instance is then in `mNoSaveMode`. `SetText`
is `set_value` followed by `notifyChangeHandlers`; the listeners are a set, for
their order makes no difference to what each has read. Without anybody noticing,
`Save` can fail to open the file or, when the disk is full, leave any prefix of
the output, its last line whole or cut in two (`PartSaved`), while the process
goes on with what it has in memory. `CrashInSave` leaves such a prefix too, and
`Crash` loses what was not saved. Numbers are
counted in units of the seventh significant digit, of which a stream prints six.

`Store` knows a set of settings in memory, one on disk and whether the
program is stopped, open or read-only. The refinement mapping takes the list
to a function from section and key to text, and the file to the settings that a
start would read from it.

### PluginManager, Segment and Lifecycle

A plugin directory is a set of entries: libraries that load or not, have an
entry point or not, links (absolute, or relative and then broken), other files,
subdirectories. The iterator returns them in any order. `registerObject`,
`initializePlugin` and `createObject` are operators on the tables, among them
the promotion of a wild card registration to an exact match, which is refused
(and the object destroyed) when the type has an owner that failed to create it.

In `Lifecycle`, `pc` is the step of `Daemon::run` that comes next; every check
has its early return. A return appends the objects to delete to `todo`, which is
then worked off in the order of the code; `live` has the objects that exist,
with the library of those made by plugins. The role `givenUp` stands for sensors
and providers that the constructor of `SensorSet` neither stores nor deletes:
those that could not be configured (`SensorSet.cpp:69-74`), those that a later
one replaced (`:71`), duplicates (`:90`, `:125`) and refused providers (`:107`).
Nothing refers to them any more, and nothing deletes them. `EndLoop` includes
`node->getSensors()->clear()` (`Daemon.cpp:521`). The server's thread is `created`
until it reaches `Run`, and then alternates between the test of `running` and
`accept`; `Stop` sets `running` and joins the thread only if it was running.
A thread that uses something deleted is recorded in `stray`. The main loop of
`Daemon` is one place here.

### Bus, NodeInfo, Serial, Readings

`Bus` has one `kind` of communicator per behaviour. A call begins with
`readData` or `writeData`. Adlink then moves one block after the other; the
others write the offset (`WriteOffset`) and read in a second transfer
(`ReadBytes`), or write offset and data in one (`WriteBytes`). The controller
may write at any time. `seen` collects the states of the memory during a call,
which is what a read can truthfully return. `Moved` is how many bytes a transfer
moves: TinyUSB takes any positive result of the USB library for the whole count
and does not ask for the status of the offset (`OffsetLost`, `StatusUnread`), and
the result of Dev can be that of an offset written in part. Such results are
`Unconfirmed` (not `exact`): the code calls them a success, and nothing is
claimed of the bytes. The probe of `getMaxDataSize` goes through three addresses.

`NodeInfo` discovers the chunks of the board while it reads them (`chunks`), so
that every layout is covered. A client is before the header, at a chunk, or
about to read the data; `mMonitoringDataOffset` is shared. The constructor does
not initialise it (`Unset`), and a negative result of `doRead` passes for
success and leaves arbitrary bytes; both make the offset `stray`. Each client
keeps the `end` it took from the header that it read, which is arbitrary when that
read failed. The kernel lists the interfaces, or refuses (`listed`), with an open
socket or without one.

`Serial` splits the stream of bytes anywhere, and times out whenever nothing has
arrived. A byte of a text is the request that it answers.

`Readings` lists the sensors with their types, sizes and callbacks. `setInteger`
copies the last bytes of a number in network order; a sensor with more bytes
than the number reads beyond it (`Stray`). What a sensor ought to show of a
measured value is `Expected`: Jetson's milliwatts end at the largest `uint16_t`,
and an integer is cut to the bytes of the sensor, which are one for the Aurora
bandwidth (`SensorProviderZynq.cpp:104-108`). A JSON value of another kind than
its sensor, or an integer for a sensor of eight bytes
(`JSONSensorsParser.cpp:204`), leaves bytes without a meaning (`Garbled`), of
which nothing is claimed. For texts only lengths matter: the longest text of
`updateLink` must leave room for its end in 82 bytes. A link has at most 8 lanes,
since the register has one byte for them. Powers of the number of values of a
byte are a recursive function (`Power`). The sensor "Power DDR" is read by the
callback of "Power SoC" (`SensorProviderJetson.cpp:88`), although the plugin has a
callback `updatePowerDDR`; this is modelled as it is, and `Shown` says so.

An update of the rates reads rx, tx and the clock one after the other
(`ReadRx`, `ReadTx`, `UpdateRates`) while traffic goes on, and can end after
either read (`ReadFails`), which leaves the last measurement as it was. `sample`
is the update in progress, `span` what the counters were before and after the
last one. A rate records with its value the least and the most that was moved in
its interval; a quotient that does not fit into a `uint32_t` is `Undefined`.

## Runs

| Run | Instance | Shows |
|---|---|---|
| `daemon_safety` | two genuine commands, 2 pages, 2 faults of every kind, 1 reset, a signal | type and page range; executions at most one per failed access beyond the first; commands disappear only by being overwritten unread or, one each, by failed accesses; unread messages are lost only to resets and faults; order of delivery |
| `daemon_delivery` | three commands, no faults | refinement of `Publication`, everything is published, requests to stop are obeyed |
| `daemon_small_segment` | basic block does not fit, an oversized command, 6 loops | the same refinement; the limited run ends, also when the oversized command blocks the segment |
| `tcp` | a genuine and a forged command, 2 broken and 1 refused connection, a monitor client | order on each connection, completeness once connections stay up, executions |
| `config` | 6 files (good, doubled, broken, without a section, empty, missing), 1 setting, 2 changes, 2 starts, 1 listener, saves that fail at once or half-way | refinement of `Store`, values read back by type, listeners current, no duplicates |
| `lifecycle` | 12 plugin directories with configurations, 7 headers, a telnet client | everything that the sensor set did not give up is released once on every path, code outlives its objects, the server's thread outlives nothing it uses, segments apart, the process ends |
| `devices` | 4 bytes of memory in blocks of 3 (1 to write), 2 accesses, 1 change by the controller, 2 USB buses; 2 telnet clients, `uint16_t` of 8 values; 2 serial requests; bytes of 2 values; 3 ticks with bursts of 0 or 17 bytes | transfers truthful, address settled, handles closed; adapters, monitoring chunk, end of the search; own answers; bytes and rates faithful |
| `sensors` | 5 sensor names, some in two variants, 3 groups for 2 ids, 2 entries per page, 2 telnet clients | descriptions complete and in order, group ids faithful, data where the description says, values from their own field |

Four runs show that the code disagrees with what it says:

* `daemon_signal`: a signal caught between `Daemon.cpp:385` and `:386` is
  announced ("Terminate signal catched, shutting down...") and then forgotten.
* `tcp_reset`: a reconnect while the last page is written is "resetting the state
  machine", and the loop then turns to data: the new connection gets no
  description. Other moments in the description phase skip the basic block or
  pages. `ConnectionInOrder` therefore excepts connections marked `skewed`.
* `tcp_packet`: of two packets received together the second is not handled
  until further bytes arrive.
* `sensors_telnet`: `addsensors` never adds a sensor. The mutant of
  `DataFitsDescription` shows what the lower-casing hides: if descriptions were
  accepted, the data message would outgrow the buffer allocated by the
  constructor.

Commands that arrive in the window of `Daemon.cpp:399-474` are overwritten unread.
`Daemon` collects them in `dropped`, and no run claims that there are none: no
document says so, and a controller that looks again can send them again.
`CommandsAccountedFor` says that there is no other way to lose one, except for
one per failed bus access.

No run checks for deadlock: the daemon may stop, and does so in every instance
with a signal or a limited number of loops; the other models end with their
bounds.

### Bounds

Two pages are a first, a last and a turn of pages in between; one reset can fall
between any two steps, and two faults let one hide the effect of the other. With
two genuine commands one can come while the loop handles the other; commands
that are forged or for another node are in the runs without faults. Two broken connections let the
second break while the first is being recovered from. With 2 entries per page
and up to 5 sensors a description has one to three pages, with full and partial
last pages; 2 group ids for 3 groups exhaust them (255 in the code); two telnet
clients let one add sensors while the other resets. Counters
in the models (`MaxFaults`, `MaxResets`, `MaxBreaks`, `MaxRefused`, `MaxManual`,
`MaxProviders`) are bounded in the guards; the theorems hold for every bound.

`config`: two changes let the second overwrite the first before, between and
after saves; the second start reads what the first left. `lifecycle`: the
directories have, between them, every kind of entry, a type registered twice, a
failing plugin, a wild card, and an object for each role; the headers include a
version before 3, no slots, an area behind the end of the memory and a segment
that is too small. `devices`: blocks of 1 byte make every write of more than
that a sequence of blocks, the change by the controller falls before, between or
after them, and a second access finds what the first one left; with offsets modulo 8 and chunk lengths up to 5 a
search can wrap; 4 ignored bytes (20 in the code) are more than the echo has, and
texts of 1 and 3 bytes end before and behind them; a byte of 2 values lets numbers
exceed one and two bytes; a burst of 17 bytes in one tick is too much for a
`uint32_t` of 4 such bytes, and 3 ticks let traffic fall before, between and after the
reads of two updates. A device on 2 USB buses is the case in which a handle is
forgotten.

### Fairness

The main thread is weakly fair: it only ever waits for the bus (bounded by the
device) and for `usleep` (bounded by `MAX_UPDATEINTERVAL`). A telnet thread
inside `resetStatemachine` finishes it. The controller polls the segment, which
the loop relies on when it waits for a page to be picked up
(`Daemon.cpp:448-450`). Nothing is assumed of commands, signals, resets or
connections.

In `Lifecycle` the main thread's steps of startup and tear-down and the steps of
the server's thread are weakly fair: the scheduler runs them, and `accept`
returns once its socket is shut down. Neither the end of the main loop nor
anything a client does is assumed. In `Devices` a telnet client's thread that is
in a call goes on with it; each step is one `doRead`.

## Proofs

`Daemon_proofs` holds, for every set of commands, number of pages up to 254,
and bound on faults and resets:

* `TypeCorrect`: `TypeOK`, which includes that `mCurrentPage` is in
  `1..MaxPages` except at the test that follows its increment.
* `ExecutionsArePaidFor`: from `ExecutionInv`. A
  command is *armed* when the next handling of the segment would execute it; an
  armed command has an execution in hand (`execs[c] <= faults`). Without this
  the bound is not inductive: nothing would keep a command that was executed
  from being found again.
* `CommandsAreAccountedFor`: from `AccountInv`. The loop is *astray* when it is
  about to clear the segment for another command than the one it handled; only
  a failed access leads there, and the command that may disappear by it is
  counted beforehand (`Cardinality(Vanished) + Straying <= faults`).
* `UnreadLossIsBounded`: from `LossInv`. A message is *exposed* when the loop
  will overwrite it; exposed messages and resets that are under way are
  counted against the resets and faults so far.
* `DeliveryIsInOrder`, `ImplementsPublication`: from `OrderInv`, which says
  that the items known or waiting in the segment are exactly those before the
  next one, and that the loop's local decisions agree with `mState`. It uses
  `LossInv` to know that no unread message is exposed as long as nothing failed
  and nobody reset.

The assumptions are those of `Daemon`: `NoCommand` is not a command, sizes are
numbers, `MaxPages` is in `1..254` (with 255 pages `mCurrentPage` wraps and the
description never ends). `ImplementsPublication` also assumes that there are no
faults and no resets.

`Paging_proofs.PagesTile`: for every segment size up to 65535 in which at least
one description fits, and every number of sensors up to 255 pages, the pages
cover every sensor exactly once, in order, and each page fits into the segment.
The argument is that of division with remainder: the number of pages is the
quotient, or one more when there is a remainder, and no product leaves its
`uint16_t`.

`SensorSet_proofs`, for every set of sensors and of JSON descriptions of any
length, every buffer and every number of group ids up to 255, from `SensorInv`:

* `RowsInv`, `PageInv` and `TableInv`: the table is what the map says of its first
  sensors; it ends with the page that was counted last, or described and not yet
  counted; and a reset of `mCurrentPage` starts it over. This is kept by both
  assignments of a reset between any two steps of the loop, except between the
  description of a page and its count, which makes the description `skewed`. The step from page to page is
  `PagesTile`; that the order has every name at one place is `Sorted`'s part,
  by counting the names before each one.
* `IsIds`: the groups known have the ids from 1 on, each once. With it a line
  that was true of the ids when it was written (`Says`) is true of all that are
  handed out later (`Keeps`), which is why `GroupIdsAreFaithful` holds across pages
  and descriptions. For id 0 the invariant has to remember why it was given.
* `PhaseInv` and `MessageInv`: while the daemon runs, `mSize` is the size of the
  map and a message is laid out in its order, for which the map must not change
  any more. The only step that could change it is `addsensors`, and the parser
  gets nothing from entries that are all invalid.
* `ParsersInv` and `ValuesInv`: the sensor at place `k` of a parser has field `k`
  unless it is shifted, so taking the `k`-th field is taking one's own.

The theorems are `DescriptionIsComplete`, `GroupIdsAreFaithful`,
`DataFitsTheDescription` and `ValuesAreFromOwnField`; `EverySensorDescribedOnce`,
which says of the shared order that it misses and repeats no sensor; and the
action property `ToldIsKept`: no step of the running daemon changes a sensor or a
group id. The assumptions are `SensorAssumption` (finitely many names, with room
in 254 pages) and that of `Paging`, that one description fits into the buffer.

`DaemonTCP_proofs`, for every number of broken and refused connections:

* `TcpTypeCorrect`: `TcpTypeOK`.
* `ConnectionIsInOrder`, from `ConnectionInv`: as long as a connection is up and
  was not made in the middle of a write, the loop is *on track*, that is, what
  the controller has or is being sent is exactly what comes before the next
  item. Once the connection is broken the loop goes on alone, and only the
  prefix that arrived is claimed.
* `TcpExecutionsArePaidFor`, from `TcpExecutionInv`: a command that is still in the stream (receive buffer and
  socket in one) or in the message area was not executed, and is there once. The
  main steps are about what is left of the stream after the first packet is
  taken from it (`LeftOf`), however its bytes were split.

`Config_proofs`, for every set of files of any length, every set of settings,
strings and numbers, and every number of starts and changes. The inductive
invariant `ConfigInv` consists of

* `WellFormed`: the list has unique sections and keys and only texts of
  `SettingTexts`, the file has only lines of the kinds the parser knows, and
  `onDisk` is what loading it would give;
* `Flags`, `Unchanged`: when the list is not marked as changed and no write was
  lost, memory and file hold the same settings, so that the save that `shutdown`
  leaves out would have changed nothing;
* `SetAndSaved`: the values set since the start, and those saved before, are in
  the list and in the file, as the text that the setter makes of them;
* `NoInstance`, `ListenerInv`: an instance that is gone has no list, and
  listeners have seen the settings.

From it follow `ListWellFormed`, `ListenersAreCurrent`, `ValuesReadBack` (with
the conversions: what `GetInt` reads of the text of `SetInt` and so on) and
`ConfigImplementsStore`, the refinement of `Store` step by step (`StoreStep`).
The work is in two facts about printer and parser. `RoundTrip`: loading the lines
printed for a list gives a list with the same settings, by induction over the
sections and, within one, over the records. `CutLoaded`: loading a prefix of
these lines, the last of them perhaps cut, gives settings that were in the list,
since a line never removes a setting (`LoadMonotonic`), which covers a full disk as
well as a crash, and a cut line is malformed,
or names the same setting (`CutLineLoaded`). The assumptions are
`ConfigAssumption` (doubles are given with seven significant digits) and
`FilesAssumption`: a setting has a section with a name. The code needs the
second: it prints a section without a name, but the parser then takes its
records for records without a section and stops.

`Lifecycle_proofs`:

* `SegmentsNeverOverlap`: for every header with values of its types whose area
  starts inside the memory. The share of a slot is a quotient, so that the shares
  of all slots together fit (`Shares`), and the end of a slot is the start of the
  next one at most (`LaterShare`); `SizeFits` says that the subtraction does not
  wrap then.
* `SegmentIsSafe`: the invariant `HeaderInv` is that `hdr` is a header
  whose size is below `SizeLimit`.
* `EverythingIsReleasedOnce`, `CodeIsLoadedWhileUsed`, `ServerIsOutlived`,
  `RegistrationsStay`, `LifecycleTypeCorrect`, for every set of plugin
  directories, configurations, headers and clients, from `RunInv` (and
  `DataInv` for the types). The first two except the objects that the sensor set
  gave up, which stay until the process ends, after their library is closed.
  `ServerIsOutlived` is about the thread that accepts connections, not about the
  detached threads of the clients, and excepts a `stop` that comes before that
  thread has reached `Run` (`late`). `ManagerInv`: a library is open exactly while it
  is in the map, every registration came from a library in the map, and the
  stored exit functions belong to different libraries. `RolesInv`: which objects
  exist at each place of `Daemon::run`, and during the release that `todo` names
  exactly the objects that exist, each once, loggers and configuration after the
  libraries and nothing else after them (`InOrder`). `CodeInv`: what exists has its code in the map, and the libraries
  are closed only when nothing of theirs is left. `ServerInv`: unless `stop`
  came too early, server and socket exist as long as the thread does, and a
  thread that was told to stop is waited for before they go.
* `RegistrationsStay` is the action property: no step replaces a registration
  by another one, except for the shutdown that removes them all.

Their assumptions: `SetupsAssumption` and `LifecycleAssumption`, that
directories hold entries, configurations and headers are values of their types,
and the size of the memory is a `uint16_t`.

`Devices_proofs`, with the fairness of `Spec` not used:

* `MonitoringDataFound`, from `SearchInv`: every client in a search is at an
  offset, and the remembered offset, unless it is stray, is 0 or lies behind the
  header of a chunk known to be a monitoring chunk. The second part is needed
  since one client reads what another has found; the first because the offset is
  taken from the position of the search.
* `AdaptersToldApart`, from `AdaptersChosen`: the two choices are made from
  disjoint sets of adapters, by cases on the number of Christmann adapters.
* `HandlesAreClosed` and `AddressIsSettled`, from `BusInv`: the open handles are
  counted by the state of `mHandle` (`Counted`), and a probe directly follows the
  opening of the interface, so its result is still that of `init` (`Probing`).
  `AddressIsSettled` is about probes of which no `ioctl` fails and no byte comes
  from a bus without an answer; after those (`lost`) the address may be any of the
  three.
* `TransfersAreTruthful`, from `TransferInv`: in the middle of a call
  (`InProgress`) the bytes so far were in the memory at some moment of the call
  (`TakenUpTo`), or have arrived unless the controller has written over them
  (`ArrivedUpTo`), and bytes outside of the range are kept (`OutsideKept`).
  For any size of memory and of blocks, and unless the result is `Unconfirmed`.
* `AnswersAreOwn` and `AnswersAreOfTheKind`, from `SerialInv`: what is on the way
  from the module is a stream of answers (`AnswerStream`) of which the first may
  have lost its beginning, and while none came late it is the answer to the
  request in progress (`Exchange`), whatever its length and however it is
  split. That a text is of one kind throughout is an induction over its bytes.
* `ReadingsAreFaithful`, from `ReadingInv`: the sensor is one of those the
  plugins make, and its bytes give back what `Expected` says of what was
  measured, of the quantity that `Shown` names. The digits that `setInteger` copies are read one after the other
  (`NumberRun`): a digit more is a division less, so `n` digits are the number
  modulo the `n`-th power (`DigitsRead`, `DigitKept`). For links, the longest list
  is that of a link with one lane down: seven of eight. Values that are `Garbled`
  are excepted.
* `RatesAreFaithful`, from `RatesInv`: the moments at which a counter was looked at
  are in the order of its values (`InOrder`), so that what two reads differ by is
  at least what was moved between the updates and at most what was moved in all;
  `QuotientIs` and `RateIsBounded` carry this through the division. An update
  that ends half-way changes no last value, which is why no byte is counted twice
  or left out. Since the last update, the processor worked no more than all of the
  time that passed.

Their assumptions are those of the modules: lengths, offsets and headers have
values of their types, a byte has at least 2 values and a link at most 8 lanes, `size_t` has more values than `uint16_t`, a block of the
Adlink library has room for an offset and data.

Inductions over data (the lines of a file, the records of a section, the bytes
of an answer) are done on sets of numbers: `NaturalFacts.SetInduction` takes the
set of positions at which a statement holds, and `RecursionExists` gives the
values of a recursive function one after the other.

Only model-checked are the liveness properties (`EventuallyPublished`,
`StopsOnRequest`, `LimitedRunEnds`, `EventuallyComplete`, `TearDownEnds`,
`ChunkSearchEnds`): the prover has no rules for fairness and `ENABLED`. Every
invariant, every action property and both refinements that a passing run
checks are also proved.

## Not modelled

* Sockets, GPIO (`LinuxSlotDetectorGPIO`), file and device access, OpenSSL
  (`Signature.cpp`), the queries for network adapters: I/O. Their results are
  nondeterministic outcomes of an action.
* The JSON library (`json.cpp`, `json.h`): third-party code; `SensorSet` sees
  parsed entries.
* The adapters and factories between the C and the C++ object model, logging,
  the interfaces in `include/`: forwarding calls and declarations, without
  state.
* The fixed buffers of `ini_manage.cpp`, the formatting of the basic information
  block and of the monitoring data, units and thresholds of sensors: data that no
  decision depends on.
* Unsynchronised access to a container by two threads (`SensorSet.cpp:126`):
  undefined behaviour of the library, beyond the steps of this code.
* `LinuxSensorIP` and `SensorDummy`: a text that is fixed at configuration.

What could be added next: the answer of the controller to commands that were
overwritten unread (`dropped`), should its protocol come to say what it expects
there, and the sockets' client side (`NetworkClient.cpp`) as a component of its own
below `DaemonTCP`.
