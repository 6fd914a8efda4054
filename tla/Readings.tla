------------------------------- MODULE Readings -------------------------------
(***************************************************************************)
(* The sensors of the plugins: what they measure, and how a measurement    *)
(* becomes the bytes of a data message (SensorBean.h, the plugins'         *)
(* SensorProvider* and Sensor* classes, JSONSensorsParser::updateSensors). *)
(*                                                                         *)
(* One sensor is looked at in a behaviour.  A byte has ByteValues values;  *)
(* a text is known by its length.                                          *)
(***************************************************************************)
EXTENDS Integers, Sequences, FiniteSets

CONSTANTS
    ByteValues,    \* number of values of a byte
    Quantities,    \* what there is to measure
    Lanes,         \* lanes of an Aurora link (8)
    Updates,       \* bound on the updates of a sensor
    Bursts,        \* numbers of bytes that an interface moves at a time
    Ticks          \* bound on the clock of the rates

ASSUME ReadingsAssumption ==
    /\ ByteValues \in Nat /\ ByteValues > 1
    /\ Quantities \subseteq Nat /\ Lanes \in 0..8
    /\ Updates \in Nat /\ Bursts \subseteq Nat /\ Ticks \in Nat

VARIABLES
    bean,       \* the sensor
    mData,      \* its bytes
    measured,   \* the last measurement that was taken over, and by which call
    mLast,      \* counters and time at the last update of the rates
    sample,     \* the counters that the update in progress has read
    counters,   \* the counters and the clock of the system
    span,       \* the counters before and after the last update
    rates,      \* the rates shown
    reported    \* all that was shown since the first update

readingVars == <<bean, mData, measured>>
rateVars == <<mLast, sample, counters, span, rates, reported>>

-----------------------------------------------------------------------------
(* Bytes: <<what, value, position>>.                                       *)

\* The number of values that k bytes have.
Power[k \in 0..8] == IF k = 0 THEN 1 ELSE Power[k - 1] * ByteValues

Stray == <<"stray", 0, 0>>                \* read beyond a variable
Digit(value, n, i) ==                     \* byte i of n, the highest first
    <<"int", (value \div Power[n - i]) % ByteValues, 0>>
Char(length, i) == IF i <= length THEN <<"char", length, i>>
                   ELSE <<"end", 0, 0>>

\* Fault: the first bytes are copied instead of the last ones.
setInteger_First(width, value, size) ==
    [i \in 1..size |-> IF i <= width THEN Digit(value, width, i) ELSE Stray]

\* setData(uint32_t) and setData(uint64_t): the last size bytes.
setInteger(width, value, size) ==
    [i \in 1..size |-> IF i > size - width
                       THEN Digit(value, width, i + width - size) ELSE Stray]

setUint32(value, size) == setInteger(4, value % Power[4], size)
setUint64(value, size) == setInteger(8, value % Power[8], size)

setDouble(value, size) ==
    [i \in 1..size |-> IF i <= 8 THEN <<"real", value, i>> ELSE Stray]

\* At most size bytes of the text and its end marker.
setString(length, size, old) ==
    [i \in 1..size |-> IF i <= length + 1 THEN Char(length, i) ELSE old[i]]

-----------------------------------------------------------------------------
(* The update callbacks: how a measurement is read and which setData it is *)
(* given to.  A number beyond uint16_t is read as the largest one.         *)

Saturated(q) == IF q < Power[2] THEN q ELSE Power[2] - 1

Milli(quantity) == [reads |-> quantity, as |-> "double"]
Whole(quantity, as) == [reads |-> quantity, as |-> as]

updatePowerCpu == Milli("Power CPU")
updatePowerGpu == Milli("Power GPU")
updatePowerSoC == Milli("Power SoC")
updatePowerCv == Milli("Power CV")
updatePowerDDR == Milli("Power DDR")
updatePowerSys5V == Milli("Power SYS5V")
updateTempSoC == Milli("Temp SoC")
updateMemoryFree == Whole("Memory free", "uint64")
updateDiskFree == Whole("System disk free", "uint64")
updateLink == Whole("Aurora link", "link")
updateUtilization == Whole("Aurora util.", "uint32")
updateFrameErr == Whole("Aurora frame err.", "uint32")
updateSoftErr == Whole("Aurora soft err.", "uint32")
updateLinkStatus == Whole("link", "status")

Bean(name, dataType, maxDataSize, callback) ==
    [name |-> name, type |-> dataType, size |-> maxDataSize,
     update |-> callback]

SensorProviderJetson ==
    {Bean("Power CPU", "FLOAT", 8, updatePowerCpu),
     Bean("Power GPU", "FLOAT", 8, updatePowerGpu),
     Bean("Power SoC", "FLOAT", 8, updatePowerSoC),
     Bean("Power CV", "FLOAT", 8, updatePowerCv),
     Bean("Power DDR", "FLOAT", 8, updatePowerSoC),
     Bean("Power SYS5V", "FLOAT", 8, updatePowerSys5V),
     Bean("Temp SoC", "FLOAT", 8, updateTempSoC)}

SensorProviderSystem ==
    {Bean("Memory free", "U64", 8, updateMemoryFree),
     Bean("System disk free", "U64", 8, updateDiskFree)}

SensorProviderZynq ==
    {Bean("Aurora link", "STR", 82, updateLink),
     Bean("Aurora util.", "U8", 1, updateUtilization),
     Bean("Aurora frame err.", "U32", 4, updateFrameErr),
     Bean("Aurora soft err.", "U32", 4, updateSoftErr),
     Bean("Aurora bandw.", "U32", 1, Whole("Aurora bandw.", "none"))}

LinuxSensorProviderEth == {Bean("link", "STR", 6 + 8, updateLinkStatus)}

\* The types of SensorFileReader::configure and its getMaxDataSize.
SensorFileReader ==
    {Bean("file", t[1], t[2], Whole("file", "file")) :
        t \in {<<"U8", 1>>, <<"U16", 2>>, <<"FLOAT", 8>>}}

\* The types of a JSON description; the value decides which setData is used.
JSONSensors ==
    {Bean("json", t[1], t[2], Whole("json", "json")) :
        t \in {<<"U8", 1>>, <<"U16", 2>>, <<"U32", 4>>, <<"U64", 8>>,
               <<"FLOAT", 8>>, <<"STR", 4>>}}

Beans == SensorProviderJetson \cup SensorProviderSystem \cup SensorProviderZynq
             \cup LinuxSensorProviderEth \cup SensorFileReader \cup JSONSensors

-----------------------------------------------------------------------------
(* Updates.                                                                *)

Never == [by |-> "none", of |-> "nothing", value |-> 0, updates |-> 0]

\* What mData holds at first: malloc, and for most sensors setData(0).
Fresh(b) ==
    CASE b.update.as \in {"json", "file", "none"} -> [i \in 1..b.size |-> Stray]
      [] b.update.as = "uint64" -> setUint64(0, b.size)
      [] OTHER -> setUint32(0, b.size)

Took(by, value, bytes) ==
    /\ measured.updates < Updates
    /\ mData' = bytes
    /\ measured' = [by |-> by, of |-> bean.update.reads, value |-> value,
                    updates |-> measured.updates + 1]
    /\ UNCHANGED <<bean, rateVars>>

\* A file with an empty line leaves the number uninitialised.
UpdateDouble ==
    /\ bean.update.as = "double"
    /\ \E q \in Quantities :
          \/ Took("double", q, setDouble(Saturated(q), bean.size))
          \/ Took("none", 0, setDouble(Saturated(q), bean.size))

UpdateInteger ==
    /\ bean.update.as \in {"uint32", "uint64"}
    /\ \E q \in Quantities :
          Took(bean.update.as, q,
               IF bean.update.as = "uint32" THEN setUint32(q, bean.size)
               ELSE setUint64(q, bean.size))

\* The Aurora bandwidth is computed once, by the constructor.
SetBandwidth ==
    /\ bean.name = "Aurora bandw."
    /\ \E q \in Quantities : Took("uint64", q, setUint64(q, bean.size))

\* n numbers of one digit and the separators between them
ListLength(n) == IF n = 0 THEN 0 ELSE n + 2 * (n - 1)

\* The length of updateLink's text in front of the status in hexadecimal.
LinkText(up, avail, lanes, hardErr, notLocked) ==
    (CASE up -> 10
       [] ~up /\ lanes = avail -> 27
       [] ~up /\ lanes # avail /\ lanes = {} -> 29
       [] OTHER -> 20 + ListLength(Cardinality(avail \cap lanes)) + 4)
    + (IF hardErr THEN 9 ELSE 0) + (IF notLocked THEN 16 ELSE 0)

LinkTexts ==
    LET front == {LinkText(up, avail, lanes, hardErr, notLocked) :
                     avail, lanes \in SUBSET (1..Lanes),
                     up, hardErr, notLocked \in BOOLEAN}
    IN  {text + 5 + digits : text \in front, digits \in 1..8}

UpdateLink ==
    /\ bean.update.as = "link"
    /\ \E text \in LinkTexts :
          Took("string", text, setString(text, bean.size, mData))

\* "Unknown", "Down", or the speed with up to six digits and " MBit/s"
UpdateLinkStatus ==
    /\ bean.update.as = "status"
    /\ \E text \in {7, 4} \cup {n + 7 : n \in 1..6} :
          Took("string", text, setString(text, bean.size, mData))

\* SensorFileReader::getData: a byte is what is left of an int; without a
\* number of the right kind the data message shows zeros.
ReadFile ==
    /\ bean.update.as = "file"
    /\ \/ \E q \in Quantities :
             \/ /\ bean.type = "U8"
                /\ Took("byte", q, setUint32(q, bean.size))
             \/ /\ bean.type = "U16" /\ q < Power[2]
                /\ Took("word", q, setUint32(q, bean.size))
             \/ /\ bean.type = "FLOAT"
                /\ Took("double", q, setDouble(q, bean.size))
       \/ Took("none", 0, setInteger(bean.size, 0, bean.size))

\* JSONSensorsParser::updateSensors; a text for a number changes nothing.
UpdateJSON ==
    /\ bean.update.as = "json"
    /\ \E q \in Quantities :
          IF bean.type = "STR"
          THEN Took("string", q, setString(q, bean.size, mData))
          ELSE \/ Took("double", q, setDouble(q, bean.size))
               \/ Took("uint32", q, setUint32(q, bean.size))

\* A file, an address or a value that cannot be read.
UpdateFails ==
    /\ bean.update.as \notin {"none", "file", "status"}
    /\ UNCHANGED <<readingVars, rateVars>>

-----------------------------------------------------------------------------
(* Rates over an interval: LinuxSensorProviderEth::updateUtilization (rx   *)
(* and tx of an interface) and updateCpuUtilization (work and total time). *)
(* updateUtilization reads rx, then tx, then the clock; meanwhile time     *)
(* passes and bytes are moved.  The counters of an interface only grow.    *)

Zero == [time |-> 0, rx |-> 0, tx |-> 0, work |-> 0, total |-> 0]
NoRate == [value |-> 0, interval |-> 0, least |-> 0, most |-> 0]
NoSample == [stage |-> "none", rx |-> 0, tx |-> 0, began |-> Zero]

\* External: time passes, bytes are moved, the processor works or idles.
Tick ==
    /\ counters.time < Ticks
    /\ \E rx, tx \in Bursts, work \in 0..1 :
          counters' = [time |-> counters.time + 1, rx |-> counters.rx + rx,
                       tx |-> counters.tx + tx, work |-> counters.work + work,
                       total |-> counters.total + 1]
    /\ UNCHANGED <<readingVars, mLast, sample, span, rates, reported>>

\* Fault: lastCountRx is taken over as soon as it is read.
ReadRx_Early ==
    /\ sample.stage = "none"
    /\ sample' = [stage |-> "rx", rx |-> counters.rx, tx |-> 0,
                  began |-> counters]
    /\ mLast' = [mLast EXCEPT !.rx = counters.rx]
    /\ UNCHANGED <<readingVars, counters, span, rates, reported>>

ReadRx ==
    /\ sample.stage = "none"
    /\ sample' = [stage |-> "rx", rx |-> counters.rx, tx |-> 0,
                  began |-> counters]
    /\ UNCHANGED <<readingVars, mLast, counters, span, rates, reported>>

ReadTx ==
    /\ sample.stage = "rx"
    /\ sample' = [sample EXCEPT !.stage = "tx", !.tx = counters.tx]
    /\ UNCHANGED <<readingVars, mLast, counters, span, rates, reported>>

\* A counter that cannot be read ends the update with nothing changed.
ReadFails ==
    /\ sample.stage \in {"none", "rx"}
    /\ sample' = NoSample
    /\ UNCHANGED <<readingVars, mLast, counters, span, rates, reported>>

\* The end of an update.
TakeOver ==
    /\ mLast' = [mLast EXCEPT !.time = counters.time, !.rx = sample.rx,
                              !.tx = sample.tx]
    /\ span' = [before |-> sample.began, after |-> counters]
    /\ sample' = NoSample
    /\ UNCHANGED <<readingVars, counters>>

\* On the first update only the time and the values are taken over; a clock
\* that still shows 0 makes the next update the first one.
EthFirst ==
    /\ sample.stage = "tx" /\ mLast.time = 0
    /\ TakeOver
    /\ reported' = [rx |-> sample.rx, tx |-> sample.tx]
    /\ UNCHANGED rates

\* A quotient that is not a number, or too large for a uint32_t, is converted
\* to any number.
Undefined == -1
Quotient(count, interval) ==
    IF interval > 0 /\ count \div interval < Power[4] THEN count \div interval
    ELSE Undefined

\* The rate shown.  least counts what was moved between the two updates, most
\* what was moved from the start of the last one to the end of this one.
Rate(field) ==
    LET interval == counters.time - mLast.time IN
    [value |-> Quotient(sample[field] - mLast[field], interval),
     interval |-> interval,
     least |-> sample.began[field] - span.after[field],
     most |-> counters[field] - span.before[field]]

\* The receiver's sensor updates both.
UpdateRates ==
    /\ sample.stage = "tx" /\ mLast.time # 0
    /\ TakeOver
    /\ rates' = [rates EXCEPT !.rx = Rate("rx"), !.tx = Rate("tx")]
    /\ reported' = [rx |-> reported.rx + (sample.rx - mLast.rx),
                    tx |-> reported.tx + (sample.tx - mLast.tx)]

\* The first update shows nothing; 0 is "not yet".  With no time between two
\* updates the quotient is not a number.
UpdateCpuUtilization ==
    /\ sample.stage = "none"
    /\ mLast' = [mLast EXCEPT !.total = counters.total, !.work = counters.work]
    /\ rates' = IF mLast.total = 0 THEN rates
                ELSE [rates EXCEPT !.work = counters.work - mLast.work,
                                   !.total = counters.total - mLast.total]
    /\ UNCHANGED <<readingVars, sample, counters, span, reported>>

-----------------------------------------------------------------------------
ReadingsInit ==
    /\ bean \in Beans
    /\ mData = Fresh(bean) /\ measured = Never
    /\ mLast = Zero /\ sample = NoSample /\ counters = Zero
    /\ span = [before |-> Zero, after |-> Zero]
    /\ rates = [rx |-> NoRate, tx |-> NoRate, work |-> 0, total |-> 0]
    /\ reported = [rx |-> 0, tx |-> 0]

ReadingsNext ==
    \/ UpdateDouble \/ UpdateInteger \/ SetBandwidth \/ UpdateLink
    \/ UpdateLinkStatus \/ ReadFile \/ UpdateJSON \/ UpdateFails

RatesNext ==
    \/ Tick \/ ReadRx \/ ReadTx \/ ReadFails
    \/ EthFirst \/ UpdateRates \/ UpdateCpuUtilization

-----------------------------------------------------------------------------
(* Properties.                                                             *)

\* The number that bytes stand for, the highest byte first.
Number(bytes) ==
    LET upTo[i \in 0..Len(bytes)] ==
            IF i = 0 THEN 0 ELSE upTo[i - 1] * ByteValues + bytes[i][2]
    IN  upTo[Len(bytes)]

\* The controller, which knows type and size, takes the bytes for v.
Reads(b, bytes, v) ==
    CASE b.type = "FLOAT" -> bytes = [i \in 1..8 |-> <<"real", v, i>>]
      [] b.type = "STR" -> /\ v < Len(bytes)
                           /\ \A i \in 1..(v + 1) : bytes[i] = Char(v, i)
      [] OTHER -> /\ \A i \in 1..Len(bytes) : bytes[i][1] = "int"
                  /\ Number(bytes) = v

(***************************************************************************)
(* What should be read: a number of milliwatts of Jetson up to the largest *)
(* uint16_t, and of an integer what the sensor has bytes for, which leaves *)
(* one byte of the Aurora bandwidth.                                       *)
(***************************************************************************)
Expected(b, m) ==
    CASE b.type = "FLOAT" -> IF b.update.as = "double" THEN Saturated(m.value)
                             ELSE m.value
      [] b.type = "STR" -> m.value
      [] OTHER -> m.value % Power[b.size]

\* A sensor shows the quantity it is named after, except that "Power DDR" has
\* the callback of the SoC (SensorProviderJetson.cpp:88).
Shown(b) == IF b.name = "Power DDR" THEN "Power SoC" ELSE b.name

(***************************************************************************)
(* JSON values that make no sense of a sensor's bytes: another kind of     *)
(* value than a double for a FLOAT, a double for an integer, an integer    *)
(* for a sensor of eight bytes (four of which are read from beyond the     *)
(* variable), and a text without room for its end.                         *)
(***************************************************************************)
Garbled(b, m) ==
    /\ b.name = "json"
    /\ CASE b.type = "FLOAT" -> m.by # "double"
         [] b.type = "STR" -> m.value >= b.size
         [] OTHER -> m.by = "double" \/ b.size > 4

(***************************************************************************)
(* Whatever bytes were there before, the controller reads from the data    *)
(* message the value that a callback, the constructor of SensorProviderZynq*)
(* or the JSON data last gave to the sensor, cut to what Expected says,    *)
(* unless the JSON value garbled it, and the value is of the quantity that *)
(* Shown names.  The texts of the link sensors always have room for their  *)
(* end.                                                                    *)
(***************************************************************************)
ReadingFaithful ==
    measured.by # "none" =>
        /\ measured.of = Shown(bean)
        /\ ~Garbled(bean, measured) =>
              Reads(bean, mData, Expected(bean, measured))

\* The rate lies between what was moved while no update was in progress, and
\* what was moved in all; it is lost only when that is too large.
RateBounded(r) ==
    r.interval > 0 =>
        IF r.value = Undefined THEN r.most >= Power[4] * r.interval
        ELSE /\ r.value * r.interval <= r.most
             /\ r.least < (r.value + 1) * r.interval

(***************************************************************************)
(* Although rx, tx and the clock are read one after the other, the rates   *)
(* of an interface are right up to what is moved during the updates, and   *)
(* no byte is counted twice or left out by successive updates, also when   *)
(* one ends half-way.  The processor never works more than all of the time.*)
(***************************************************************************)
RatesFaithful ==
    /\ RateBounded(rates.rx) /\ RateBounded(rates.tx)
    /\ reported.rx = mLast.rx /\ reported.tx = mLast.tx
    /\ rates.work <= rates.total
=============================================================================
