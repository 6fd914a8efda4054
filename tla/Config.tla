-------------------------------- MODULE Config --------------------------------
(***************************************************************************)
(* daemon/src/Config.cpp: the configuration singleton on top of ini_manage.*)
(* The daemon reads it; plugins get it through the service getConfig and   *)
(* may change it.  The program can stop (Config::shutdown), be started     *)
(* again, and crash, also while the file is being written.                 *)
(***************************************************************************)
EXTENDS IniManage, Maps

CONSTANTS
    Files,        \* contents the file can have before the first start
    Settings,     \* <<section, key>> that plugins change
    Strings, Ints, Doubles,  \* values that they are given
    Listeners,    \* objects that register for changes
    MaxStarts,    \* bound on the number of starts
    MaxChanges    \* bound on the number of values that are set

(***************************************************************************)
(* A number is given in units of its seventh significant digit: the stream *)
(* prints six of them.                                                     *)
(***************************************************************************)
LeastDouble == 1000000
GreatestDouble == 9999994  \* above it, rounding would give one digit more

ASSUME ConfigAssumption ==
    /\ Ints \subseteq Int /\ Doubles \subseteq LeastDouble..GreatestDouble
    /\ MaxStarts \in Nat \ {0} /\ MaxChanges \in Nat

VARIABLES
    mInstance,    \* there is an instance
    ini_content,  \* its sections
    mNoSaveMode, mConfigChanged,
    mListeners, mDisableChangeListeners, \* listeners are told in any order
    file,         \* conf/recsdaemon.ini
    starts, changes, \* numbers of starts and of changes so far
    asked, kept,  \* history: typed values set, and those saved with the file
    seen, missed, \* history: settings a listener last read; an unheard change
    lossy,        \* history: the last write failed, or the process died
    onDisk        \* history: the settings that a start would read

vars == <<mInstance, ini_content, mNoSaveMode, mConfigChanged, mListeners,
          mDisableChangeListeners, file, starts, changes, asked, kept, seen,
          missed, lossy, onDisk>>
listenerVars == <<mListeners, mDisableChangeListeners, seen, missed>>

-----------------------------------------------------------------------------
(* Conversions between values and texts.                                   *)

BooleanText(b) == IF b THEN <<"true">> ELSE <<"false">>
StringText(s) == IF s = "" THEN NoText ELSE <<"string", s>>
IntText(n) == <<"number", 1000000 * n>>
\* Fault: three digits are printed.
DoubleText_Short(d) == <<"number", 10000 * ((d + 5000) \div 10000)>>

DoubleText(d) == <<"number", 10 * ((d + 5) \div 10)>>

\* All the texts that can occur, in the file at the first start too.
SettingTexts ==
    {NoText, <<"true">>, <<"wahr">>, <<"false">>, <<"cut">>} \cup
    {<<"string", v>> : v \in Strings} \cup
    {IntText(n) : n \in Ints} \cup {DoubleText(d) : d \in Doubles}

(***************************************************************************)
(* A record in a section without a name would be printed, but not read     *)
(* again (the parser takes it for a record without a section).             *)
(***************************************************************************)
ASSUME FilesAssumption ==
    /\ Settings \subseteq (STRING \ {""}) \X STRING
    /\ Strings \subseteq STRING
    /\ Files \subseteq Seq(Lines(SettingTexts))

\* "true" and "wahr" in their three spellings
IsTrue(text) == text \in {<<"true">>, <<"wahr">>}

IsNumber(text) == Len(text) = 2 /\ text[1] = "number"
AsInt(text) == IF IsNumber(text) THEN text[2] \div 1000000 ELSE 0
AsDouble(text) == IF IsNumber(text) THEN text[2] ELSE 0

GetBoolean(content, s, default) ==
    LET buffer == get_value(content, s[1], s[2])
    IN  IF buffer # NoText THEN IsTrue(buffer) ELSE default

GetString(content, s, default) ==
    LET buffer == get_value(content, s[1], s[2])
    IN  IF buffer # NoText THEN buffer ELSE default

GetInt(content, s, default) ==
    LET buffer == get_value(content, s[1], s[2])
    IN  IF buffer # NoText THEN AsInt(buffer) ELSE default

GetDouble(content, s, default) ==
    LET buffer == get_value(content, s[1], s[2])
    IN  IF buffer # NoText THEN AsDouble(buffer) ELSE default

\* The settings of a list, as a function.
SettingsOf(content) ==
    LET records == UNION {{<<content[i].name, content[i].data[j].key>> :
                              j \in DOMAIN content[i].data} :
                              i \in DOMAIN content}
    IN  [s \in records |-> get_value(content, s[1], s[2])]

-----------------------------------------------------------------------------
Init ==
    /\ file \in Files
    /\ mInstance = FALSE /\ ini_content = <<>>
    /\ mNoSaveMode = FALSE /\ mConfigChanged = FALSE
    /\ mListeners = {} /\ mDisableChangeListeners = FALSE
    /\ starts = 0 /\ changes = 0
    /\ asked = <<>> /\ kept = <<>>
    /\ seen = [l \in Listeners |-> <<>>] /\ missed = FALSE
    /\ lossy = FALSE /\ onDisk = SettingsOf(load(file).content)

\* The first GetInstance of a run: Config::Config and ini_start.
GetInstance ==
    /\ ~mInstance /\ starts < MaxStarts
    /\ starts' = starts + 1
    /\ mInstance' = TRUE
    /\ ini_content' = load(file).content
    /\ mNoSaveMode' = ~load(file).loaded
    /\ mConfigChanged' = FALSE
    /\ mListeners' = {} /\ mDisableChangeListeners' = FALSE
    /\ missed' = FALSE
    /\ asked' = kept
    /\ lossy' = FALSE
    /\ UNCHANGED <<file, changes, kept, seen, onDisk>>

\* Fault: the change is recorded only when listeners are told of it.
notifyChangeHandlers_Unmarked ==
    /\ mConfigChanged' = (mConfigChanged \/ ~mDisableChangeListeners)
    /\ missed' = mDisableChangeListeners
    /\ seen' = [l \in Listeners |->
                  IF l \in mListeners /\ ~mDisableChangeListeners
                  THEN SettingsOf(ini_content') ELSE seen[l]]

\* Fault: listeners are told before the value is set.
notifyChangeHandlers_Early ==
    /\ mConfigChanged' = TRUE
    /\ missed' = mDisableChangeListeners
    /\ seen' = [l \in Listeners |->
                  IF l \in mListeners /\ ~mDisableChangeListeners
                  THEN SettingsOf(ini_content) ELSE seen[l]]

notifyChangeHandlers ==
    /\ mConfigChanged' = TRUE
    /\ missed' = mDisableChangeListeners
    /\ seen' = IF mDisableChangeListeners THEN seen
               ELSE [l \in Listeners |->
                        IF l \in mListeners
                        THEN SettingsOf(ini_content') ELSE seen[l]]

SetText(s, text) ==
    /\ mInstance /\ changes < MaxChanges
    /\ changes' = changes + 1
    /\ ini_content' = set_value(ini_content, s[1], s[2], text)
    /\ notifyChangeHandlers
    /\ UNCHANGED <<mInstance, mNoSaveMode, mListeners,
                   mDisableChangeListeners, file, starts, kept, lossy,
                   onDisk>>

SetBoolean(s, b) ==
    /\ SetText(s, BooleanText(b))
    /\ asked' = Put(asked, s, <<"boolean", b>>)

SetString(s, v) ==
    /\ SetText(s, StringText(v))
    /\ asked' = Put(asked, s, <<"string", v>>)

SetInt(s, n) ==
    /\ SetText(s, IntText(n))
    /\ asked' = Put(asked, s, <<"int", n>>)

SetDouble(s, d) ==
    /\ SetText(s, DoubleText(d))
    /\ asked' = Put(asked, s, <<"double", d>>)

\* The file now has these lines.
Output(lines) ==
    /\ file' = lines
    /\ onDisk' = SettingsOf(load(file').content)

\* The line at which the output ends, when it is cut in two.
CutLine(line) ==
    CASE line.kind = "record"  -> {MalformedLine,
                                   RecordLine(line.key, NoText),
                                   RecordLine(line.key, <<"cut">>)}
      [] line.kind = "section" -> {MalformedLine}
      [] OTHER                 -> {line}

\* The output ends before the last line, or within a line.
PartSaved ==
    /\ LET lines == SavedLines(ini_content) IN
       \E n \in 0..(Len(lines) - 1) :
          \/ Output(SubSeq(lines, 1, n))
          \/ \E cut \in CutLine(lines[n + 1]) :
                Output(Append(SubSeq(lines, 1, n), cut))
    /\ kept' = <<>> /\ lossy' = TRUE

(***************************************************************************)
(* save: opening the file for writing can fail, and so can the output (a   *)
(* full disk) when the old lines are gone already: fprintf and fclose are  *)
(* not asked.  Nobody looks at the result of save.                         *)
(***************************************************************************)
Save ==
    \/ /\ Output(SavedLines(ini_content))
       /\ kept' = asked /\ lossy' = FALSE
    \/ /\ lossy' = TRUE
       /\ UNCHANGED <<file, kept, onDisk>>
    \/ PartSaved

saveConfig ==
    /\ mInstance /\ ~mNoSaveMode
    /\ Save
    /\ mConfigChanged' = FALSE
    /\ UNCHANGED <<mInstance, ini_content, mNoSaveMode, starts, changes, asked,
                   listenerVars>>

\* What is left when there is no instance.
Gone ==
    /\ mInstance' = FALSE /\ ini_content' = <<>>
    /\ mNoSaveMode' = FALSE /\ mConfigChanged' = FALSE
    /\ mListeners' = {} /\ mDisableChangeListeners' = FALSE
    /\ asked' = <<>> /\ missed' = FALSE
    /\ seen' = [l \in Listeners |-> <<>>]
    /\ UNCHANGED <<starts, changes>>

\* shutdown and Config::~Config; ini_end saves and frees the list.
shutdown ==
    /\ mInstance
    /\ IF mConfigChanged /\ ~mNoSaveMode THEN Save
       ELSE UNCHANGED <<file, kept, lossy, onDisk>>
    /\ Gone

registerConfigChangeHandler(l) ==
    /\ mInstance
    /\ mListeners' = mListeners \cup {l}
    /\ seen' = [seen EXCEPT ![l] = SettingsOf(ini_content)]
    /\ UNCHANGED <<mInstance, ini_content, mNoSaveMode, mConfigChanged, file,
                   mDisableChangeListeners, starts, changes, asked, kept, missed,
                   lossy, onDisk>>

removeConfigChangeHandler(l) ==
    /\ mInstance
    /\ mListeners' = mListeners \ {l}
    /\ seen' = [seen EXCEPT ![l] = <<>>]
    /\ UNCHANGED <<mInstance, ini_content, mNoSaveMode, mConfigChanged, file,
                   mDisableChangeListeners, starts, changes, asked, kept, missed,
                   lossy, onDisk>>

setDisableChangeListeners(state) ==
    /\ mInstance /\ mDisableChangeListeners # state
    /\ mDisableChangeListeners' = state
    /\ UNCHANGED <<mInstance, ini_content, mNoSaveMode, mConfigChanged, file,
                   mListeners, starts, changes, asked, kept, seen, missed,
                   lossy, onDisk>>

-----------------------------------------------------------------------------
(* The process dies.                                                       *)

Crash ==
    /\ mInstance
    /\ lossy' = TRUE
    /\ UNCHANGED <<file, kept, onDisk>>
    /\ Gone

CrashInSave ==
    /\ mInstance /\ ~mNoSaveMode
    /\ PartSaved
    /\ Gone

Next ==
    \/ GetInstance
    \/ \E s \in Settings :
          \/ \E b \in BOOLEAN : SetBoolean(s, b)
          \/ \E v \in Strings : SetString(s, v)
          \/ \E n \in Ints : SetInt(s, n)
          \/ \E d \in Doubles : SetDouble(s, d)
    \/ saveConfig \/ shutdown
    \/ \E l \in Listeners :
          registerConfigChangeHandler(l) \/ removeConfigChangeHandler(l)
    \/ \E state \in BOOLEAN : setDisableChangeListeners(state)
    \/ Crash \/ CrashInSave

Spec == Init /\ [][Next]_vars

-----------------------------------------------------------------------------
(* Properties.                                                             *)

(***************************************************************************)
(* The list behaves as a list of settings: section names are unique, and   *)
(* so are the keys of a section, whatever duplicates the file holds        *)
(* (add_section and _append), and no instance has no list.                 *)
(***************************************************************************)
ConfigTypeOK ==
    /\ mInstance \in BOOLEAN /\ mNoSaveMode \in BOOLEAN
    /\ mConfigChanged \in BOOLEAN
    /\ \A i, j \in DOMAIN ini_content :
          ini_content[i].name = ini_content[j].name => i = j
    /\ \A i \in DOMAIN ini_content :
          \A j, k \in DOMAIN ini_content[i].data :
              ini_content[i].data[j].key = ini_content[i].data[k].key => j = k
    /\ ~mInstance => ini_content = <<>> /\ mListeners = {}

\* All the settings that can occur.
SettingNames ==
    Settings \cup UNION {DOMAIN SettingsOf(load(f).content) : f \in Files}

(***************************************************************************)
(* The program implements Store: what is printed parses back to the same   *)
(* settings, nothing is lost by leaving out the save of an unchanged list, *)
(* and a file that could not be read to its end is never written.          *)
(***************************************************************************)
AbstractStore == INSTANCE Store WITH
    live  <- SettingsOf(ini_content),
    disk  <- onDisk,
    state <- IF ~mInstance THEN "stopped"
             ELSE IF mNoSaveMode THEN "readonly" ELSE "open",
    Names <- SettingNames, Texts <- SettingTexts

ImplementsStore == AbstractStore!Spec

(***************************************************************************)
(* A value is read back as the type it was set with, also after it was     *)
(* saved and loaded again: SetX then GetX, doubles to six digits.          *)
(***************************************************************************)
ReadBack ==
    \A s \in DOMAIN asked :
        LET v == asked[s][2] IN
        CASE asked[s][1] = "boolean" ->
                GetBoolean(ini_content, s, ~v) = v
          [] asked[s][1] = "string" ->
                GetString(ini_content, s, NoText) = StringText(v)
          [] asked[s][1] = "int" -> GetInt(ini_content, s, 0) = v
          [] asked[s][1] = "double" ->
                GetDouble(ini_content, s, 0) - v \in -4..5

(***************************************************************************)
(* Unless a change was made while listeners were disabled, each registered *)
(* listener has read the present settings (notifyChangeHandlers after      *)
(* set_value): it never acts on an older configuration.                    *)
(***************************************************************************)
ListenersCurrent ==
    ~missed => \A l \in mListeners : seen[l] = SettingsOf(ini_content)

=============================================================================
