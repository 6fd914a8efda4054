------------------------------ MODULE IniManage ------------------------------
(***************************************************************************)
(* daemon/src/ini_manage.cpp: the linked list of sections and records that *)
(* holds the configuration, its parser and its printer.                    *)
(*                                                                         *)
(* A file is a sequence of lines, a text a tuple (the empty text is <<>>), *)
(* and a comment the sequence of its lines, each given by the number of    *)
(* comment marks it starts with.  The fixed sizes of the buffers are not   *)
(* modelled: names, values and comments are assumed to fit.                *)
(***************************************************************************)
EXTENDS Integers, Sequences, SequencesExt

NoText == <<>>
NoComment == <<>>

SectionLine(name) == [kind |-> "section", name |-> name]
RecordLine(key, value) == [kind |-> "record", key |-> key, value |-> value]
CommentLine(marks) == [kind |-> "comment", marks |-> marks]
EmptyLine == [kind |-> "empty"]
\* a section without ']' or a record without '='
MalformedLine == [kind |-> "malformed"]

\* A file that cannot be opened.
Missing == <<[kind |-> "missing"]>>

\* The lines that a file with these values can have.
Lines(texts) ==
    [kind : {"section"}, name : STRING]
        \cup [kind : {"record"}, key : STRING, value : texts]
        \cup [kind : {"comment"}, marks : Nat]
        \cup [kind : {"empty", "malformed", "missing"}]

-----------------------------------------------------------------------------
(* The list.                                                               *)

\* Position of a section, of a record in a section; 0 when there is none.
get_section(content, sec) == SelectInSeq(content, LAMBDA s : s.name = sec)

get_record(section, key) == SelectInSeq(section.data, LAMBDA r : r.key = key)

(***************************************************************************)
(* The test (comment[0] != '#' || comment[0] != ';') is always true: a     *)
(* comment that has its mark already gets one more.                        *)
(***************************************************************************)
Marked(comment) ==
    IF comment = NoComment THEN NoComment ELSE [comment EXCEPT ![1] = @ + 1]

\* w_flag is always REPLACE.
add_section(content, sec, comment) ==
    LET i == get_section(content, sec) IN
    IF i = 0
    THEN Append(content, [name |-> sec, comments |-> Marked(comment),
                          data |-> <<>>])
    ELSE [content EXCEPT ![i].comments = Marked(comment)]

\* Fault: a key that is there already is added once more.
AppendTo_Doubled(content, i, key, value, comment) ==
    [content EXCEPT ![i].data =
        Append(@, [key |-> key, value |-> value, comments |-> Marked(comment)])]

\* _append when the section is there, and when it is not.
AppendTo(content, i, key, value, comment) ==
    LET j   == get_record(content[i], key)
        rec == [key |-> key, value |-> value, comments |-> Marked(comment)]
    IN  IF j = 0 THEN [content EXCEPT ![i].data = Append(@, rec)]
                 ELSE [content EXCEPT ![i].data[j] = rec]

_append(content, sec, key, value, comment) ==
    LET there == IF get_section(content, sec) # 0 THEN content
                 ELSE add_section(content, sec, NoComment)
    IN  AppendTo(there, get_section(there, sec), key, value, comment)

get_value(content, sec, key) ==
    LET i == get_section(content, sec)
        j == IF i = 0 THEN 0 ELSE get_record(content[i], key)
    IN  IF j = 0 THEN NoText ELSE content[i].data[j].value

\* set_value passes an empty comment: the record loses the one it had.
set_value(content, sec, key, value) ==
    _append(content, sec, key, value, NoComment)

-----------------------------------------------------------------------------
(* load.                                                                   *)

LoadLine(st, line) ==
    CASE ~st.open -> st
      [] st.open /\ line.kind = "section" ->
            [st EXCEPT !.content = add_section(@, line.name, st.comments),
                       !.section = line.name, !.comments = NoComment,
                       !.loaded = TRUE]
      [] st.open /\ line.kind = "comment" ->
            [st EXCEPT !.comments = Append(@, line.marks), !.loaded = TRUE]
      [] st.open /\ line.kind = "empty" -> st
      [] st.open /\ line.kind = "record" /\ st.section # "" ->
            [st EXCEPT !.content = _append(@, st.section, line.key,
                                           line.value, st.comments),
                       !.comments = NoComment, !.loaded = TRUE]
      [] OTHER -> [st EXCEPT !.open = FALSE, !.loaded = FALSE]

\* The lines one after the other, from a state of the parser.  (The sets with
\* one element only make TLC evaluate each step once.)
LoadLines(from, lines) ==
    LET st[i \in 0..Len(lines)] ==
            IF i = 0 THEN from
            ELSE CHOOSE next \in {LoadLine(s, lines[i]) : s \in {st[i - 1]}} :
                     TRUE
    IN  st[Len(lines)]

\* What is read before an error stays in the list.
load(file) ==
    LoadLines([content |-> <<>>, comments |-> NoComment, section |-> "",
               loaded |-> FALSE, open |-> TRUE], file)

-----------------------------------------------------------------------------
(* _save, and content_string, which prints the same lines.                 *)

CommentLines(comment) == [i \in DOMAIN comment |-> CommentLine(comment[i])]

RecordLines(data) ==
    FlattenSeq([j \in DOMAIN data |->
        Append(CommentLines(data[j].comments),
               RecordLine(data[j].key, data[j].value))])

SectionLines(section) ==
    Append(CommentLines(section.comments), SectionLine(section.name))
        \o RecordLines(section.data)

SavedLines(content) ==
    FlattenSeq([i \in DOMAIN content |-> SectionLines(content[i])])

content_string(content) == SavedLines(content)
=============================================================================
