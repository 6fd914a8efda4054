------------------------------ MODULE MCConfig ------------------------------
(* A small instance of Config. *)
EXTENDS Config

MCSettings == {<<"Slot", "bus">>}

Good == <<SectionLine("Comm"), EmptyLine, CommentLine(0),
          RecordLine("name", NoText)>>
\* a section twice and a key twice
Doubled == <<SectionLine("Slot"), RecordLine("bus", <<"true">>),
             CommentLine(1), SectionLine("Slot"),
             RecordLine("bus", <<"wahr">>)>>
\* an error after something was loaded, and one before
Broken == <<SectionLine("Comm"), RecordLine("bus", <<"true">>), MalformedLine,
            RecordLine("name", <<"true">>)>>
Homeless == <<RecordLine("bus", <<"true">>), SectionLine("Comm")>>

MCFiles == {Missing, <<>>, Good, Doubled, Broken, Homeless}
MCInts == {7}
MCDoubles == {1234567}
=============================================================================
