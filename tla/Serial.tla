-------------------------------- MODULE Serial --------------------------------
(***************************************************************************)
(* SensorProviderZynqModule: descriptions and measurements of a module are *)
(* asked for over a serial line, with a letter and a carriage return.  The *)
(* module echoes the letter and sends one line.                            *)
(*                                                                         *)
(* A byte of the answer's text is modelled by the request that it answers. *)
(***************************************************************************)
EXTENDS Integers, Sequences

CONSTANTS
    ignoreFirstBytes,   \* bytes that are not searched for the terminator (20)
    MAX_RECEIVE_SIZE,   \* size of mReceiveBuffer
    TextLengths,        \* lengths of the text of an answer
    Requests            \* bound on the number of requests

ASSUME SerialAssumption ==
    /\ ignoreFirstBytes \in Nat /\ ignoreFirstBytes >= 3
    /\ MAX_RECEIVE_SIZE \in Nat /\ Requests \in Nat
    /\ TextLengths \subseteq Nat

VARIABLES
    port,       \* mComFileDescriptor: "none", "open", "failed" or "deleted"
    settings,   \* the settings of the port: "old" or "new"
    pending,    \* bytes that the module has yet to send
    line,       \* bytes that arrived
    received,   \* the first readTotal bytes of mReceiveBuffer
    request,    \* the request in progress
    answer,     \* the last string returned
    requests,   \* requests so far
    late        \* a request was given up with bytes of its answer to come

serialVars == <<port, settings, pending, line, received, request, answer,
                requests, late>>

NoRequest == [letter |-> "none", number |-> 0]
NoAnswer == [to |-> NoRequest, text |-> <<>>, length |-> 0, echo |-> FALSE]

SerialInit ==
    /\ port = "none" /\ settings = "old"
    /\ pending = <<>> /\ line = <<>> /\ received = <<>>
    /\ request = NoRequest /\ answer = NoAnswer
    /\ requests = 0 /\ late = FALSE

-----------------------------------------------------------------------------
(* The port.                                                               *)

\* The constructor, with InitComPort: no port is configured, it cannot be
\* opened or asked for its settings, or it is set up.
InitComPort ==
    /\ port = "none"
    /\ \/ port' = "failed" /\ UNCHANGED settings
       \/ port' = "open" /\ settings' = "new"
    /\ UNCHANGED <<pending, line, received, request, answer, requests, late>>

\* The destructor puts the old settings back.
ClosePort ==
    /\ port \in {"open", "failed"} /\ request = NoRequest
    /\ port' = "deleted"
    /\ settings' = IF port = "open" THEN "old" ELSE settings
    /\ UNCHANGED <<pending, line, received, request, answer, requests, late>>

-----------------------------------------------------------------------------
(* A request.                                                              *)

Letter(r) == [letter |-> r.letter]
Cr == [letter |-> "cr"]
Nl == [letter |-> "nl"]
Echo(r) == <<Letter(r), Cr, Nl>>

\* What the module sends: text is of the request alone.
Answer(r, n) == Echo(r) \o [i \in 1..n |-> r] \o <<Cr, Nl>>

\* SendData at the start of getSensorsDescription and getSensorsData; the
\* write may fail, and without a port nothing is sent.
SendData(letter) ==
    LET r == [letter |-> letter, number |-> requests + 1] IN
    /\ port \in {"open", "failed"} /\ request = NoRequest
    /\ requests < Requests
    /\ requests' = requests + 1
    /\ request' = r
    /\ \/ /\ port = "open"
          /\ \E n \in TextLengths : pending' = pending \o Answer(r, n)
       \/ UNCHANGED pending
    /\ UNCHANGED <<port, settings, line, received, answer, late>>

\* External: the next bytes arrive.
ModuleSends ==
    /\ port = "open"
    /\ \E n \in 1..Len(pending) :
          /\ line' = line \o SubSeq(pending, 1, n)
          /\ pending' = SubSeq(pending, n + 1, Len(pending))
    /\ UNCHANGED <<port, settings, received, request, answer, requests, late>>

\* Fault: the echo counts as the end of the answer.
Terminated_Echo(total, chunk) == \E i \in 1..Len(chunk) : chunk[i] = Nl

\* Whether memchr finds the terminator in the bytes just read.
Terminated(total, chunk) ==
    \E i \in 1..Len(chunk) :
        /\ chunk[i] = Nl
        /\ total <= ignoreFirstBytes => i > ignoreFirstBytes

\* Fault: any line end counts as the end of the echo.
Echoes_Any(buf, r) ==
    {i \in 1..(Len(buf) - 2) : SubSeq(buf, i + 1, i + 2) = <<Cr, Nl>>}

\* The positions of the buffer where the echo begins.
Echoes(buf, r) ==
    {i \in 1..(Len(buf) - 2) : SubSeq(buf, i, i + 2) = Echo(r)}

Earliest(S) == CHOOSE i \in S : \A j \in S : i <= j

\* Behind the echo, or at the start without one.
TextStart(buf, r) ==
    IF Echoes(buf, r) = {} THEN 1 ELSE Earliest(Echoes(buf, r)) + 3

\* The text up to the carriage return, or all of it.
Text(buf, start) ==
    LET ends == {i \in start..Len(buf) : buf[i] = Cr}
    IN  SubSeq(buf, start, IF ends = {} THEN Len(buf) ELSE Earliest(ends) - 1)

Returned(buf) ==
    [to |-> request, text |-> Text(buf, TextStart(buf, request)),
     length |-> Len(buf), echo |-> Echoes(buf, request) # {}]

\* One round of ReadUntilTerminator that receives something.
ReadData ==
    /\ request # NoRequest /\ line # <<>> /\ Len(received) < MAX_RECEIVE_SIZE
    /\ \E n \in 1..Len(line) :
          LET chunk == SubSeq(line, 1, n)
              all == received \o chunk
          IN  /\ Len(all) <= MAX_RECEIVE_SIZE
              /\ line' = SubSeq(line, n + 1, Len(line))
              /\ IF Terminated(Len(received), chunk)
                 THEN /\ answer' = Returned(all)
                      /\ request' = NoRequest /\ received' = <<>>
                 ELSE received' = all /\ UNCHANGED <<answer, request>>
    /\ UNCHANGED <<port, settings, pending, requests, late>>

\* The timeout, or no room left in the buffer: "" is returned, and what was
\* received is forgotten.
GiveUp ==
    /\ request # NoRequest
    /\ line = <<>> \/ Len(received) = MAX_RECEIVE_SIZE
    /\ answer' = [NoAnswer EXCEPT !.to = request]
    /\ request' = NoRequest /\ received' = <<>>
    /\ late' = (late \/ pending # <<>> \/ line # <<>>)
    /\ UNCHANGED <<port, settings, pending, line, requests>>

getSensorsDescription == SendData("d")
getSensorsData == SendData("m")

SerialNext ==
    \/ InitComPort \/ ClosePort
    \/ getSensorsDescription \/ getSensorsData
    \/ ModuleSends \/ ReadData \/ GiveUp

-----------------------------------------------------------------------------
(* Properties.                                                             *)

(***************************************************************************)
(* As long as no request was given up while its answer was on the way, a   *)
(* request returns the text of its own answer, whole, or nothing, however  *)
(* the bytes are split over the reads.                                     *)
(***************************************************************************)
OwnAnswer ==
    ~late /\ answer.text # <<>> =>
        /\ Len(answer.text) \in TextLengths
        /\ \A i \in 1..Len(answer.text) : answer.text[i] = answer.to

(***************************************************************************)
(* Even after late answers: when the echo of the request was found, no     *)
(* description is taken for measurements, nor the other way round; the     *)
(* text may be an older one, or cut off.                                   *)
(***************************************************************************)
KindKept ==
    answer.echo =>
        \A i \in 1..Len(answer.text) :
            answer.text[i].letter = answer.to.letter
=============================================================================
