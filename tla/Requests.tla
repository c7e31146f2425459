------------------------------- MODULE Requests -------------------------------
(***************************************************************************)
(* One dashboard connection of the gateway: framed requests on a stream,    *)
(* the loop of DomainSocket::clientHandler, dispatch and the handlers of    *)
(* the commands, framed answers back.                                       *)
(*                                                                         *)
(* The client is any program that speaks the protocol: it may send several  *)
(* requests before it reads an answer, write and read a frame piece by      *)
(* piece, and close at any moment.  Connections share nothing but the       *)
(* database and the status table, which all these commands only read; so   *)
(* one connection is enough, as long as no request on another one ends the  *)
(* process they all run in (Terminates).                                    *)
(*                                                                         *)
(* A frame is HeaderSize units of length prefix and BodySize units of text, *)
(* a request's and an answer's alike.  What a frame says is a constant:    *)
(* Meant[f] is the request its author had in mind, TextOf[f] the text it     *)
(* is written as.                                                           *)
(***************************************************************************)
EXTENDS Integers, Sequences, RequestText

CONSTANTS
    Frames,       \* the frames clients send
    Meant,        \* [Frames -> requests]
    TextOf,       \* [Frames -> texts]
    OutOfRange,   \* the frames whose length prefix is 0 or above DOMAIN_SOCKET_MAX_MSG_BYTES
    HeaderSize,
    BodySize,
    BufferSize,   \* units a socket buffer holds
    MaxFrames,    \* bound: requests on the connection
    Uuids,        \* the texts isValidUuid accepts
    TooBig        \* the texts of digits alone whose value no int holds

FrameSize == HeaderSize + BodySize

ASSUME SizesAssumption ==
    /\ HeaderSize \in Nat \ {0}
    /\ BodySize \in Nat \ {0}
    /\ BufferSize \in Nat \ {0}
    /\ MaxFrames \in Nat
    /\ OutOfRange \subseteq Frames

VARIABLES
    sent,      \* the requests the client has begun to write
    out,       \* units of the last of them it has not written yet
    inflight,  \* units on the way to the gateway
    closed,    \* the client has closed its end
    at,        \* clientHandler: receiving a header, a body; sending; gone, or terminated with its process
    got,       \* units of the frame it is receiving
    answers,   \* the answers it has made
    unsent,    \* units of the last answer not yet handed to the socket
    back,      \* units on the way to the client
    read       \* units the client has read

client  == <<sent, out, closed>>
handler == <<at, got, answers, unsent>>
vars == <<client, handler, inflight, back, read>>

Init ==
    /\ sent = << >> /\ out = 0 /\ closed = FALSE
    /\ at = "header" /\ got = 0 /\ answers = << >> /\ unsent = 0
    /\ inflight = 0 /\ back = 0 /\ read = 0

-----------------------------------------------------------------------------
(* What a request may be answered, command by command.  A limit or an offset *)
(* is clamped or ignored and never refused (safeIntStr); but std::stoi, which  *)
(* reads it, throws if its digits are too many for an int, nothing catches     *)
(* that, and there is no answer.  The texts "0", "1" and "2" stand for all     *)
(* that std::stoi reads as these numbers.                                      *)

param(request, key, default) ==
    IF key \in DOMAIN request.params THEN request.params[key] ELSE default

Overflows(request, key) == param(request, key, "") \in TooBig

NoAnswer == {}

QueryFails == {"INVALID_STATE", "DB_ERROR"}

handlePing(request) == {"OK"}

handleGetAgentStatus(request) == {"OK", "INVALID_STATE"}

handleGetAgentStatusByIndex(request) ==
    IF Overflows(request, "index")
    THEN NoAnswer
    ELSE IF param(request, "index", "") \in {"0", "1", "2"} THEN {"OK", "INVALID_STATE"} ELSE {"INVALID_INPUT"}

handleGetActiveSessions(request) == {"OK", "INVALID_STATE"}

handleGetCaseList(request) ==
    IF Overflows(request, "limit") \/ Overflows(request, "offset") THEN NoAnswer ELSE {"OK"} \cup QueryFails

handleGetCaseById(request) ==
    IF param(request, "case_id", "") \in Uuids THEN {"OK", "NOT_FOUND"} \cup QueryFails ELSE {"INVALID_INPUT"}

Limited(request) == IF Overflows(request, "limit") THEN NoAnswer ELSE {"OK"} \cup QueryFails

handleGetHotspotData(request) == Limited(request)

handleGetPriorityCases(request) ==
    IF param(request, "min_priority", "HIGH") \in {"LOW", "MEDIUM", "HIGH", "CRITICAL"}
    THEN Limited(request)
    ELSE {"INVALID_INPUT"}

handleGetOfficerWorkload(request) == Limited(request)

dispatch(request) ==
    CASE request.command = "PING" -> handlePing(request)
      [] request.command = "GET_AGENT_STATUS" -> handleGetAgentStatus(request)
      [] request.command = "GET_AGENT_STATUS_BY_INDEX" -> handleGetAgentStatusByIndex(request)
      [] request.command = "GET_ACTIVE_SESSIONS" -> handleGetActiveSessions(request)
      [] request.command = "GET_CASE_LIST" -> handleGetCaseList(request)
      [] request.command = "GET_CASE_BY_ID" -> handleGetCaseById(request)
      [] request.command = "GET_HOTSPOT_DATA" -> handleGetHotspotData(request)
      [] request.command = "GET_PRIORITY_CASES" -> handleGetPriorityCases(request)
      [] request.command = "GET_OFFICER_WORKLOAD" -> handleGetOfficerWorkload(request)
      [] OTHER -> {"INVALID_INPUT"}

(* The answers to a text as fromJson understood it.                         *)
AnswersTo(parsed) ==
    [id : {parsed.id}, status : IF parsed.ok THEN dispatch(parsed) ELSE {"INVALID_INPUT"}]

(* A request that its handler throws on.                                    *)
Fatal(request) == AnswersTo(request) = {}

Parsed == [f \in Frames |-> FromJson(TextOf[f])]

(* A text that does not begin where a frame begins is no JSON.              *)
Garbled == [ok |-> FALSE, id |-> "0"]

-----------------------------------------------------------------------------
(* The client                                                               *)

Compose(f) ==
    /\ ~closed /\ out = 0 /\ Len(sent) < MaxFrames
    /\ sent' = Append(sent, f)
    /\ out' = FrameSize
    /\ UNCHANGED <<closed, handler, inflight, back, read>>

Ended == at \in {"gone", "terminated"}

Write ==
    /\ ~closed /\ ~Ended /\ out > 0 /\ inflight < BufferSize
    /\ out' = out - 1
    /\ inflight' = inflight + 1
    /\ UNCHANGED <<sent, closed, handler, back, read>>

Read ==
    /\ ~closed /\ back > 0
    /\ back' = back - 1
    /\ read' = read + 1
    /\ UNCHANGED <<client, handler, inflight>>

Close ==
    /\ ~closed
    /\ closed' = TRUE
    /\ UNCHANGED <<sent, out, handler, inflight, back, read>>

-----------------------------------------------------------------------------
(* clientHandler                                                            *)

Current == Len(answers) + 1   \* the request being received, when at is header or body

HeaderIn == got = HeaderSize

BodyIn_OneRecv == got > HeaderSize
BodyIn == got = FrameSize

Wanted == IF at = "header" THEN HeaderSize - got ELSE FrameSize - got

(* recvFrame: one recv returns some of the units that are there.            *)
Receive(n) ==
    /\ at \in {"header", "body"}
    /\ n <= Wanted /\ n <= inflight
    /\ got' = got + n
    /\ inflight' = inflight - n
    /\ UNCHANGED <<client, at, answers, unsent, back, read>>

(* The client has closed and nothing is left to read: end of file, or a     *)
(* reset if it left answers unread.                                         *)
EndOfFile ==
    /\ at \in {"header", "body"}
    /\ Wanted > 0
    /\ closed /\ inflight = 0
    /\ at' = "gone"
    /\ UNCHANGED <<client, got, answers, unsent, inflight, back, read>>

LengthInRange ==
    /\ at = "header" /\ HeaderIn
    /\ sent[Current] \notin OutOfRange
    /\ at' = "body"
    /\ UNCHANGED <<client, got, answers, unsent, inflight, back, read>>

LengthOutOfRange ==
    /\ at = "header" /\ HeaderIn
    /\ sent[Current] \in OutOfRange
    /\ at' = "gone"
    /\ UNCHANGED <<client, got, answers, unsent, inflight, back, read>>

(* fromJson, dispatch, toJson: the body is complete and gets its answer.    *)
Understood == IF got = FrameSize THEN Parsed[sent[Current]] ELSE Garbled

Answer(answer) ==
    /\ at = "body" /\ BodyIn
    /\ answer \in AnswersTo(Understood)
    /\ answers' = Append(answers, answer)
    /\ at' = "send"
    /\ got' = 0
    /\ unsent' = FrameSize
    /\ UNCHANGED <<client, inflight, back, read>>

(* No function between a handler and the start of the thread catches what    *)
(* the handler throws: std::terminate ends the daemon.                      *)
Terminates ==
    /\ at = "body" /\ BodyIn
    /\ AnswersTo(Understood) = {}
    /\ at' = "terminated"
    /\ UNCHANGED <<client, got, answers, unsent, inflight, back, read>>

(* sendFrame: one send takes what fits.                                     *)
Send(n) ==
    /\ at = "send" /\ ~closed
    /\ n <= unsent /\ back + n <= BufferSize
    /\ unsent' = unsent - n
    /\ back' = back + n
    /\ UNCHANGED <<client, at, got, answers, inflight, read>>

(* EPIPE                                                                    *)
SendFails ==
    /\ at = "send" /\ closed /\ unsent > 0
    /\ at' = "gone"
    /\ UNCHANGED <<client, got, answers, unsent, inflight, back, read>>

FrameOut_OneSend == unsent < FrameSize
FrameOut == unsent = 0

NextRequest ==
    /\ at = "send" /\ FrameOut
    /\ at' = "header"
    /\ UNCHANGED <<client, got, answers, unsent, inflight, back, read>>

-----------------------------------------------------------------------------
Statuses == {"OK", "INVALID_INPUT", "INVALID_STATE", "NOT_FOUND", "DB_ERROR"}
Answers == UNION {AnswersTo(p) : p \in {Parsed[f] : f \in Frames} \cup {Garbled}}

Handler ==
    \/ \E n \in 1 .. FrameSize : Receive(n) \/ Send(n)
    \/ \E answer \in Answers : Answer(answer)
    \/ EndOfFile \/ LengthInRange \/ LengthOutOfRange \/ Terminates \/ SendFails \/ NextRequest

Next ==
    \/ \E f \in Frames : Compose(f)
    \/ Write \/ Read \/ Close
    \/ Handler

Spec == Init /\ [][Next]_vars

(* The handler's thread runs; a client finishes the frame it has begun and  *)
(* reads what comes back.                                                   *)
FairSpec == Spec /\ WF_vars(Handler) /\ WF_vars(Write) /\ WF_vars(Read)

-----------------------------------------------------------------------------
(* Types, and that no buffer holds more than it can.                        *)
TypeOK ==
    /\ sent \in Seq(Frames) /\ Len(sent) <= MaxFrames
    /\ out \in 0 .. FrameSize
    /\ inflight \in 0 .. BufferSize
    /\ closed \in BOOLEAN
    /\ at \in {"header", "body", "send", "gone", "terminated"}
    /\ got \in 0 .. FrameSize
    /\ answers \in Seq(Answers)
    /\ unsent \in 0 .. FrameSize
    /\ back \in 0 .. BufferSize
    /\ read \in Nat

(* A frame is legible if its text is one of those which RequestText says are *)
(* understood, or is no object at all and not meant to be.                   *)
WellWritten(f) ==
    \E id \in Numerals, command \in (Commands \cup Texts) \ {"params"}, order \in Orders, style \in Styles :
        \/ /\ Meant[f] = Request(id, command, Nothing)
           /\ TextOf[f] = Text(Meant[f], order, << >>, style)
        \/ \E keys \in KeyLists : \E params \in [NamesIn(keys) -> Texts] :
              /\ keys = << >> \/ style = Compact
              /\ Meant[f] = Request(id, command, params)
              /\ TextOf[f] = Text(Meant[f], Append(order, "params"), keys, style)

NoObject(f) ==
    /\ Meant[f] = Malformed("0")
    /\ Kind(TextOf[f], SkipWs(TextOf[f], 1)) # "open"

Legible == \A f \in Frames : WellWritten(f) \/ NoObject(f)

(* The answers come in the order of the requests, one for each that has     *)
(* been written in full: the i-th bears the id of the i-th request and is   *)
(* one which that request, as it was meant, may be given.  However the      *)
(* stream is cut into pieces (recvFrame), whoever reads late, whether or    *)
(* not the text was understood (clientHandler).                             *)
AnswersFit ==
    \A i \in DOMAIN answers :
        /\ i * FrameSize <= Len(sent) * FrameSize - out
        /\ answers[i] \in AnswersTo(Meant[sent[i]])

(* clientHandler hangs up on a client only when that has left or has sent a *)
(* frame whose length is out of range, and the daemon goes down only on a     *)
(* number no int holds; a request the handler does not understand is          *)
(* answered and the next one served.                                        *)
HangsUpOnlyWhen ==
    /\ at = "gone" => closed \/ (Current \in DOMAIN sent /\ sent[Current] \in OutOfRange)
    /\ at = "terminated" => Current \in DOMAIN sent /\ Fatal(Meant[sent[Current]])

(* Every request of a client that stays is answered and the answer reaches  *)
(* it in full, unless it or a frame before it was out of range or holds a     *)
(* number out of range, also when the client sends request after request and  *)
(* both buffers fill up.                                                      *)
Ending(f) == f \in OutOfRange \/ Fatal(Meant[f])

EveryRequestAnswered ==
    \A n \in 1 .. MaxFrames :
        Len(sent) >= n ~>
            \/ closed \/ read >= n * FrameSize
            \/ \E i \in DOMAIN sent : i <= n /\ Ending(sent[i])

(* socket_request.cpp: which requests are understood, parameters and white  *)
(* space considered; one that is written like the example in                 *)
(* socket_request.h is not.  A client that keeps to the texts that are        *)
(* understood can tell its answers apart: each bears the id its author gave    *)
(* the request, and not the 0 of a text that was given up (AnswersFit has      *)
(* their order and their status).                                              *)
ReadByTheCode ==
    /\ PlainTextsUnderstood /\ OnlyCompactParameters
    /\ \A i \in DOMAIN answers : answers[i].id = Meant[sent[i]].id

Written == IF out = 0 THEN Len(sent) ELSE Len(sent) - 1

Abstract == INSTANCE RequestReply WITH
    Requests <- Frames,
    Fitting <- [f \in Frames |-> AnswersTo(Meant[f])],
    Illegal <- OutOfRange,
    asked <- sent,
    written <- Written,
    replies <- answers,
    received <- read \div FrameSize,
    left <- closed,
    hungUp <- Ended

(* Two streams of bytes that are cut anywhere, filled and drained by either  *)
(* side at any pace, are a conversation of whole requests and whole answers, *)
(* in order, none lost or mixed up, until a request ends it (recvFrame,      *)
(* sendFrame, clientHandler).                                                *)
ImplementsRequestReply == Abstract!Spec
=============================================================================
