----------------------------- MODULE RequestReply -----------------------------
(***************************************************************************)
(* What the gateway's socket promises to the program at its other end:       *)
(* requests are answered one by one, in the order in which they are written, *)
(* each not before it has been written to its end and with an answer that    *)
(* fits it; answers arrive whole and in that order; and nobody is hung up on *)
(* but a client that has left, whose next request is illegal, or whose next   *)
(* request, once written, is one that no answer fits.  Frames, buffers and    *)
(* the parser that implement this are in Requests.                           *)
(***************************************************************************)
EXTENDS Integers, Sequences

CONSTANTS
    Requests,
    Fitting,    \* the answers that each request may be given
    Illegal     \* requests that end the conversation

VARIABLES
    asked,      \* the requests begun
    written,    \* how many of them are written to their end
    replies,    \* the answers given
    received,   \* how many of them have arrived
    left,       \* the client is gone
    hungUp      \* the gateway is

talkVars == <<asked, written, replies, received, left, hungUp>>

Init ==
    /\ asked = << >> /\ written = 0
    /\ replies = << >> /\ received = 0
    /\ left = FALSE /\ hungUp = FALSE

Begin(r) ==
    /\ ~left
    /\ written = Len(asked)
    /\ asked' = Append(asked, r)
    /\ UNCHANGED <<written, replies, received, left, hungUp>>

Finish ==
    /\ ~left
    /\ written < Len(asked)
    /\ written' = written + 1
    /\ UNCHANGED <<asked, replies, received, left, hungUp>>

Unanswered == Len(replies) + 1

Reply ==
    /\ ~hungUp
    /\ Len(replies) < written
    /\ \E answer \in Fitting[asked[Unanswered]] : replies' = Append(replies, answer)
    /\ UNCHANGED <<asked, written, received, left, hungUp>>

Receive ==
    /\ ~left
    /\ received < Len(replies)
    /\ received' = received + 1
    /\ UNCHANGED <<asked, written, replies, left, hungUp>>

Leave ==
    /\ ~left
    /\ left' = TRUE
    /\ UNCHANGED <<asked, written, replies, received, hungUp>>

HangUp ==
    /\ ~hungUp
    /\ left \/ (Unanswered \in DOMAIN asked /\ asked[Unanswered] \in Illegal)
    /\ hungUp' = TRUE
    /\ UNCHANGED <<asked, written, replies, received, left>>

GoDown ==
    /\ ~hungUp
    /\ Len(replies) < written
    /\ Fitting[asked[Unanswered]] = {}
    /\ hungUp' = TRUE
    /\ UNCHANGED <<asked, written, replies, received, left>>

Next ==
    \/ \E r \in Requests : Begin(r)
    \/ Finish \/ Reply \/ Receive \/ Leave \/ HangUp \/ GoDown

Spec == Init /\ [][Next]_talkVars
=============================================================================
