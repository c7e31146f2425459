---------------------------- MODULE SerialNumbers -----------------------------
(***************************************************************************)
(* What the official numbers promise to those who file a record: a book for *)
(* each scope, in which the next number is entered and handed out in one     *)
(* step, whoever else is filing; a request may be refused, and then nothing  *)
(* is entered.  The statements, locks and rollbacks of the transactions that *)
(* implement this are in Numbering.                                          *)
(***************************************************************************)
EXTENDS Integers, Sequences

CONSTANTS
    Clients,
    Scopes,
    None,     \* no scope
    Limit     \* the least number that is never handed out

VARIABLES
    asking,   \* the scope in which each client is filing
    given,    \* the number it has been given, 0 before
    book      \* the numbers entered in each scope, in order

bookVars == <<asking, given, book>>

Init ==
    /\ asking = [c \in Clients |-> None]
    /\ given = [c \in Clients |-> 0]
    /\ book = [s \in Scopes |-> << >>]

Ask(c, s) ==
    /\ asking[c] = None
    /\ asking' = [asking EXCEPT ![c] = s]
    /\ UNCHANGED <<given, book>>

NextNumber(s) == Len(book[s]) + 1

Give(c) ==
    /\ asking[c] # None
    /\ given[c] = 0
    /\ NextNumber(asking[c]) < Limit
    /\ given' = [given EXCEPT ![c] = NextNumber(asking[c])]
    /\ book' = [book EXCEPT ![asking[c]] = Append(@, NextNumber(asking[c]))]
    /\ UNCHANGED asking

(* With its number, if it has one. *)
Return(c) ==
    /\ asking[c] # None
    /\ asking' = [asking EXCEPT ![c] = None]
    /\ given' = [given EXCEPT ![c] = 0]
    /\ UNCHANGED book

Next ==
    \E c \in Clients :
        \/ Give(c) \/ Return(c)
        \/ \E s \in Scopes : Ask(c, s)

Spec == Init /\ [][Next]_bookVars
=============================================================================
