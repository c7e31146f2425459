--------------------------------- MODULE Gate ---------------------------------
(***************************************************************************)
(* What the connection gate promises to the database: never more than Slots *)
(* connections are inside at a time, and whoever is inside has waited        *)
(* outside before.  The semaphore, and the ways out of a worker on which it  *)
(* must be given back, are in Connections.                                   *)
(***************************************************************************)
EXTENDS Integers, FiniteSets

CONSTANTS
    Conns,
    Slots

VARIABLES
    outside,   \* connections waiting to be let in
    inside     \* connections that have been

gateVars == <<outside, inside>>

Init == outside = {} /\ inside = {}

Queue(c) ==
    /\ c \notin outside \cup inside
    /\ outside' = outside \cup {c}
    /\ UNCHANGED inside

Enter(c) ==
    /\ c \in outside
    /\ Cardinality(inside) < Slots
    /\ outside' = outside \ {c}
    /\ inside' = inside \cup {c}

(* With its work done, or having given up. *)
Leave(c) ==
    /\ c \in outside \cup inside
    /\ outside' = outside \ {c}
    /\ inside' = inside \ {c}

Next == \E c \in Conns : Queue(c) \/ Enter(c) \/ Leave(c)

Spec == Init /\ [][Next]_gateVars
=============================================================================
