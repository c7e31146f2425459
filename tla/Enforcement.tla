----------------------------- MODULE Enforcement ------------------------------
(***************************************************************************)
(* Arrests, warrants and bails: WarrantManager, ArrestManager, BailManager. *)
(*                                                                         *)
(* An operation is a sequence of statements, each a transaction of its own: *)
(* it reads the state of a row, decides, and writes in later statements.    *)
(* Statements of other sessions come between.  A statement may fail, and a  *)
(* process may die between two of them, which leaves the same rows behind.  *)
(***************************************************************************)
EXTENDS Integers, FiniteSets

CONSTANTS
    Sessions,      \* logged-in officers, each with a connection
    Arrests,       \* ids the tables hand out
    Warrants,
    Bails,
    None,          \* no id
    RankOf,        \* the rank of each session's officer
    MinimumRank    \* static_cast<int>(OfficerRank::INSPECTOR): 4 in constants.h

Ranks == {"CONSTABLE", "HEAD_CONSTABLE", "ASI", "SI", "INSPECTOR", "DSP", "SP", "SSP", "DIG", "ADDL_IG", "IGP"}

ASSUME EnforcementAssumption ==
    /\ None \notin Arrests \cup Warrants \cup Bails
    /\ Arrests \cap Warrants = {}
    /\ Bails \cap Warrants = {}
    /\ RankOf \in [Sessions -> Ranks]
    /\ MinimumRank \in Int

VARIABLES
    custody,      \* arrests.custody_status, "absent" for a free id
    underWarrant, \* arrests.warrant_id
    warrant,      \* warrants.warrant_status
    expired,      \* warrants and bails whose valid_until has passed
    bail,         \* bail_records.bail_status
    bailOf,       \* bail_records.arrest_id
    call,         \* what each session is doing
    spoiled       \* history: arrests and warrants with overlapping or failed calls

rows == <<custody, underWarrant, warrant, expired, bail, bailOf>>
vars == <<rows, call, spoiled>>

(* A call under way: the statement that comes next, the arrest or warrant   *)
(* it is about, the bail or the status it will write.                       *)
Idle == [step |-> "idle", on |-> None, bail |-> None, to |-> "absent"]

Init ==
    /\ custody = [a \in Arrests |-> "absent"]
    /\ underWarrant = [a \in Arrests |-> None]
    /\ warrant = [w \in Warrants |-> "absent"]
    /\ expired = {}
    /\ bail = [b \in Bails |-> "absent"]
    /\ bailOf = [b \in Bails |-> None]
    /\ call = [s \in Sessions |-> Idle]
    /\ spoiled = {}

-----------------------------------------------------------------------------
(* AuthManager::validateRank knows four ranks, and not by their ordinals.   *)
(* requestWarrant, executeWarrant, cancelWarrant, recordBail and revokeBail *)
(* begin with it; a call it refuses has no effect.                          *)

RankValue == [CONSTABLE |-> 0, INSPECTOR |-> 1, SI |-> 2, DSP |-> 3]

RankIsEnough(s) ==
    /\ RankOf[s] \in DOMAIN RankValue
    /\ RankValue[RankOf[s]] >= MinimumRank

(* A call that has its first answer and goes on.  Another session may be at *)
(* the same arrest or warrant.                                              *)
Busy(x) == \E s \in Sessions : call[s].on = x

Start(s, step, x, b, to) ==
    /\ call[s] = Idle
    /\ call' = [call EXCEPT ![s] = [step |-> step, on |-> x, bail |-> b, to |-> to]]
    /\ spoiled' = IF Busy(x) THEN spoiled \cup {x} ELSE spoiled

Return(s) ==
    /\ call' = [call EXCEPT ![s] = Idle]
    /\ UNCHANGED spoiled

(* A statement fails, or the process dies before it: the call ends.  Some   *)
(* statements are not the first write of their call.                        *)
Fail(s) ==
    /\ call[s] # Idle
    /\ call' = [call EXCEPT ![s] = Idle]
    /\ spoiled' = IF call[s].step \in {"grant", "restore", "executeOnArrest"}
                  THEN spoiled \cup {call[s].on} ELSE spoiled
    /\ UNCHANGED rows

-----------------------------------------------------------------------------
(* Warrants.                                                                *)

(* The case is open, and the INSERT is accepted.                            *)
requestWarrant(s, w) ==
    /\ call[s] = Idle
    /\ RankIsEnough(s)
    /\ warrant[w] = "absent"
    /\ warrant' = [warrant EXCEPT ![w] = "ISSUED"]
    /\ UNCHANGED <<custody, underWarrant, expired, bail, bailOf, call, spoiled>>

ExpireWarrant(w) ==
    /\ warrant[w] # "absent"
    /\ expired' = expired \cup {w}
    /\ UNCHANGED <<custody, underWarrant, warrant, bail, bailOf, call, spoiled>>

(* The nightly job, one statement for all warrants, some with calls open.   *)
expire_warrants ==
    LET due == {w \in Warrants \cap expired : warrant[w] = "ISSUED"} IN
    /\ due # {}
    /\ warrant' = [w \in Warrants |-> IF w \in due THEN "EXPIRED" ELSE warrant[w]]
    /\ spoiled' = spoiled \cup {w \in due : Busy(w)}
    /\ UNCHANGED <<custody, underWarrant, expired, bail, bailOf, call>>

(* _validateState.  When it answers no, the call ends without effect.       *)
MayChange_AnyStatus(w) == warrant[w] # "absent"
MayChange(w) == warrant[w] = "ISSUED"

executeWarrant(s, w) ==
    /\ RankIsEnough(s)
    /\ MayChange(w)
    /\ w \notin expired
    /\ Start(s, "execute", w, None, "EXECUTED")
    /\ UNCHANGED rows

cancelWarrant(s, w) ==
    /\ RankIsEnough(s)
    /\ MayChange(w)
    /\ Start(s, "cancel", w, None, "CANCELLED")
    /\ UNCHANGED rows

(* chk_not_both_executed_and_cancelled                                      *)
Contradicts(w, to) == {warrant[w], to} = {"EXECUTED", "CANCELLED"}

(* SQL_EXECUTE and SQL_CANCEL name the warrant by its id alone; the table   *)
(* refuses one over the other, but neither over EXPIRED.                    *)
UpdateWarrant(s) ==
    /\ call[s].step \in {"execute", "cancel"}
    /\ warrant' = IF Contradicts(call[s].on, call[s].to) THEN warrant
                  ELSE [warrant EXCEPT ![call[s].on] = call[s].to]
    /\ Return(s)
    /\ UNCHANGED <<custody, underWarrant, expired, bail, bailOf>>

-----------------------------------------------------------------------------
(* Arrests.  Anyone may arrest; a warrant that is named is not looked at    *)
(* before the INSERT.                                                       *)

(* arrests.warrant_id refers to warrants.                                   *)
Exists(w) == warrant[w] # "absent"

recordArrest(s, a, w) ==
    /\ custody[a] = "absent"
    /\ custody' = [custody EXCEPT ![a] = "IN_CUSTODY"]
    /\ underWarrant' = [underWarrant EXCEPT ![a] = w]
    /\ IF w = None
       THEN call[s] = Idle /\ UNCHANGED <<call, spoiled>>
       ELSE Exists(w) /\ Start(s, "executeOnArrest", w, None, "EXECUTED")
    /\ UNCHANGED <<warrant, expired, bail, bailOf>>

(* SQL_EXECUTE_WARRANT_ON_ARREST changes a warrant that is ISSUED still.    *)
StillIssued(w) == warrant[w] = "ISSUED"

ExecuteOnArrest(s) ==
    /\ call[s].step = "executeOnArrest"
    /\ warrant' = IF StillIssued(call[s].on) THEN [warrant EXCEPT ![call[s].on] = call[s].to] ELSE warrant
    /\ Return(s)
    /\ UNCHANGED <<custody, underWarrant, expired, bail, bailOf>>

TRANSITIONS ==
    {<<"IN_CUSTODY", "BAIL_GRANTED">>, <<"IN_CUSTODY", "REMANDED">>, <<"IN_CUSTODY", "RELEASED">>,
     <<"IN_CUSTODY", "ESCAPED">>, <<"BAIL_GRANTED", "RELEASED">>, <<"REMANDED", "RELEASED">>}

(* _validateTransition has answered yes.                                    *)
updateCustodyStatus(s, a, to) ==
    /\ <<custody[a], to>> \in TRANSITIONS
    /\ Start(s, "update", a, None, to)
    /\ UNCHANGED rows

(* SQL_UPDATE_STATUS names the arrest by its id alone.                      *)
UpdateStatus(s) ==
    /\ call[s].step = "update"
    /\ custody' = [custody EXCEPT ![call[s].on] = call[s].to]
    /\ Return(s)
    /\ UNCHANGED <<underWarrant, warrant, expired, bail, bailOf>>

-----------------------------------------------------------------------------
(* Bails.                                                                   *)

(* _arrestIsInCustody, and the other requirements are met.                  *)
MayGetBail_AnyStatus(a) == custody[a] # "absent"
MayGetBail(a) == custody[a] = "IN_CUSTODY"

recordBail(s, a) ==
    /\ RankIsEnough(s)
    /\ MayGetBail(a)
    /\ Start(s, "insert", a, None, "BAIL_GRANTED")
    /\ UNCHANGED rows

InsertBail(s, b) ==
    /\ call[s].step = "insert"
    /\ bail[b] = "absent"
    /\ bail' = [bail EXCEPT ![b] = "ACTIVE"]
    /\ bailOf' = [bailOf EXCEPT ![b] = call[s].on]
    /\ call' = [call EXCEPT ![s] = [@ EXCEPT !.step = "grant", !.bail = b]]
    /\ UNCHANGED <<custody, underWarrant, warrant, expired, spoiled>>

(* SQL_UPDATE_ARREST_BAIL_GRANTED changes an arrest that is IN_CUSTODY.     *)
GrantBail(s) ==
    /\ call[s].step = "grant"
    /\ custody' = IF custody[call[s].on] = "IN_CUSTODY"
                  THEN [custody EXCEPT ![call[s].on] = call[s].to] ELSE custody
    /\ Return(s)
    /\ UNCHANGED <<underWarrant, warrant, expired, bail, bailOf>>

(* _validateState has found the bail ACTIVE.                                *)
revokeBail(s, b) ==
    /\ RankIsEnough(s)
    /\ bail[b] = "ACTIVE"
    /\ Start(s, "revoke", bailOf[b], b, "IN_CUSTODY")
    /\ UNCHANGED rows

RevokeBail(s) ==
    /\ call[s].step = "revoke"
    /\ bail' = [bail EXCEPT ![call[s].bail] = "REVOKED"]
    /\ call' = [call EXCEPT ![s] = [@ EXCEPT !.step = "restore"]]
    /\ UNCHANGED <<custody, underWarrant, warrant, expired, bailOf, spoiled>>

(* SQL_RESTORE_CUSTODY, whatever the status of the arrest is by now.        *)
RestoreCustody(s) ==
    /\ call[s].step = "restore"
    /\ custody' = [custody EXCEPT ![call[s].on] = call[s].to]
    /\ Return(s)
    /\ UNCHANGED <<underWarrant, warrant, expired, bail, bailOf>>

ExpireBail(b) ==
    /\ bail[b] # "absent"
    /\ expired' = expired \cup {b}
    /\ UNCHANGED <<custody, underWarrant, warrant, bail, bailOf, call, spoiled>>

(* Nothing tells the arrests.                                               *)
expire_bail_records ==
    LET due == {b \in Bails \cap expired : bail[b] = "ACTIVE"} IN
    /\ due # {}
    /\ bail' = [b \in Bails |-> IF b \in due THEN "EXPIRED" ELSE bail[b]]
    /\ spoiled' = spoiled \cup {a \in Arrests : Busy(a) /\ \E b \in due : bailOf[b] = a}
    /\ UNCHANGED <<custody, underWarrant, warrant, expired, bailOf, call>>

Step(s) ==
    \/ Fail(s)
    \/ \E w \in Warrants : requestWarrant(s, w) \/ executeWarrant(s, w) \/ cancelWarrant(s, w)
    \/ UpdateWarrant(s)
    \/ \E a \in Arrests, w \in Warrants \cup {None} : recordArrest(s, a, w)
    \/ ExecuteOnArrest(s)
    \/ \E a \in Arrests, to \in {"BAIL_GRANTED", "REMANDED", "RELEASED", "ESCAPED"} : updateCustodyStatus(s, a, to)
    \/ UpdateStatus(s)
    \/ \E a \in Arrests : recordBail(s, a)
    \/ \E b \in Bails : InsertBail(s, b) \/ revokeBail(s, b)
    \/ GrantBail(s)
    \/ RevokeBail(s)
    \/ RestoreCustody(s)

Next ==
    \/ \E s \in Sessions : Step(s)
    \/ \E w \in Warrants : ExpireWarrant(w)
    \/ \E b \in Bails : ExpireBail(b)
    \/ expire_warrants
    \/ expire_bail_records

Spec == Init /\ [][Next]_vars

-----------------------------------------------------------------------------
(* Properties.                                                              *)

CustodyStatuses == {"IN_CUSTODY", "BAIL_GRANTED", "REMANDED", "RELEASED", "ESCAPED"}
Steps == {"idle", "execute", "cancel", "executeOnArrest", "update", "insert", "grant", "revoke", "restore"}

(* The variables have their types, and an arrest names no warrant that was  *)
(* never requested.                                                         *)
TypeOK ==
    /\ custody \in [Arrests -> CustodyStatuses \cup {"absent"}]
    /\ underWarrant \in [Arrests -> Warrants \cup {None}]
    /\ \A a \in Arrests : underWarrant[a] \in Warrants => warrant[underWarrant[a]] # "absent"
    /\ warrant \in [Warrants -> {"absent", "ISSUED", "EXECUTED", "CANCELLED", "EXPIRED"}]
    /\ expired \subseteq Warrants \cup Bails
    /\ bail \in [Bails -> {"absent", "ACTIVE", "REVOKED", "EXPIRED"}]
    /\ bailOf \in [Bails -> Arrests \cup {None}]
    /\ call \in [Sessions -> [step : Steps, on : Arrests \cup Warrants \cup {None}, bail : Bails \cup {None},
                              to : CustodyStatuses \cup {"absent", "EXECUTED", "CANCELLED"}]]
    /\ spoiled \subseteq Arrests \cup Warrants

ActiveBailsOf(a) == {b \in Bails : bail[b] = "ACTIVE" /\ bailOf[b] = a}

(* Calls about one arrest that follow each other, whichever sessions make   *)
(* them and whatever the other arrests and warrants go through, keep its    *)
(* bails and its custody together: one ACTIVE bail at most, and only for a  *)
(* person who is out on bail or was released after.                         *)
BailsAgreeWithCustody ==
    \A a \in Arrests : a \notin spoiled /\ ~Busy(a) =>
        /\ \A b1, b2 \in ActiveBailsOf(a) : b1 = b2
        /\ ActiveBailsOf(a) # {} => custody[a] \in {"BAIL_GRANTED", "RELEASED"}

(* Under the same proviso (the nightly jobs count as calls) warrants and    *)
(* bails stay EXECUTED, CANCELLED, REVOKED and EXPIRED, nobody comes back   *)
(* from ESCAPED, and only revokeBail takes a released person back into      *)
(* custody.                                                                 *)
FinalStatesAreKept ==
    [][ /\ \A w \in Warrants \ spoiled' :
              warrant[w] \in {"EXECUTED", "CANCELLED", "EXPIRED"} => warrant'[w] = warrant[w]
        /\ \A b \in Bails : bail[b] \in {"REVOKED", "EXPIRED"} /\ bailOf[b] \notin spoiled' => bail'[b] = bail[b]
        /\ \A a \in Arrests \ spoiled' :
              /\ custody[a] = "ESCAPED" => custody'[a] = "ESCAPED"
              /\ custody[a] = "RELEASED" /\ custody'[a] # "RELEASED" =>
                    \E s \in Sessions : call[s].on = a /\ call[s].step = "restore" ]_vars

(* "RELEASED -> (terminal)", "ESCAPED -> (terminal)".  Two calls that        *)
(* overlap, or a bail that is revoked after the release, refute it; what      *)
(* holds is FinalStatesAreKept.                                              *)
TerminalCustody ==
    [][\A a \in Arrests : custody[a] \in {"RELEASED", "ESCAPED"} => custody'[a] = custody[a]]_vars
=============================================================================
