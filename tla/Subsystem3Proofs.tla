-------------------------- MODULE Subsystem3Proofs ----------------------------
(***************************************************************************)
(* Proofs about the two components of subsystem 3 that change rows:          *)
(* Enforcement, for any number of sessions, arrests, warrants and bails, any *)
(* ranks and any MinimumRank; and Forensics, for any number of programs,     *)
(* requests and items, any cases and any set of schemas.                      *)
(***************************************************************************)
EXTENDS Enforcement, Forensics, TLAPS

(* What a call under way has to do with the rows it is about.               *)
CallsOK ==
    \A s \in Sessions : LET c == call[s] IN
        /\ c.step = "idle" => c.on = None
        /\ c.step \in {"execute", "cancel", "executeOnArrest"} =>
              c.on \in Warrants /\ c.to \in {"EXECUTED", "CANCELLED"}
        /\ c.step \in {"update", "insert", "grant", "revoke", "restore"} =>
              c.on \in Arrests /\ c.to \in CustodyStatuses
        /\ c.step \in {"insert", "grant"} => c.to = "BAIL_GRANTED"
        /\ c.step \in {"grant", "revoke", "restore"} =>
              c.bail \in Bails /\ bailOf[c.bail] = c.on /\ bail[c.bail] # "absent"

BailsOK == \A b \in Bails : bail[b] # "absent" => bailOf[b] \in Arrests

(* Calls about a row that is not spoiled come one after another.            *)
Serial ==
    \A s1, s2 \in Sessions :
        call[s1].on # None /\ call[s1].on = call[s2].on /\ call[s1].on \notin spoiled => s1 = s2

TypeInv == TypeOK /\ CallsOK /\ BailsOK /\ Serial

(* What the check at the beginning of a call has found still holds.         *)
WarrantsOK ==
    \A s \in Sessions :
        call[s].step \in {"execute", "cancel"} /\ call[s].on \notin spoiled => warrant[call[s].on] = "ISSUED"

Agree(a) ==
    /\ \A b1, b2 \in ActiveBailsOf(a) : b1 = b2
    /\ ActiveBailsOf(a) # {} => custody[a] \in {"BAIL_GRANTED", "RELEASED"}

OnArrest(s) == LET c == call[s]  a == c.on IN
    /\ c.step = "update" => Agree(a) /\ <<custody[a], c.to>> \in TRANSITIONS
    /\ c.step = "insert" => custody[a] = "IN_CUSTODY" /\ ActiveBailsOf(a) = {}
    /\ c.step = "grant" => custody[a] = "IN_CUSTODY" /\ \A b \in ActiveBailsOf(a) : b = c.bail
    /\ c.step = "revoke" => Agree(a) /\ bail[c.bail] = "ACTIVE"
    /\ c.step = "restore" => custody[a] \in {"BAIL_GRANTED", "RELEASED"} /\ ActiveBailsOf(a) = {}

ArrestsOK ==
    /\ \A s \in Sessions : call[s].on \in Arrests \ spoiled => OnArrest(s)
    /\ \A a \in Arrests \ spoiled : ~Busy(a) => Agree(a)

LEMMA InitTypeInv == Init => TypeInv
BY EnforcementAssumption DEF Init, TypeInv, TypeOK, CallsOK, BailsOK, Serial, Idle, Steps, CustodyStatuses

LEMMA StepTypeOK ==
    ASSUME TypeInv, [Next]_vars
    PROVE  TypeOK'
<1> USE EnforcementAssumption DEF TypeInv
<1>1. ASSUME NEW s \in Sessions, Fail(s) PROVE TypeOK'
  BY <1>1 DEF Fail, TypeOK, CallsOK, BailsOK, Idle, Steps, CustodyStatuses, rows
<1>2. ASSUME NEW s \in Sessions, NEW w \in Warrants, requestWarrant(s, w) PROVE TypeOK'
  BY <1>2 DEF requestWarrant, TypeOK, CallsOK, BailsOK, Idle, Steps, CustodyStatuses, rows
<1>3. ASSUME NEW s \in Sessions, NEW w \in Warrants, executeWarrant(s, w) PROVE TypeOK'
  BY <1>3 DEF executeWarrant, Start, MayChange, TypeOK, CallsOK, BailsOK, Idle, Steps, CustodyStatuses, rows
<1>4. ASSUME NEW s \in Sessions, NEW w \in Warrants, cancelWarrant(s, w) PROVE TypeOK'
  BY <1>4 DEF cancelWarrant, Start, MayChange, TypeOK, CallsOK, BailsOK, Idle, Steps, CustodyStatuses, rows
<1>5. ASSUME NEW s \in Sessions, UpdateWarrant(s) PROVE TypeOK'
  BY <1>5 DEF UpdateWarrant, Return, TypeOK, CallsOK, BailsOK, Idle, Steps, CustodyStatuses, rows
<1>6. ASSUME NEW s \in Sessions, NEW a \in Arrests, NEW w \in Warrants \cup {None}, recordArrest(s, a, w) PROVE TypeOK'
  <2>1. /\ custody' \in [Arrests -> CustodyStatuses \cup {"absent"}]
        /\ underWarrant' \in [Arrests -> Warrants \cup {None}]
        /\ \A x \in Arrests : underWarrant'[x] \in Warrants => warrant[underWarrant'[x]] # "absent"
    BY <1>6 DEF recordArrest, Exists, TypeOK, CustodyStatuses
  <2>2. UNCHANGED <<warrant, expired, bail, bailOf>>
    BY <1>6 DEF recordArrest
  <2>3. CASE w = None
    <3>1. UNCHANGED <<call, spoiled>>
      BY <1>6, <2>3 DEF recordArrest
    <3> QED BY <2>1, <2>2, <3>1 DEF TypeOK
  <2>4. CASE w # None
    <3>1. Start(s, "executeOnArrest", w, None, "EXECUTED") /\ w \in Warrants
      BY <1>6, <2>4 DEF recordArrest
    <3>2. /\ call' \in [Sessions -> [step : Steps, on : Arrests \cup Warrants \cup {None}, bail : Bails \cup {None},
                                    to : CustodyStatuses \cup {"absent", "EXECUTED", "CANCELLED"}]]
          /\ spoiled' \subseteq Arrests \cup Warrants
      BY <3>1 DEF Start, TypeOK, Steps
    <3> QED BY <2>1, <2>2, <3>2 DEF TypeOK
  <2> QED BY <2>3, <2>4
<1>7. ASSUME NEW s \in Sessions, ExecuteOnArrest(s) PROVE TypeOK'
  BY <1>7 DEF ExecuteOnArrest, Return, StillIssued, TypeOK, CallsOK, BailsOK, Idle, Steps, CustodyStatuses, rows
<1>8. ASSUME NEW s \in Sessions, NEW a \in Arrests, NEW to \in {"BAIL_GRANTED", "REMANDED", "RELEASED", "ESCAPED"}, updateCustodyStatus(s, a, to) PROVE TypeOK'
  BY <1>8 DEF updateCustodyStatus, Start, TypeOK, CallsOK, BailsOK, Idle, Steps, CustodyStatuses, rows
<1>9. ASSUME NEW s \in Sessions, UpdateStatus(s) PROVE TypeOK'
  BY <1>9 DEF UpdateStatus, Return, TypeOK, CallsOK, BailsOK, Idle, Steps, CustodyStatuses, rows
<1>10. ASSUME NEW s \in Sessions, NEW a \in Arrests, recordBail(s, a) PROVE TypeOK'
  BY <1>10 DEF recordBail, Start, MayGetBail, TypeOK, CallsOK, BailsOK, Idle, Steps, CustodyStatuses, rows
<1>11. ASSUME NEW s \in Sessions, NEW b \in Bails, InsertBail(s, b) PROVE TypeOK'
  <2>1. /\ bail' \in [Bails -> {"absent", "ACTIVE", "REVOKED", "EXPIRED"}]
        /\ bailOf' \in [Bails -> Arrests \cup {None}]
    BY <1>11 DEF InsertBail, TypeOK, CallsOK
  <2>2. call' \in [Sessions -> [step : Steps, on : Arrests \cup Warrants \cup {None}, bail : Bails \cup {None},
                               to : CustodyStatuses \cup {"absent", "EXECUTED", "CANCELLED"}]]
    <3> DEFINE Calls == [step : Steps, on : Arrests \cup Warrants \cup {None}, bail : Bails \cup {None},
                         to : CustodyStatuses \cup {"absent", "EXECUTED", "CANCELLED"}]
    <3>1. call[s] \in Calls /\ call \in [Sessions -> Calls]
      BY DEF TypeOK
    <3>2. [call[s] EXCEPT !.step = "grant", !.bail = b] \in Calls
      BY <3>1 DEF Steps
    <3>3. call' = [call EXCEPT ![s] = [call[s] EXCEPT !.step = "grant", !.bail = b]]
      BY <1>11, <3>1 DEF InsertBail
    <3> HIDE DEF Calls
    <3>4. call' \in [Sessions -> Calls]
      BY <3>1, <3>2, <3>3
    <3> QED BY <3>4 DEF Calls
  <2> QED BY <1>11, <2>1, <2>2 DEF InsertBail, TypeOK
<1>12. ASSUME NEW s \in Sessions, NEW b \in Bails, revokeBail(s, b) PROVE TypeOK'
  BY <1>12 DEF revokeBail, Start, TypeOK, CallsOK, BailsOK, Idle, Steps, CustodyStatuses, rows
<1>13. ASSUME NEW s \in Sessions, GrantBail(s) PROVE TypeOK'
  BY <1>13 DEF GrantBail, Return, TypeOK, CallsOK, BailsOK, Idle, Steps, CustodyStatuses, rows
<1>14. ASSUME NEW s \in Sessions, RevokeBail(s) PROVE TypeOK'
  BY <1>14 DEF RevokeBail, TypeOK, CallsOK, BailsOK, Idle, Steps, CustodyStatuses, rows
<1>15. ASSUME NEW s \in Sessions, RestoreCustody(s) PROVE TypeOK'
  BY <1>15 DEF RestoreCustody, Return, TypeOK, CallsOK, BailsOK, Idle, Steps, CustodyStatuses, rows
<1>16. ASSUME NEW w \in Warrants, ExpireWarrant(w) PROVE TypeOK'
  BY <1>16 DEF ExpireWarrant, TypeOK, CallsOK, BailsOK, Idle, Steps, CustodyStatuses
<1>17. ASSUME NEW b \in Bails, ExpireBail(b) PROVE TypeOK'
  BY <1>17 DEF ExpireBail, TypeOK, CallsOK, BailsOK, Idle, Steps, CustodyStatuses
<1>18. ASSUME expire_warrants PROVE TypeOK'
  BY <1>18 DEF expire_warrants, TypeOK, CallsOK, BailsOK, Idle, Steps, CustodyStatuses
<1>19. ASSUME expire_bail_records PROVE TypeOK'
  BY <1>19 DEF expire_bail_records, TypeOK, CallsOK, BailsOK, Idle, Steps, CustodyStatuses
<1>20. ASSUME UNCHANGED vars PROVE TypeOK'
  BY <1>20 DEF vars, rows, TypeOK, CallsOK, BailsOK, Idle, Steps, CustodyStatuses
<1> QED BY <1>1, <1>2, <1>3, <1>4, <1>5, <1>6, <1>7, <1>8, <1>9, <1>10, <1>11, <1>12, <1>13, <1>14, <1>15, <1>16, <1>17, <1>18, <1>19, <1>20 DEF Next, Step

LEMMA StepCallsOK ==
    ASSUME TypeInv, [Next]_vars
    PROVE  (CallsOK /\ BailsOK)'
<1> USE EnforcementAssumption DEF TypeInv
<1>1. ASSUME NEW s \in Sessions, Fail(s) PROVE (CallsOK /\ BailsOK)'
  BY <1>1 DEF Fail, TypeOK, CallsOK, BailsOK, Idle, Steps, CustodyStatuses, rows
<1>2. ASSUME NEW s \in Sessions, NEW w \in Warrants, requestWarrant(s, w) PROVE (CallsOK /\ BailsOK)'
  BY <1>2 DEF requestWarrant, TypeOK, CallsOK, BailsOK, Idle, Steps, CustodyStatuses, rows
<1>3. ASSUME NEW s \in Sessions, NEW w \in Warrants, executeWarrant(s, w) PROVE (CallsOK /\ BailsOK)'
  BY <1>3 DEF executeWarrant, Start, MayChange, TypeOK, CallsOK, BailsOK, Idle, Steps, CustodyStatuses, rows
<1>4. ASSUME NEW s \in Sessions, NEW w \in Warrants, cancelWarrant(s, w) PROVE (CallsOK /\ BailsOK)'
  BY <1>4 DEF cancelWarrant, Start, MayChange, TypeOK, CallsOK, BailsOK, Idle, Steps, CustodyStatuses, rows
<1>5. ASSUME NEW s \in Sessions, UpdateWarrant(s) PROVE (CallsOK /\ BailsOK)'
  BY <1>5 DEF UpdateWarrant, Return, TypeOK, CallsOK, BailsOK, Idle, Steps, CustodyStatuses, rows
<1>6. ASSUME NEW s \in Sessions, NEW a \in Arrests, NEW w \in Warrants \cup {None}, recordArrest(s, a, w) PROVE (CallsOK /\ BailsOK)'
  BY <1>6 DEF recordArrest, Start, Exists, TypeOK, CallsOK, BailsOK, Idle, Steps, CustodyStatuses, rows
<1>7. ASSUME NEW s \in Sessions, ExecuteOnArrest(s) PROVE (CallsOK /\ BailsOK)'
  BY <1>7 DEF ExecuteOnArrest, Return, StillIssued, TypeOK, CallsOK, BailsOK, Idle, Steps, CustodyStatuses, rows
<1>8. ASSUME NEW s \in Sessions, NEW a \in Arrests, NEW to \in {"BAIL_GRANTED", "REMANDED", "RELEASED", "ESCAPED"}, updateCustodyStatus(s, a, to) PROVE (CallsOK /\ BailsOK)'
  BY <1>8 DEF updateCustodyStatus, Start, TypeOK, CallsOK, BailsOK, Idle, Steps, CustodyStatuses, rows
<1>9. ASSUME NEW s \in Sessions, UpdateStatus(s) PROVE (CallsOK /\ BailsOK)'
  BY <1>9 DEF UpdateStatus, Return, TypeOK, CallsOK, BailsOK, Idle, Steps, CustodyStatuses, rows
<1>10. ASSUME NEW s \in Sessions, NEW a \in Arrests, recordBail(s, a) PROVE (CallsOK /\ BailsOK)'
  BY <1>10 DEF recordBail, Start, MayGetBail, TypeOK, CallsOK, BailsOK, Idle, Steps, CustodyStatuses, rows
<1>11. ASSUME NEW s \in Sessions, NEW b \in Bails, InsertBail(s, b) PROVE (CallsOK /\ BailsOK)'
  BY <1>11 DEF InsertBail, TypeOK, CallsOK, BailsOK, Idle, Steps, CustodyStatuses, rows
<1>12. ASSUME NEW s \in Sessions, NEW b \in Bails, revokeBail(s, b) PROVE (CallsOK /\ BailsOK)'
  BY <1>12 DEF revokeBail, Start, TypeOK, CallsOK, BailsOK, Idle, Steps, CustodyStatuses, rows
<1>13. ASSUME NEW s \in Sessions, GrantBail(s) PROVE (CallsOK /\ BailsOK)'
  BY <1>13 DEF GrantBail, Return, TypeOK, CallsOK, BailsOK, Idle, Steps, CustodyStatuses, rows
<1>14. ASSUME NEW s \in Sessions, RevokeBail(s) PROVE (CallsOK /\ BailsOK)'
  BY <1>14 DEF RevokeBail, TypeOK, CallsOK, BailsOK, Idle, Steps, CustodyStatuses, rows
<1>15. ASSUME NEW s \in Sessions, RestoreCustody(s) PROVE (CallsOK /\ BailsOK)'
  BY <1>15 DEF RestoreCustody, Return, TypeOK, CallsOK, BailsOK, Idle, Steps, CustodyStatuses, rows
<1>16. ASSUME NEW w \in Warrants, ExpireWarrant(w) PROVE (CallsOK /\ BailsOK)'
  BY <1>16 DEF ExpireWarrant, TypeOK, CallsOK, BailsOK, Idle, Steps, CustodyStatuses
<1>17. ASSUME NEW b \in Bails, ExpireBail(b) PROVE (CallsOK /\ BailsOK)'
  BY <1>17 DEF ExpireBail, TypeOK, CallsOK, BailsOK, Idle, Steps, CustodyStatuses
<1>18. ASSUME expire_warrants PROVE (CallsOK /\ BailsOK)'
  BY <1>18 DEF expire_warrants, TypeOK, CallsOK, BailsOK, Idle, Steps, CustodyStatuses
<1>19. ASSUME expire_bail_records PROVE (CallsOK /\ BailsOK)'
  BY <1>19 DEF expire_bail_records, TypeOK, CallsOK, BailsOK, Idle, Steps, CustodyStatuses
<1>20. ASSUME UNCHANGED vars PROVE (CallsOK /\ BailsOK)'
  BY <1>20 DEF vars, rows, TypeOK, CallsOK, BailsOK, Idle, Steps, CustodyStatuses
<1> QED BY <1>1, <1>2, <1>3, <1>4, <1>5, <1>6, <1>7, <1>8, <1>9, <1>10, <1>11, <1>12, <1>13, <1>14, <1>15, <1>16, <1>17, <1>18, <1>19, <1>20 DEF Next, Step

LEMMA StepSerial ==
    ASSUME TypeInv, [Next]_vars
    PROVE  Serial'
<1> USE EnforcementAssumption DEF TypeInv
<1>1. ASSUME NEW s \in Sessions, Fail(s) PROVE Serial'
  BY <1>1 DEF Fail, TypeOK, CallsOK, Serial, Busy, Idle, Steps, CustodyStatuses, rows
<1>2. ASSUME NEW s \in Sessions, NEW w \in Warrants, requestWarrant(s, w) PROVE Serial'
  BY <1>2 DEF requestWarrant, TypeOK, CallsOK, Serial, Busy, Idle, Steps, CustodyStatuses, rows
<1>3. ASSUME NEW s \in Sessions, NEW w \in Warrants, executeWarrant(s, w) PROVE Serial'
  BY <1>3 DEF executeWarrant, Start, MayChange, TypeOK, CallsOK, Serial, Busy, Idle, Steps, CustodyStatuses, rows
<1>4. ASSUME NEW s \in Sessions, NEW w \in Warrants, cancelWarrant(s, w) PROVE Serial'
  BY <1>4 DEF cancelWarrant, Start, MayChange, TypeOK, CallsOK, Serial, Busy, Idle, Steps, CustodyStatuses, rows
<1>5. ASSUME NEW s \in Sessions, UpdateWarrant(s) PROVE Serial'
  BY <1>5 DEF UpdateWarrant, Return, TypeOK, CallsOK, Serial, Busy, Idle, Steps, CustodyStatuses, rows
<1>6. ASSUME NEW s \in Sessions, NEW a \in Arrests, NEW w \in Warrants \cup {None}, recordArrest(s, a, w) PROVE Serial'
  BY <1>6 DEF recordArrest, Start, Exists, TypeOK, CallsOK, Serial, Busy, Idle, Steps, CustodyStatuses, rows
<1>7. ASSUME NEW s \in Sessions, ExecuteOnArrest(s) PROVE Serial'
  BY <1>7 DEF ExecuteOnArrest, Return, StillIssued, TypeOK, CallsOK, Serial, Busy, Idle, Steps, CustodyStatuses, rows
<1>8. ASSUME NEW s \in Sessions, NEW a \in Arrests, NEW to \in {"BAIL_GRANTED", "REMANDED", "RELEASED", "ESCAPED"}, updateCustodyStatus(s, a, to) PROVE Serial'
  BY <1>8 DEF updateCustodyStatus, Start, TypeOK, CallsOK, Serial, Busy, Idle, Steps, CustodyStatuses, rows
<1>9. ASSUME NEW s \in Sessions, UpdateStatus(s) PROVE Serial'
  BY <1>9 DEF UpdateStatus, Return, TypeOK, CallsOK, Serial, Busy, Idle, Steps, CustodyStatuses, rows
<1>10. ASSUME NEW s \in Sessions, NEW a \in Arrests, recordBail(s, a) PROVE Serial'
  BY <1>10 DEF recordBail, Start, MayGetBail, TypeOK, CallsOK, Serial, Busy, Idle, Steps, CustodyStatuses, rows
<1>11. ASSUME NEW s \in Sessions, NEW b \in Bails, InsertBail(s, b) PROVE Serial'
  BY <1>11 DEF InsertBail, TypeOK, CallsOK, Serial, Busy, Idle, Steps, CustodyStatuses, rows
<1>12. ASSUME NEW s \in Sessions, NEW b \in Bails, revokeBail(s, b) PROVE Serial'
  BY <1>12 DEF revokeBail, Start, TypeOK, CallsOK, Serial, Busy, Idle, Steps, CustodyStatuses, rows
<1>13. ASSUME NEW s \in Sessions, GrantBail(s) PROVE Serial'
  BY <1>13 DEF GrantBail, Return, TypeOK, CallsOK, Serial, Busy, Idle, Steps, CustodyStatuses, rows
<1>14. ASSUME NEW s \in Sessions, RevokeBail(s) PROVE Serial'
  BY <1>14 DEF RevokeBail, TypeOK, CallsOK, Serial, Busy, Idle, Steps, CustodyStatuses, rows
<1>15. ASSUME NEW s \in Sessions, RestoreCustody(s) PROVE Serial'
  BY <1>15 DEF RestoreCustody, Return, TypeOK, CallsOK, Serial, Busy, Idle, Steps, CustodyStatuses, rows
<1>16. ASSUME NEW w \in Warrants, ExpireWarrant(w) PROVE Serial'
  BY <1>16 DEF ExpireWarrant, TypeOK, CallsOK, Serial, Busy, Idle, Steps, CustodyStatuses
<1>17. ASSUME NEW b \in Bails, ExpireBail(b) PROVE Serial'
  BY <1>17 DEF ExpireBail, TypeOK, CallsOK, Serial, Busy, Idle, Steps, CustodyStatuses
<1>18. ASSUME expire_warrants PROVE Serial'
  BY <1>18 DEF expire_warrants, TypeOK, CallsOK, Serial, Busy, Idle, Steps, CustodyStatuses
<1>19. ASSUME expire_bail_records PROVE Serial'
  BY <1>19 DEF expire_bail_records, TypeOK, CallsOK, Serial, Busy, Idle, Steps, CustodyStatuses
<1>20. ASSUME UNCHANGED vars PROVE Serial'
  BY <1>20 DEF vars, rows, TypeOK, CallsOK, Serial, Busy, Idle, Steps, CustodyStatuses
<1> QED BY <1>1, <1>2, <1>3, <1>4, <1>5, <1>6, <1>7, <1>8, <1>9, <1>10, <1>11, <1>12, <1>13, <1>14, <1>15, <1>16, <1>17, <1>18, <1>19, <1>20 DEF Next, Step

LEMMA TypeInvariant == Spec => []TypeInv
<1>1. TypeInv /\ [Next]_vars => TypeInv'
  BY StepTypeOK, StepCallsOK, StepSerial DEF TypeInv
<1> QED BY <1>1, InitTypeInv, PTL DEF Spec

(* The types, and that arrests name warrants that exist.                    *)
THEOREM TypeCorrect == Spec => []TypeOK
<1>1. TypeInv => TypeOK
  BY DEF TypeInv
<1> QED BY <1>1, TypeInvariant, PTL

-----------------------------------------------------------------------------
(* Warrants.  The only write that looks at nothing is the one of a call     *)
(* that has checked, alone with the warrant.                                *)

LEMMA StepWarrantsOK ==
    ASSUME TypeInv, WarrantsOK, [Next]_vars
    PROVE  WarrantsOK'
<1> USE EnforcementAssumption DEF TypeInv
<1>1. ASSUME NEW s \in Sessions, Fail(s) PROVE WarrantsOK'
  BY <1>1 DEF Fail, TypeOK, CallsOK, Serial, WarrantsOK, Busy, Idle, rows
<1>2. ASSUME NEW s \in Sessions, NEW w \in Warrants, requestWarrant(s, w) PROVE WarrantsOK'
  BY <1>2 DEF requestWarrant, TypeOK, CallsOK, Serial, WarrantsOK, Busy, Idle, rows
<1>3. ASSUME NEW s \in Sessions, NEW w \in Warrants, executeWarrant(s, w) PROVE WarrantsOK'
  BY <1>3 DEF executeWarrant, Start, MayChange, TypeOK, CallsOK, Serial, WarrantsOK, Busy, Idle, rows
<1>4. ASSUME NEW s \in Sessions, NEW w \in Warrants, cancelWarrant(s, w) PROVE WarrantsOK'
  BY <1>4 DEF cancelWarrant, Start, MayChange, TypeOK, CallsOK, Serial, WarrantsOK, Busy, Idle, rows
<1>5. ASSUME NEW s \in Sessions, UpdateWarrant(s) PROVE WarrantsOK'
  BY <1>5 DEF UpdateWarrant, Return, TypeOK, CallsOK, Serial, WarrantsOK, Busy, Idle, rows
<1>6. ASSUME NEW s \in Sessions, NEW a \in Arrests, NEW w \in Warrants \cup {None}, recordArrest(s, a, w) PROVE WarrantsOK'
  BY <1>6 DEF recordArrest, Start, Exists, TypeOK, CallsOK, Serial, WarrantsOK, Busy, Idle, rows
<1>7. ASSUME NEW s \in Sessions, ExecuteOnArrest(s) PROVE WarrantsOK'
  BY <1>7 DEF ExecuteOnArrest, Return, StillIssued, TypeOK, CallsOK, Serial, WarrantsOK, Busy, Idle, rows
<1>8. ASSUME NEW s \in Sessions, NEW a \in Arrests, NEW to \in {"BAIL_GRANTED", "REMANDED", "RELEASED", "ESCAPED"}, updateCustodyStatus(s, a, to) PROVE WarrantsOK'
  BY <1>8 DEF updateCustodyStatus, Start, TypeOK, CallsOK, Serial, WarrantsOK, Busy, Idle, rows
<1>9. ASSUME NEW s \in Sessions, UpdateStatus(s) PROVE WarrantsOK'
  BY <1>9 DEF UpdateStatus, Return, TypeOK, CallsOK, Serial, WarrantsOK, Busy, Idle, rows
<1>10. ASSUME NEW s \in Sessions, NEW a \in Arrests, recordBail(s, a) PROVE WarrantsOK'
  BY <1>10 DEF recordBail, Start, MayGetBail, TypeOK, CallsOK, Serial, WarrantsOK, Busy, Idle, rows
<1>11. ASSUME NEW s \in Sessions, NEW b \in Bails, InsertBail(s, b) PROVE WarrantsOK'
  BY <1>11 DEF InsertBail, TypeOK, CallsOK, Serial, WarrantsOK, Busy, Idle, rows
<1>12. ASSUME NEW s \in Sessions, NEW b \in Bails, revokeBail(s, b) PROVE WarrantsOK'
  BY <1>12 DEF revokeBail, Start, TypeOK, CallsOK, Serial, WarrantsOK, Busy, Idle, rows
<1>13. ASSUME NEW s \in Sessions, GrantBail(s) PROVE WarrantsOK'
  BY <1>13 DEF GrantBail, Return, TypeOK, CallsOK, Serial, WarrantsOK, Busy, Idle, rows
<1>14. ASSUME NEW s \in Sessions, RevokeBail(s) PROVE WarrantsOK'
  BY <1>14 DEF RevokeBail, TypeOK, CallsOK, Serial, WarrantsOK, Busy, Idle, rows
<1>15. ASSUME NEW s \in Sessions, RestoreCustody(s) PROVE WarrantsOK'
  BY <1>15 DEF RestoreCustody, Return, TypeOK, CallsOK, Serial, WarrantsOK, Busy, Idle, rows
<1>16. ASSUME NEW w \in Warrants, ExpireWarrant(w) PROVE WarrantsOK'
  BY <1>16 DEF ExpireWarrant, TypeOK, CallsOK, Serial, WarrantsOK, Busy, Idle
<1>17. ASSUME NEW b \in Bails, ExpireBail(b) PROVE WarrantsOK'
  BY <1>17 DEF ExpireBail, TypeOK, CallsOK, Serial, WarrantsOK, Busy, Idle
<1>18. ASSUME expire_warrants PROVE WarrantsOK'
  BY <1>18 DEF expire_warrants, TypeOK, CallsOK, Serial, WarrantsOK, Busy, Idle
<1>19. ASSUME expire_bail_records PROVE WarrantsOK'
  BY <1>19 DEF expire_bail_records, TypeOK, CallsOK, Serial, WarrantsOK, Busy, Idle
<1>20. ASSUME UNCHANGED vars PROVE WarrantsOK'
  BY <1>20 DEF vars, rows, TypeOK, CallsOK, Serial, WarrantsOK, Busy, Idle
<1> QED BY <1>1, <1>2, <1>3, <1>4, <1>5, <1>6, <1>7, <1>8, <1>9, <1>10, <1>11, <1>12, <1>13, <1>14, <1>15, <1>16, <1>17, <1>18, <1>19, <1>20 DEF Next, Step

-----------------------------------------------------------------------------
(* Arrests.                                                                 *)

LEMMA StepArrestsOK ==
    ASSUME TypeInv, ArrestsOK, [Next]_vars
    PROVE  ArrestsOK'
<1> USE EnforcementAssumption DEF TypeInv
<1>1. ASSUME NEW s \in Sessions, Fail(s) PROVE ArrestsOK'
  <2>1. /\ UNCHANGED rows
        /\ spoiled \subseteq spoiled'
        /\ call' = [call EXCEPT ![s] = Idle]
    BY <1>1 DEF Fail
  <2>2. \A a \in Arrests : (Agree(a)' <=> Agree(a))
    BY <2>1 DEF rows, Agree, ActiveBailsOf
  <2>3. \A t \in Sessions : call'[t].on \in Arrests => t # s /\ call'[t] = call[t]
    BY <2>1 DEF Idle, TypeOK
  <2>4. \A t \in Sessions : call'[t].on \in Arrests \ spoiled' => OnArrest(t)'
    BY <2>1, <2>3 DEF rows, ArrestsOK, OnArrest, Agree, ActiveBailsOf, TypeOK
  <2>5. ASSUME NEW a \in Arrests \ spoiled', ~Busy(a)' PROVE Agree(a)
    <3>1. CASE call[s].on = a
      <4>1. call[s].step \in {"update", "insert", "revoke"}
        BY <1>1, <2>5, <3>1 DEF Fail, CallsOK, TypeOK, Steps
      <4>2. OnArrest(s)
        BY <2>1, <2>5, <3>1 DEF ArrestsOK
      <4> QED BY <3>1, <4>1, <4>2 DEF OnArrest, Agree
    <3>2. CASE call[s].on # a
      <4>1. ~Busy(a)
        BY <2>1, <2>5, <3>2 DEF Busy, TypeOK
      <4> QED BY <2>1, <2>5, <4>1 DEF ArrestsOK
    <3> QED BY <3>1, <3>2
  <2> QED BY <2>2, <2>4, <2>5 DEF ArrestsOK
<1>2. ASSUME NEW s \in Sessions, NEW w \in Warrants, requestWarrant(s, w) PROVE ArrestsOK'
  BY <1>2 DEF requestWarrant, TypeOK, CallsOK, BailsOK, Serial, ArrestsOK, OnArrest, Agree, ActiveBailsOf, Busy, Idle, TRANSITIONS, rows
<1>3. ASSUME NEW s \in Sessions, NEW w \in Warrants, executeWarrant(s, w) PROVE ArrestsOK'
  BY <1>3 DEF executeWarrant, Start, MayChange, TypeOK, CallsOK, BailsOK, Serial, ArrestsOK, OnArrest, Agree, ActiveBailsOf, Busy, Idle, TRANSITIONS, rows
<1>4. ASSUME NEW s \in Sessions, NEW w \in Warrants, cancelWarrant(s, w) PROVE ArrestsOK'
  BY <1>4 DEF cancelWarrant, Start, MayChange, TypeOK, CallsOK, BailsOK, Serial, ArrestsOK, OnArrest, Agree, ActiveBailsOf, Busy, Idle, TRANSITIONS, rows
<1>5. ASSUME NEW s \in Sessions, UpdateWarrant(s) PROVE ArrestsOK'
  <2>1. /\ UNCHANGED <<custody, bail, bailOf, spoiled>>
        /\ call' = [call EXCEPT ![s] = Idle]
        /\ call[s].step \in {"execute", "cancel"}
    BY <1>5 DEF UpdateWarrant, Return
  <2>2. call[s].on \notin Arrests
    BY <2>1 DEF CallsOK, TypeOK, Steps
  <2>3. \A a \in Arrests : (Agree(a)' <=> Agree(a)) /\ (Busy(a)' <=> Busy(a))
    BY <2>1, <2>2 DEF Agree, ActiveBailsOf, Busy, Idle, TypeOK
  <2>4. \A t \in Sessions : call'[t].on \in Arrests => t # s /\ call'[t] = call[t]
    BY <2>1 DEF Idle, TypeOK
  <2>5. \A t \in Sessions : call'[t].on \in Arrests \ spoiled' => OnArrest(t)'
    BY <2>1, <2>4 DEF ArrestsOK, OnArrest, Agree, ActiveBailsOf, TypeOK
  <2> QED BY <2>1, <2>3, <2>5 DEF ArrestsOK
<1>6. ASSUME NEW s \in Sessions, NEW a \in Arrests, NEW w \in Warrants \cup {None}, recordArrest(s, a, w) PROVE ArrestsOK'
  <2>1. /\ UNCHANGED <<bail, bailOf>>
        /\ spoiled \subseteq spoiled'
        /\ custody[a] = "absent" /\ custody' = [custody EXCEPT ![a] = "IN_CUSTODY"]
    BY <1>6 DEF recordArrest, Start
  <2>2. \A t \in Sessions : call'[t].on \in Arrests => call'[t] = call[t]
    BY <1>6 DEF recordArrest, Start, TypeOK
  <2>3. \A x \in Arrests : Busy(x) => Busy(x)'
    BY <1>6 DEF recordArrest, Start, Busy, Idle, TypeOK
  <2>4. \A x \in Arrests \ {a} : custody'[x] = custody[x]
    BY <2>1 DEF TypeOK
  <2>5. \A x \in Arrests \ {a} : Agree(x) => Agree(x)'
    BY <2>1, <2>4 DEF Agree, ActiveBailsOf
  <2>6. ASSUME NEW t \in Sessions, call'[t].on \in Arrests \ spoiled' PROVE OnArrest(t)'
    <3>1. call'[t] = call[t] /\ call[t].on \in Arrests \ spoiled /\ OnArrest(t)
      BY <2>1, <2>2, <2>6 DEF ArrestsOK
    <3>2. call[t].step \in {"update", "insert", "grant", "revoke", "restore"}
      BY <3>1 DEF CallsOK, TypeOK, Steps
    <3>3. CASE call[t].on # a
      BY <2>1, <2>4, <2>5, <3>1, <3>3 DEF OnArrest, ActiveBailsOf
    <3>4. CASE call[t].on = a
      <4>1. call[t].step = "revoke"
        BY <2>1, <3>1, <3>2, <3>4 DEF OnArrest, TRANSITIONS
      <4>2. call[t].bail \in ActiveBailsOf(a) /\ Agree(a)
        BY <3>1, <3>4, <4>1 DEF OnArrest, CallsOK, ActiveBailsOf
      <4> QED BY <2>1, <4>2 DEF Agree
    <3> QED BY <3>3, <3>4
  <2>7. ASSUME NEW x \in Arrests \ spoiled', ~Busy(x)' PROVE Agree(x)'
    <3>1. Agree(x)
      BY <2>1, <2>3, <2>7 DEF ArrestsOK
    <3>2. CASE x = a
      <4>1. ActiveBailsOf(a) = {}
        BY <2>1, <3>1, <3>2 DEF Agree
      <4> QED BY <2>1, <3>2, <4>1 DEF Agree, ActiveBailsOf
    <3> QED BY <2>5, <3>1, <3>2
  <2> QED BY <2>6, <2>7 DEF ArrestsOK
<1>7. ASSUME NEW s \in Sessions, ExecuteOnArrest(s) PROVE ArrestsOK'
  BY <1>7 DEF ExecuteOnArrest, Return, StillIssued, TypeOK, CallsOK, BailsOK, Serial, ArrestsOK, OnArrest, Agree, ActiveBailsOf, Busy, Idle, TRANSITIONS, rows
<1>8. ASSUME NEW s \in Sessions, NEW a \in Arrests, NEW to \in {"BAIL_GRANTED", "REMANDED", "RELEASED", "ESCAPED"}, updateCustodyStatus(s, a, to) PROVE ArrestsOK'
  BY <1>8 DEF updateCustodyStatus, Start, TypeOK, CallsOK, BailsOK, Serial, ArrestsOK, OnArrest, Agree, ActiveBailsOf, Busy, Idle, TRANSITIONS, rows
<1>9. ASSUME NEW s \in Sessions, UpdateStatus(s) PROVE ArrestsOK'
  BY <1>9 DEF UpdateStatus, Return, TypeOK, CallsOK, BailsOK, Serial, ArrestsOK, OnArrest, Agree, ActiveBailsOf, Busy, Idle, TRANSITIONS, rows
<1>10. ASSUME NEW s \in Sessions, NEW a \in Arrests, recordBail(s, a) PROVE ArrestsOK'
  BY <1>10 DEF recordBail, Start, MayGetBail, TypeOK, CallsOK, BailsOK, Serial, ArrestsOK, OnArrest, Agree, ActiveBailsOf, Busy, Idle, TRANSITIONS, rows
<1>11. ASSUME NEW s \in Sessions, NEW b \in Bails, InsertBail(s, b) PROVE ArrestsOK'
  BY <1>11 DEF InsertBail, TypeOK, CallsOK, BailsOK, Serial, ArrestsOK, OnArrest, Agree, ActiveBailsOf, Busy, Idle, TRANSITIONS, rows
<1>12. ASSUME NEW s \in Sessions, NEW b \in Bails, revokeBail(s, b) PROVE ArrestsOK'
  BY <1>12 DEF revokeBail, Start, TypeOK, CallsOK, BailsOK, Serial, ArrestsOK, OnArrest, Agree, ActiveBailsOf, Busy, Idle, TRANSITIONS, rows
<1>13. ASSUME NEW s \in Sessions, GrantBail(s) PROVE ArrestsOK'
  BY <1>13 DEF GrantBail, Return, TypeOK, CallsOK, BailsOK, Serial, ArrestsOK, OnArrest, Agree, ActiveBailsOf, Busy, Idle, TRANSITIONS, rows
<1>14. ASSUME NEW s \in Sessions, RevokeBail(s) PROVE ArrestsOK'
  BY <1>14 DEF RevokeBail, TypeOK, CallsOK, BailsOK, Serial, ArrestsOK, OnArrest, Agree, ActiveBailsOf, Busy, Idle, TRANSITIONS, rows
<1>15. ASSUME NEW s \in Sessions, RestoreCustody(s) PROVE ArrestsOK'
  BY <1>15 DEF RestoreCustody, Return, TypeOK, CallsOK, BailsOK, Serial, ArrestsOK, OnArrest, Agree, ActiveBailsOf, Busy, Idle, TRANSITIONS, rows
<1>16. ASSUME NEW w \in Warrants, ExpireWarrant(w) PROVE ArrestsOK'
  BY <1>16 DEF ExpireWarrant, TypeOK, CallsOK, BailsOK, Serial, ArrestsOK, OnArrest, Agree, ActiveBailsOf, Busy, Idle, TRANSITIONS
<1>17. ASSUME NEW b \in Bails, ExpireBail(b) PROVE ArrestsOK'
  BY <1>17 DEF ExpireBail, TypeOK, CallsOK, BailsOK, Serial, ArrestsOK, OnArrest, Agree, ActiveBailsOf, Busy, Idle, TRANSITIONS
<1>18. ASSUME expire_warrants PROVE ArrestsOK'
  BY <1>18 DEF expire_warrants, TypeOK, CallsOK, BailsOK, Serial, ArrestsOK, OnArrest, Agree, ActiveBailsOf, Busy, Idle, TRANSITIONS
<1>19. ASSUME expire_bail_records PROVE ArrestsOK'
  <2>1. /\ UNCHANGED <<custody, bailOf, call>>
        /\ spoiled \subseteq spoiled'
        /\ \A b \in Bails : bail'[b] # bail[b] => bail[b] = "ACTIVE" /\ bail'[b] # "ACTIVE"
        /\ \A b \in Bails : bail'[b] # bail[b] /\ bailOf[b] \in Arrests => bailOf[b] \in spoiled' \/ ~Busy(bailOf[b])
    BY <1>19 DEF expire_bail_records, TypeOK
  <2>2. \A a : ActiveBailsOf(a)' \subseteq ActiveBailsOf(a)
    BY <2>1 DEF ActiveBailsOf
  <2>3. \A a : Agree(a) => Agree(a)'
    BY <2>1, <2>2 DEF Agree
  <2>4. ASSUME NEW s \in Sessions, call[s].on \in Arrests \ spoiled' PROVE OnArrest(s)'
    <3>1. OnArrest(s)
      BY <2>1, <2>4 DEF ArrestsOK
    <3>2. Busy(call[s].on)
      BY <2>4 DEF Busy
    <3>3. call[s].step = "revoke" => bail'[call[s].bail] = bail[call[s].bail]
      BY <2>1, <2>4, <3>2 DEF CallsOK
    <3> QED BY <2>1, <2>2, <2>3, <3>1, <3>3 DEF OnArrest
  <2>5. \A a \in Arrests \ spoiled' : ~Busy(a)' => Agree(a)'
    BY <2>1, <2>3 DEF Busy, ArrestsOK
  <2> QED BY <2>1, <2>4, <2>5 DEF ArrestsOK
<1>20. ASSUME UNCHANGED vars PROVE ArrestsOK'
  BY <1>20 DEF vars, rows, TypeOK, CallsOK, BailsOK, Serial, ArrestsOK, OnArrest, Agree, ActiveBailsOf, Busy, Idle, TRANSITIONS
<1> QED BY <1>1, <1>2, <1>3, <1>4, <1>5, <1>6, <1>7, <1>8, <1>9, <1>10, <1>11, <1>12, <1>13, <1>14, <1>15, <1>16, <1>17, <1>18, <1>19, <1>20 DEF Next, Step

LEMMA EnforcementInvariant == Spec => [](TypeInv /\ WarrantsOK /\ ArrestsOK)
<1>1. Init => WarrantsOK /\ ArrestsOK
  BY DEF Init, Idle, WarrantsOK, ArrestsOK, OnArrest, Agree, ActiveBailsOf
<1> QED BY <1>1, TypeInvariant, StepWarrantsOK, StepArrestsOK, PTL DEF Spec

(* Bails and custody agree as long as the calls about an arrest follow each *)
(* other and none stops half way.                                           *)
THEOREM BailsAgreeWithCustodyCorrect == Spec => []BailsAgreeWithCustody
<1>1. ArrestsOK => BailsAgreeWithCustody
  BY DEF ArrestsOK, BailsAgreeWithCustody, Agree
<1> QED BY <1>1, EnforcementInvariant, PTL

(* What one step does to a final state.                                     *)
KeepsFinal ==
    /\ \A w \in Warrants \ spoiled' :
          warrant[w] \in {"EXECUTED", "CANCELLED", "EXPIRED"} => warrant'[w] = warrant[w]
    /\ \A b \in Bails : bail[b] \in {"REVOKED", "EXPIRED"} /\ bailOf[b] \notin spoiled' => bail'[b] = bail[b]
    /\ \A a \in Arrests \ spoiled' :
          /\ custody[a] = "ESCAPED" => custody'[a] = "ESCAPED"
          /\ custody[a] = "RELEASED" /\ custody'[a] # "RELEASED" =>
                \E s \in Sessions : call[s].on = a /\ call[s].step = "restore"

LEMMA StepKeepsFinal ==
    ASSUME TypeInv, WarrantsOK, ArrestsOK, [Next]_vars
    PROVE  KeepsFinal
<1> USE EnforcementAssumption DEF TypeInv
<1>1. ASSUME NEW s \in Sessions, Fail(s) PROVE KeepsFinal
  BY <1>1 DEF Fail, TypeOK, CallsOK, BailsOK, WarrantsOK, ArrestsOK, OnArrest, KeepsFinal, TRANSITIONS, rows
<1>2. ASSUME NEW s \in Sessions, NEW w \in Warrants, requestWarrant(s, w) PROVE KeepsFinal
  BY <1>2 DEF requestWarrant, TypeOK, CallsOK, BailsOK, WarrantsOK, ArrestsOK, OnArrest, KeepsFinal, TRANSITIONS, rows
<1>3. ASSUME NEW s \in Sessions, NEW w \in Warrants, executeWarrant(s, w) PROVE KeepsFinal
  BY <1>3 DEF executeWarrant, Start, MayChange, TypeOK, CallsOK, BailsOK, WarrantsOK, ArrestsOK, OnArrest, KeepsFinal, TRANSITIONS, rows
<1>4. ASSUME NEW s \in Sessions, NEW w \in Warrants, cancelWarrant(s, w) PROVE KeepsFinal
  BY <1>4 DEF cancelWarrant, Start, MayChange, TypeOK, CallsOK, BailsOK, WarrantsOK, ArrestsOK, OnArrest, KeepsFinal, TRANSITIONS, rows
<1>5. ASSUME NEW s \in Sessions, UpdateWarrant(s) PROVE KeepsFinal
  BY <1>5 DEF UpdateWarrant, Return, TypeOK, CallsOK, BailsOK, WarrantsOK, ArrestsOK, OnArrest, KeepsFinal, TRANSITIONS, rows
<1>6. ASSUME NEW s \in Sessions, NEW a \in Arrests, NEW w \in Warrants \cup {None}, recordArrest(s, a, w) PROVE KeepsFinal
  BY <1>6 DEF recordArrest, Start, Exists, TypeOK, CallsOK, BailsOK, WarrantsOK, ArrestsOK, OnArrest, KeepsFinal, TRANSITIONS, rows
<1>7. ASSUME NEW s \in Sessions, ExecuteOnArrest(s) PROVE KeepsFinal
  BY <1>7 DEF ExecuteOnArrest, Return, StillIssued, TypeOK, CallsOK, BailsOK, WarrantsOK, ArrestsOK, OnArrest, KeepsFinal, TRANSITIONS, rows
<1>8. ASSUME NEW s \in Sessions, NEW a \in Arrests, NEW to \in {"BAIL_GRANTED", "REMANDED", "RELEASED", "ESCAPED"}, updateCustodyStatus(s, a, to) PROVE KeepsFinal
  BY <1>8 DEF updateCustodyStatus, Start, TypeOK, CallsOK, BailsOK, WarrantsOK, ArrestsOK, OnArrest, KeepsFinal, TRANSITIONS, rows
<1>9. ASSUME NEW s \in Sessions, UpdateStatus(s) PROVE KeepsFinal
  BY <1>9 DEF UpdateStatus, Return, TypeOK, CallsOK, BailsOK, WarrantsOK, ArrestsOK, OnArrest, KeepsFinal, TRANSITIONS, rows
<1>10. ASSUME NEW s \in Sessions, NEW a \in Arrests, recordBail(s, a) PROVE KeepsFinal
  BY <1>10 DEF recordBail, Start, MayGetBail, TypeOK, CallsOK, BailsOK, WarrantsOK, ArrestsOK, OnArrest, KeepsFinal, TRANSITIONS, rows
<1>11. ASSUME NEW s \in Sessions, NEW b \in Bails, InsertBail(s, b) PROVE KeepsFinal
  BY <1>11 DEF InsertBail, TypeOK, CallsOK, BailsOK, WarrantsOK, ArrestsOK, OnArrest, KeepsFinal, TRANSITIONS, rows
<1>12. ASSUME NEW s \in Sessions, NEW b \in Bails, revokeBail(s, b) PROVE KeepsFinal
  BY <1>12 DEF revokeBail, Start, TypeOK, CallsOK, BailsOK, WarrantsOK, ArrestsOK, OnArrest, KeepsFinal, TRANSITIONS, rows
<1>13. ASSUME NEW s \in Sessions, GrantBail(s) PROVE KeepsFinal
  BY <1>13 DEF GrantBail, Return, TypeOK, CallsOK, BailsOK, WarrantsOK, ArrestsOK, OnArrest, KeepsFinal, TRANSITIONS, rows
<1>14. ASSUME NEW s \in Sessions, RevokeBail(s) PROVE KeepsFinal
  BY <1>14 DEF RevokeBail, TypeOK, CallsOK, BailsOK, WarrantsOK, ArrestsOK, OnArrest, KeepsFinal, TRANSITIONS, rows
<1>15. ASSUME NEW s \in Sessions, RestoreCustody(s) PROVE KeepsFinal
  BY <1>15 DEF RestoreCustody, Return, TypeOK, CallsOK, BailsOK, WarrantsOK, ArrestsOK, OnArrest, KeepsFinal, TRANSITIONS, rows
<1>16. ASSUME NEW w \in Warrants, ExpireWarrant(w) PROVE KeepsFinal
  BY <1>16 DEF ExpireWarrant, TypeOK, CallsOK, BailsOK, WarrantsOK, ArrestsOK, OnArrest, KeepsFinal, TRANSITIONS
<1>17. ASSUME NEW b \in Bails, ExpireBail(b) PROVE KeepsFinal
  BY <1>17 DEF ExpireBail, TypeOK, CallsOK, BailsOK, WarrantsOK, ArrestsOK, OnArrest, KeepsFinal, TRANSITIONS
<1>18. ASSUME expire_warrants PROVE KeepsFinal
  BY <1>18 DEF expire_warrants, TypeOK, CallsOK, BailsOK, WarrantsOK, ArrestsOK, OnArrest, KeepsFinal, TRANSITIONS
<1>19. ASSUME expire_bail_records PROVE KeepsFinal
  BY <1>19 DEF expire_bail_records, TypeOK, CallsOK, BailsOK, WarrantsOK, ArrestsOK, OnArrest, KeepsFinal, TRANSITIONS
<1>20. ASSUME UNCHANGED vars PROVE KeepsFinal
  BY <1>20 DEF vars, rows, TypeOK, CallsOK, BailsOK, WarrantsOK, ArrestsOK, OnArrest, KeepsFinal, TRANSITIONS
<1> QED BY <1>1, <1>2, <1>3, <1>4, <1>5, <1>6, <1>7, <1>8, <1>9, <1>10, <1>11, <1>12, <1>13, <1>14, <1>15, <1>16, <1>17, <1>18, <1>19, <1>20 DEF Next, Step

(* Under the same proviso final states are final, but for revokeBail.       *)
THEOREM FinalStatesAreKeptCorrect == Spec => FinalStatesAreKept
<1>1. TypeInv /\ WarrantsOK /\ ArrestsOK /\ [Next]_vars => [KeepsFinal]_vars
  BY StepKeepsFinal
<1>2. FinalStatesAreKept <=> [][KeepsFinal]_vars
  BY DEF FinalStatesAreKept, KeepsFinal
<1> QED BY <1>1, <1>2, EnforcementInvariant, PTL DEF Spec

-----------------------------------------------------------------------------
(* Forensics, for any number of programs, requests and items.  What the place *)
(* of a call says of the call itself.                                          *)
CallIsSound(c) ==
    /\ c.at \in {"idle", "hung"} => c.request = Nothing
    /\ c.at \notin {"idle", "hung"} => c.request \in Requests /\ c.op \in Ops
    /\ c.at \in {"fields", "status"} => c.op \in {"receipt", "start", "findings", "contest"}
    /\ c.op = "link" => c.item \in Items
    /\ c.at \in {"item", "link"} => c.op = "link"
    /\ c.at = "link" => CaseOf[c.item] = CaseOf[c.request]

LabCalls == \A p \in Programs : CallIsSound(lab_call[p])

(* What a call has found still holds while it alone is about its request.      *)
Active(p)  == lab_call[p].at \notin {"duty", "read"}
StillHolds(c) ==
    /\ c.at \in {"fields", "status"} => <<status[c.request], Goal(c.op)>> \in Edges
    /\ c.at = "deliver" => status[c.request] = "REPORT_READY"
    /\ c.at \in {"item", "link"} => TakesEvidence(c.request)

OneAtATime ==
    \A p, q \in Programs :
       /\ Active(p) /\ Active(q)
       /\ lab_call[p].request = lab_call[q].request
       /\ lab_call[p].request \in Requests \ overlapped
       => p = q

Undisturbed ==
    \A p \in Programs : lab_call[p].request \in Requests \ overlapped => StillHolds(lab_call[p])

Reported ==
    \A r \in reported \ overlapped : status[r] \in {"REPORT_DELIVERED", "CONTESTED"}

(* As shipped, no officer is on duty and no call gets past the duty check.     *)
NobodyOnDuty ==
    schema = "shipped" =>
       \A p \in Programs : duty[p] # "on" /\ lab_call[p].at \in {"idle", "duty", "hung"}

ForensicsInv == /\ ForensicsTypeOK /\ LabCalls /\ OneAtATime /\ Undisturbed
                /\ Reported /\ NobodyOnDuty /\ EvidenceFollowsReport

LabCallSet == [op : Ops \cup {"none"}, at : Places,
               request : Requests \cup {Nothing}, item : Items \cup {Nothing}]

LEMMA ForensicsInvInit == ForensicsInit => ForensicsInv
<1> SUFFICES ASSUME ForensicsInit PROVE ForensicsInv
  OBVIOUS
<1> USE ForensicsAssumption
<1>1. \A p \in Programs : lab_call[p] = NoCall
  BY DEF ForensicsInit
<1>2. ForensicsTypeOK
  <2>1. NoCall \in LabCallSet
    BY DEF NoCall, LabCallSet, Places
  <2>2. lab_call \in [Programs -> LabCallSet]
    BY <2>1 DEF ForensicsInit
  <2>3. evidence \in [Items -> EvidenceStatuses]
    BY DEF ForensicsInit, EvidenceStatuses
  <2> QED BY <1>1, <2>2, <2>3 DEF ForensicsInit, ForensicsTypeOK, LabCallSet
<1>3. LabCalls /\ OneAtATime /\ Undisturbed /\ Reported /\ NobodyOnDuty
  BY <1>1 DEF ForensicsInit, LabCalls, CallIsSound, OneAtATime, Undisturbed, Reported, NobodyOnDuty, NoCall, Ops
<1>4. EvidenceFollowsReport
  BY DEF ForensicsInit, EvidenceFollowsReport
<1> QED BY <1>2, <1>3, <1>4 DEF ForensicsInv

(* The place of a call is all that a call changes about itself.               *)
LEMMA CallMoves ==
    ASSUME ForensicsTypeOK, NEW p \in Programs, NEW place \in Places, Goes(p, place)
    PROVE  /\ lab_call' \in [Programs -> LabCallSet]
           /\ lab_call'[p].at = place /\ lab_call'[p].op = lab_call[p].op
           /\ lab_call'[p].request = lab_call[p].request /\ lab_call'[p].item = lab_call[p].item
           /\ \A q \in Programs : q # p => lab_call'[q] = lab_call[q]
<1>1. lab_call \in [Programs -> LabCallSet]
  BY DEF ForensicsTypeOK, LabCallSet
<1>2. [lab_call[p] EXCEPT !.at = place] \in LabCallSet
  BY <1>1 DEF LabCallSet
<1>3. lab_call' = [lab_call EXCEPT ![p] = [lab_call[p] EXCEPT !.at = place]]
  BY <1>1 DEF Goes
<1>4. lab_call'[p] = [lab_call[p] EXCEPT !.at = place]
  BY <1>1, <1>3
<1>5. lab_call' \in [Programs -> LabCallSet]
  BY <1>1, <1>2, <1>3
<1> QED BY <1>1, <1>3, <1>4, <1>5 DEF LabCallSet

LEMMA CallReturns ==
    ASSUME ForensicsTypeOK, NEW p \in Programs, Returns(p)
    PROVE  /\ lab_call' \in [Programs -> LabCallSet]
           /\ lab_call'[p] = NoCall
           /\ \A q \in Programs : q # p => lab_call'[q] = lab_call[q]
BY DEF ForensicsTypeOK, LabCallSet, NoCall, Returns, Places

(* A step that leaves the rows alone, and after which the call of the program  *)
(* that makes it is not between a look and a write.                             *)
LEMMA QuietStep ==
    ASSUME ForensicsInv, NEW p \in Programs,
           lab_call' \in [Programs -> LabCallSet],
           \A q \in Programs : q # p => lab_call'[q] = lab_call[q],
           lab_call'[p] = lab_call[p] \/ lab_call'[p].at \in {"idle", "hung", "duty", "read"},
           CallIsSound(lab_call'[p]),
           UNCHANGED <<schema, labRows, history>>,
           db_mutex' \in [Programs -> {"free", "kept"}],
           \A q \in Programs : lab_call'[q] # NoCall => db_mutex'[q] = "kept",
           duty' \in [Programs -> {"none", "on", "off"}],
           schema = "shipped" => /\ \A q \in Programs : duty'[q] # "on"
                                 /\ lab_call'[p].at \in {"idle", "duty", "hung"}
    PROVE  ForensicsInv'
<1> USE ForensicsAssumption DEF ForensicsInv, labRows, history
<1>1. ForensicsTypeOK'
  BY DEF ForensicsTypeOK, LabCallSet
<1>2. LabCalls'
  <2>1. \A q \in Programs : CallIsSound(lab_call'[q])
    BY DEF LabCalls
  <2> QED BY <2>1 DEF LabCalls, CallIsSound
<1>3. \A q \in Programs : \/ lab_call'[q] = lab_call[q]
                          \/ lab_call'[q].request = Nothing
                          \/ lab_call'[q].at \in {"duty", "read"}
  BY DEF CallIsSound
<1>4. OneAtATime'
  BY <1>3 DEF OneAtATime, Active
<1>5. Undisturbed'
  BY <1>3 DEF Undisturbed, StillHolds, TakesEvidence
<1>6. Reported' /\ EvidenceFollowsReport'
  BY DEF Reported, EvidenceFollowsReport
<1>7. NobodyOnDuty'
  BY DEF NobodyOnDuty
<1> QED BY <1>1, <1>2, <1>4, <1>5, <1>6, <1>7

LEMMA DutySteps ==
    ASSUME ForensicsInv, NEW p \in Programs,
           AskDuty(p) \/ DutyGoesStale(p) \/ TurnedAway(p) \/ Query(p)
    PROVE  ForensicsInv'
<1> USE DEF ForensicsInv
<1>1. lab_call \in [Programs -> LabCallSet] /\ CallIsSound(lab_call[p]) /\ lab_call' = lab_call
  BY DEF ForensicsTypeOK, LabCallSet, LabCalls, AskDuty, DutyGoesStale, TurnedAway, Query, labVars
<1>2. duty' \in [Programs -> {"none", "on", "off"}] /\ db_mutex' \in [Programs -> {"free", "kept"}]
  BY DEF ForensicsTypeOK, AskDuty, DutyGoesStale, TurnedAway, Query, labVars, DutyAnswers
<1>3. UNCHANGED <<schema, labRows, history>>
  BY DEF AskDuty, DutyGoesStale, TurnedAway, Query, labVars, labRows, history
<1>4. \A q \in Programs : db_mutex[q] = "kept" => db_mutex'[q] = "kept"
  BY DEF ForensicsTypeOK, AskDuty, DutyGoesStale, TurnedAway, Query, labVars
<1>5. schema = "shipped" => \A q \in Programs : duty'[q] # "on"
  BY DEF ForensicsTypeOK, NobodyOnDuty, AskDuty, DutyGoesStale, TurnedAway, Query, labVars, DutyAnswers
<1>6. schema = "shipped" => lab_call'[p].at \in {"idle", "duty", "hung"}
  BY <1>1 DEF NobodyOnDuty
<1>7. \A q \in Programs : lab_call'[q] # NoCall => db_mutex'[q] = "kept"
  BY <1>1, <1>4 DEF ForensicsTypeOK
<1> QED BY <1>1, <1>2, <1>3, <1>5, <1>6, <1>7, QuietStep

LEMMA EnterStep ==
    ASSUME ForensicsInv, NEW p \in Programs, NEW op \in Ops, NEW r \in Requests,
           NEW i \in Items \cup {Nothing}, Enter(p, op, r, i)
    PROVE  ForensicsInv'
<1> USE ForensicsAssumption DEF ForensicsInv
<1> DEFINE c == [op |-> op, at |-> "duty", request |-> r, item |-> i]
<1>1. c \in LabCallSet /\ CallIsSound(c)
  BY DEF LabCallSet, Places, CallIsSound, Enter
<1>2. lab_call \in [Programs -> LabCallSet] /\ lab_call' = [lab_call EXCEPT ![p] = c]
  BY DEF ForensicsTypeOK, LabCallSet, Enter
<1>3. c.at = "duty"
  OBVIOUS
<1>4. /\ UNCHANGED <<schema, labRows, duty, history>>
      /\ db_mutex' = [db_mutex EXCEPT ![p] = "kept"]
  BY DEF Enter
<1> HIDE DEF c
<1>5. /\ lab_call' \in [Programs -> LabCallSet] /\ lab_call'[p] = c
      /\ \A q \in Programs : q # p => lab_call'[q] = lab_call[q]
  BY <1>1, <1>2
<1>6. \A q \in Programs : lab_call'[q] # NoCall => db_mutex'[q] = "kept"
  BY <1>4, <1>5 DEF ForensicsTypeOK
<1>7. /\ db_mutex' \in [Programs -> {"free", "kept"}]
      /\ duty' \in [Programs -> {"none", "on", "off"}]
  BY <1>4 DEF ForensicsTypeOK
<1>8. schema = "shipped" => \A q \in Programs : duty'[q] # "on"
  BY <1>4 DEF NobodyOnDuty
<1> QED BY <1>1, <1>3, <1>4, <1>5, <1>6, <1>7, <1>8, QuietStep

LEMMA ReturnSteps ==
    ASSUME ForensicsInv, NEW p \in Programs,
           GivesUp(p) \/ CreateForensicRequest(p) \/ RecordAmendment(p) \/ Restart(p)
    PROVE  ForensicsInv'
<1> USE DEF ForensicsInv
<1>1. Returns(p) /\ UNCHANGED <<schema, labRows, history>>
  BY DEF GivesUp, CreateForensicRequest, RecordAmendment, CheckRank, Restart
<1>2. /\ lab_call' \in [Programs -> LabCallSet] /\ lab_call'[p] = NoCall
      /\ \A q \in Programs : q # p => lab_call'[q] = lab_call[q]
  BY <1>1, CallReturns
<1>3. CallIsSound(NoCall) /\ NoCall.at = "idle"
  BY DEF CallIsSound, NoCall
<1>4. /\ duty' \in [Programs -> {"none", "on", "off"}] /\ db_mutex' \in [Programs -> {"free", "kept"}]
      /\ \A q \in Programs : duty'[q] = "on" => duty[q] = "on"
      /\ \A q \in Programs : q # p => db_mutex'[q] = db_mutex[q]
  BY DEF ForensicsTypeOK, GivesUp, CreateForensicRequest, RecordAmendment, CheckRank, Restart
<1>5. \A q \in Programs : lab_call'[q] # NoCall => db_mutex'[q] = "kept"
  BY <1>2, <1>4 DEF ForensicsTypeOK
<1>6. schema = "shipped" => \A q \in Programs : duty'[q] # "on"
  BY <1>4 DEF NobodyOnDuty
<1> QED BY <1>1, <1>2, <1>3, <1>4, <1>5, <1>6, QuietStep

LEMMA CheckDutyStep ==
    ASSUME ForensicsInv, NEW p \in Programs, CheckDuty(p)
    PROVE  ForensicsInv'
<1> USE DEF ForensicsInv
<1>1. /\ UNCHANGED <<schema, labRows, db_mutex, duty, history>>
      /\ lab_call[p].at = "duty"
  BY DEF CheckDuty, At
<1>2. db_mutex[p] = "kept"
  BY <1>1 DEF ForensicsTypeOK, NoCall
<1>3. /\ \A q \in Programs : schema = "shipped" => duty'[q] # "on"
      /\ duty' \in [Programs -> {"none", "on", "off"}] /\ db_mutex' \in [Programs -> {"free", "kept"}]
  BY <1>1 DEF NobodyOnDuty, ForensicsTypeOK
<1>4. CASE duty[p] = "on" /\ Goes(p, "read")
  <2>1. /\ lab_call' \in [Programs -> LabCallSet] /\ lab_call'[p].at = "read"
        /\ lab_call'[p].op = lab_call[p].op /\ lab_call'[p].request = lab_call[p].request
        /\ lab_call'[p].item = lab_call[p].item
        /\ \A q \in Programs : q # p => lab_call'[q] = lab_call[q]
    BY <1>4, CallMoves DEF Places
  <2>2. CallIsSound(lab_call'[p])
    BY <1>1, <2>1 DEF LabCalls, CallIsSound
  <2>3. \A q \in Programs : lab_call'[q] # NoCall => db_mutex'[q] = "kept"
    BY <1>1, <1>2, <2>1 DEF ForensicsTypeOK
  <2>4. schema # "shipped"
    BY <1>4 DEF NobodyOnDuty
  <2> QED BY <1>1, <1>3, <2>1, <2>2, <2>3, <2>4, QuietStep
<1>5. CASE Returns(p)
  <2>1. /\ lab_call' \in [Programs -> LabCallSet] /\ lab_call'[p] = NoCall
        /\ \A q \in Programs : q # p => lab_call'[q] = lab_call[q]
    BY <1>5, CallReturns
  <2>2. CallIsSound(NoCall) /\ NoCall.at = "idle"
    BY DEF CallIsSound, NoCall
  <2>3. \A q \in Programs : lab_call'[q] # NoCall => db_mutex'[q] = "kept"
    BY <1>1, <2>1 DEF ForensicsTypeOK
  <2> QED BY <1>1, <1>3, <2>1, <2>2, <2>3, QuietStep
<1>6. CASE lab_call' = [lab_call EXCEPT ![p] = [NoCall EXCEPT !.at = "hung"]]
  <2> DEFINE c == [NoCall EXCEPT !.at = "hung"]
  <2>1. c \in LabCallSet /\ CallIsSound(c) /\ c.at = "hung"
    BY DEF LabCallSet, Places, CallIsSound, NoCall
  <2>2. lab_call \in [Programs -> LabCallSet] /\ lab_call' = [lab_call EXCEPT ![p] = c]
    BY <1>6 DEF ForensicsTypeOK, LabCallSet
  <2> HIDE DEF c
  <2>3. /\ lab_call' \in [Programs -> LabCallSet] /\ lab_call'[p] = c
        /\ \A q \in Programs : q # p => lab_call'[q] = lab_call[q]
    BY <2>1, <2>2
  <2>4. \A q \in Programs : lab_call'[q] # NoCall => db_mutex'[q] = "kept"
    BY <1>1, <1>2, <2>3 DEF ForensicsTypeOK
  <2> QED BY <1>1, <1>3, <2>1, <2>3, <2>4, QuietStep
<1> QED BY <1>4, <1>5, <1>6 DEF CheckDuty

(* A call that gets past "read" joins the calls about its request, or marks it. *)
LEMMA LookStep ==
    ASSUME ForensicsInv, NEW p \in Programs, NEW place \in {"fields", "item"},
           At(p, "read"), Goes(p, place), Looks(lab_call[p].request),
           place = "fields" => /\ lab_call[p].op \in {"receipt", "start", "findings", "contest"}
                               /\ <<status[lab_call[p].request], Goal(lab_call[p].op)>> \in Edges,
           place = "item" => lab_call[p].op = "link" /\ TakesEvidence(lab_call[p].request),
           UNCHANGED <<schema, labRows, db_mutex, duty, reported>>
    PROVE  ForensicsInv'
<1> USE ForensicsAssumption DEF ForensicsInv, labRows
<1> DEFINE r == lab_call[p].request
<1>1. /\ lab_call' \in [Programs -> LabCallSet] /\ lab_call'[p].at = place
      /\ lab_call'[p].op = lab_call[p].op /\ lab_call'[p].request = r
      /\ lab_call'[p].item = lab_call[p].item
      /\ \A q \in Programs : q # p => lab_call'[q] = lab_call[q]
  BY CallMoves DEF Places
<1>2. r \in Requests /\ lab_call[p].op \in Ops /\ lab_call[p].at = "read"
  BY DEF LabCalls, CallIsSound, At
<1>3. overlapped \subseteq overlapped' /\ overlapped' \subseteq Requests
  BY <1>2 DEF Looks, ForensicsTypeOK
<1>4. ForensicsTypeOK'
  <2>1. db_mutex[p] = "kept"
    BY <1>2 DEF ForensicsTypeOK, NoCall
  <2>2. \A q \in Programs : lab_call'[q] # NoCall => db_mutex'[q] = "kept"
    BY <1>1, <2>1 DEF ForensicsTypeOK
  <2> QED BY <1>1, <1>3, <2>2 DEF ForensicsTypeOK, LabCallSet
<1>5. LabCalls'
  <2>1. CallIsSound(lab_call'[p])
    BY <1>1, <1>2 DEF CallIsSound, LabCalls
  <2>2. \A q \in Programs : CallIsSound(lab_call'[q])
    BY <1>1, <2>1 DEF LabCalls
  <2> QED BY <2>2 DEF LabCalls, CallIsSound
<1>6. \A q \in Programs : q # p /\ lab_call[q].request = r /\ Active(q) => r \in overlapped'
  BY <1>2 DEF Looks, InFlight, Active
<1>7. OneAtATime'
  <2> SUFFICES ASSUME NEW q1 \in Programs, NEW q2 \in Programs,
                      Active(q1)', Active(q2)', lab_call'[q1].request = lab_call'[q2].request,
                      lab_call'[q1].request \in Requests \ overlapped'
               PROVE  q1 = q2
    BY DEF OneAtATime
  <2>1. CASE q1 # p /\ q2 # p
    BY <1>1, <1>3, <2>1 DEF OneAtATime, Active
  <2>2. CASE q1 = p /\ q2 # p
    BY <1>1, <1>6, <2>2 DEF Active
  <2>3. CASE q2 = p /\ q1 # p
    BY <1>1, <1>6, <2>3 DEF Active
  <2> QED BY <2>1, <2>2, <2>3
<1>8. Undisturbed'
  <2>1. \A q \in Programs : lab_call'[q].request \in Requests \ overlapped' => StillHolds(lab_call'[q])
    <3>1. StillHolds(lab_call'[p])
      BY <1>1 DEF StillHolds
    <3> QED BY <1>1, <1>3, <3>1 DEF Undisturbed
  <2> QED BY <2>1 DEF Undisturbed, StillHolds, TakesEvidence
<1>9. Reported' /\ EvidenceFollowsReport'
  BY <1>3 DEF Reported, EvidenceFollowsReport
<1>10. NobodyOnDuty'
  BY <1>2 DEF NobodyOnDuty
<1> QED BY <1>4, <1>5, <1>7, <1>8, <1>9, <1>10

LEMMA ReadSteps ==
    ASSUME ForensicsInv, NEW p \in Programs,
           \/ RecordLabReceipt(p) \/ RecordExaminationStart(p) \/ RecordFindings(p)
           \/ ContestReport(p) \/ LinkEvidence(p)
    PROVE  ForensicsInv'
<1>1. ASSUME NEW op \in {"receipt", "start", "findings", "contest"}, ReadStatus(p, op)
      PROVE  ForensicsInv'
  BY <1>1, LookStep DEF ReadStatus, ValidateTransition, At
<1>2. CASE LinkEvidence(p)
  BY <1>2, LookStep DEF LinkEvidence, At
<1> QED BY <1>1, <1>2 DEF RecordLabReceipt, RecordExaminationStart, RecordFindings, ContestReport

(* The next step of a call that goes on changes nothing but its place.         *)
LEMMA OnwardSteps ==
    ASSUME ForensicsInv, NEW p \in Programs, ReadItem(p) \/ WriteFields(p)
    PROVE  ForensicsInv'
<1> USE ForensicsAssumption DEF ForensicsInv, labRows, history
<1>1. PICK place \in {"link", "status"} :
        /\ Goes(p, place)
        /\ UNCHANGED <<schema, labRows, db_mutex, duty, history>>
        /\ place = "link" => /\ lab_call[p].at = "item"
                             /\ CaseOf[lab_call[p].item] = CaseOf[lab_call[p].request]
        /\ place = "status" => lab_call[p].at = "fields"
  BY DEF ReadItem, WriteFields, MayBeSent, At
<1>2. /\ lab_call' \in [Programs -> LabCallSet] /\ lab_call'[p].at = place
      /\ lab_call'[p].op = lab_call[p].op /\ lab_call'[p].request = lab_call[p].request
      /\ lab_call'[p].item = lab_call[p].item
      /\ \A q \in Programs : q # p => lab_call'[q] = lab_call[q]
  BY <1>1, CallMoves DEF Places
<1>3. ForensicsTypeOK'
  <2>1. db_mutex[p] = "kept"
    BY <1>1 DEF ForensicsTypeOK, NoCall
  <2>2. \A q \in Programs : lab_call'[q] # NoCall => db_mutex'[q] = "kept"
    BY <1>1, <1>2, <2>1 DEF ForensicsTypeOK
  <2> QED BY <1>1, <1>2, <2>2 DEF ForensicsTypeOK, LabCallSet
<1>4. LabCalls'
  <2>1. CallIsSound(lab_call'[p])
    BY <1>1, <1>2 DEF CallIsSound, LabCalls
  <2>2. \A q \in Programs : CallIsSound(lab_call'[q])
    BY <1>2, <2>1 DEF LabCalls
  <2> QED BY <2>2 DEF LabCalls, CallIsSound
<1>5. OneAtATime'
  BY <1>1, <1>2 DEF OneAtATime, Active
<1>6. Undisturbed'
  <2>1. \A q \in Programs : lab_call'[q].request \in Requests \ overlapped => StillHolds(lab_call'[q])
    BY <1>1, <1>2 DEF Undisturbed, StillHolds
  <2> QED BY <1>1, <2>1 DEF Undisturbed, StillHolds, TakesEvidence
<1>7. Reported' /\ EvidenceFollowsReport'
  BY <1>1 DEF Reported, EvidenceFollowsReport
<1>8. NobodyOnDuty'
  BY <1>1 DEF NobodyOnDuty
<1> QED BY <1>3, <1>4, <1>5, <1>6, <1>7, <1>8

(* A call between its look and its writes, and all others, while the tables    *)
(* are those the statements fit.                                               *)
LEMMA Writer ==
    ASSUME ForensicsInv, NEW p \in Programs,
           lab_call[p].at \in {"link", "status", "deliver"}
    PROVE  /\ lab_call[p].request \in Requests
           /\ db_mutex[p] = "kept" /\ schema # "shipped"
           /\ \A q \in Programs :
                 /\ q # p /\ lab_call[q].request = lab_call[p].request
                 /\ lab_call[p].request \notin overlapped
                 => ~Active(q)
<1>1. lab_call[p].request \in Requests /\ db_mutex[p] = "kept" /\ schema # "shipped"
  BY DEF ForensicsInv, LabCalls, CallIsSound, ForensicsTypeOK, NobodyOnDuty, NoCall
<1>2. Active(p)
  BY DEF Active
<1> QED BY <1>1, <1>2 DEF ForensicsInv, OneAtATime

LEMMA InsertLinkStep ==
    ASSUME ForensicsInv, NEW p \in Programs, InsertLink(p)
    PROVE  ForensicsInv'
<1> USE ForensicsAssumption DEF ForensicsInv
<1> DEFINE r == lab_call[p].request
           i == lab_call[p].item
<1>1. /\ lab_call[p].at = "link" /\ Returns(p)
      /\ UNCHANGED <<schema, status, db_mutex, duty, overlapped, reported>>
      /\ links' = links \cup {<<r, i>>}
      /\ evidence' = IF <<r, i>> \in links THEN evidence
                     ELSE [evidence EXCEPT ![i] = "SENT_TO_LAB"]
  BY DEF InsertLink, At, history
<1>2. r \in Requests /\ i \in Items /\ CaseOf[i] = CaseOf[r]
  BY <1>1 DEF LabCalls, CallIsSound
<1>3. /\ lab_call' \in [Programs -> LabCallSet] /\ lab_call'[p] = NoCall
      /\ \A q \in Programs : q # p => lab_call'[q] = lab_call[q]
  BY <1>1, CallReturns
<1>4. ForensicsTypeOK'
  <2>1. \A q \in Programs : lab_call'[q] # NoCall => db_mutex'[q] = "kept"
    BY <1>1, <1>3 DEF ForensicsTypeOK
  <2>2. evidence' \in [Items -> EvidenceStatuses]
    BY <1>1 DEF ForensicsTypeOK, EvidenceStatuses
  <2>3. links' \subseteq Requests \X Items /\ \A l \in links' : CaseOf[l[1]] = CaseOf[l[2]]
    BY <1>1, <1>2 DEF ForensicsTypeOK
  <2> QED BY <1>1, <1>3, <2>1, <2>2, <2>3 DEF ForensicsTypeOK, LabCallSet
<1>5. LabCalls'
  <2>1. \A q \in Programs : CallIsSound(lab_call'[q])
    BY <1>3 DEF LabCalls, CallIsSound, NoCall
  <2> QED BY <2>1 DEF LabCalls, CallIsSound
<1>6. OneAtATime'
  BY <1>1, <1>3 DEF OneAtATime, Active, NoCall
<1>7. Undisturbed'
  <2>1. \A q \in Programs : lab_call'[q].request \in Requests \ overlapped => StillHolds(lab_call'[q])
    BY <1>3 DEF Undisturbed, StillHolds, NoCall
  <2> QED BY <1>1, <2>1 DEF Undisturbed, StillHolds, TakesEvidence
<1>8. Reported' /\ NobodyOnDuty'
  BY <1>1, <1>3 DEF Reported, NobodyOnDuty, NoCall
<1>9. EvidenceFollowsReport'
  <2>1. r \notin overlapped => r \notin reported
    BY <1>1, <1>2 DEF Undisturbed, StillHolds, TakesEvidence, Reported
  <2> SUFFICES ASSUME NEW x \in Requests \ overlapped, NEW y \in Items,
                      {q \in Requests : <<q, y>> \in links'} = {x}
               PROVE  evidence'[y] = IF x \in reported THEN "RETURNED_FROM_LAB" ELSE "SENT_TO_LAB"
    BY <1>1 DEF EvidenceFollowsReport
  <2>2. CASE y = i /\ <<r, i>> \notin links
    <3>1. x = r
      BY <1>1, <1>2, <2>2
    <3>2. evidence'[y] = "SENT_TO_LAB"
      BY <1>1, <1>2, <2>2 DEF ForensicsTypeOK
    <3> QED BY <2>1, <3>1, <3>2
  <2>3. CASE y # i \/ <<r, i>> \in links
    <3>1. {q \in Requests : <<q, y>> \in links} = {q \in Requests : <<q, y>> \in links'}
      BY <1>1, <2>3
    <3>2. evidence'[y] = evidence[y]
      BY <1>1, <2>3 DEF ForensicsTypeOK
    <3> QED BY <3>1, <3>2 DEF EvidenceFollowsReport
  <2> QED BY <2>2, <2>3
<1> QED BY <1>4, <1>5, <1>6, <1>7, <1>8, <1>9

LEMMA WriteStatusStep ==
    ASSUME ForensicsInv, NEW p \in Programs, WriteStatus(p)
    PROVE  ForensicsInv'
<1> USE ForensicsAssumption DEF ForensicsInv
<1> DEFINE r == lab_call[p].request
           op == lab_call[p].op
<1>1. /\ lab_call[p].at = "status"
      /\ status' = [status EXCEPT ![r] = Goal(op)]
      /\ (op = "findings" /\ Goes(p, "deliver")) \/ Returns(p)
      /\ UNCHANGED <<schema, evidence, links, db_mutex, duty, overlapped, reported>>
  BY DEF WriteStatus, At, history
<1>2. r \in Requests /\ op \in {"receipt", "start", "findings", "contest"}
  BY <1>1 DEF LabCalls, CallIsSound
<1>3. Goal(op) \in Statuses /\ (op = "findings" => Goal(op) = "REPORT_READY")
  BY <1>2 DEF Goal, Statuses
<1>4. /\ lab_call' \in [Programs -> LabCallSet]
      /\ \/ lab_call'[p] = NoCall
         \/ /\ lab_call'[p].at = "deliver" /\ lab_call'[p].op = "findings" /\ op = "findings"
            /\ lab_call'[p].request = r
      /\ \A q \in Programs : q # p => lab_call'[q] = lab_call[q]
  BY <1>1, CallReturns, CallMoves DEF Places
<1>5. /\ db_mutex[p] = "kept" /\ schema # "shipped"
      /\ \A q \in Programs : q # p /\ lab_call[q].request = r /\ r \notin overlapped => ~Active(q)
  BY <1>1, Writer
<1>6. /\ status'[r] = Goal(op) /\ \A x \in Requests : x # r => status'[x] = status[x]
      /\ status' \in [Requests -> Statuses]
  BY <1>1, <1>2, <1>3 DEF ForensicsTypeOK
<1>7. ForensicsTypeOK'
  <2>1. \A q \in Programs : lab_call'[q] # NoCall => db_mutex'[q] = "kept"
    BY <1>1, <1>4, <1>5 DEF ForensicsTypeOK
  <2> QED BY <1>1, <1>4, <1>6, <2>1 DEF ForensicsTypeOK, LabCallSet
<1>8. LabCalls'
  <2>1. CallIsSound(lab_call'[p])
    BY <1>2, <1>4 DEF CallIsSound, NoCall, Ops
  <2>2. \A q \in Programs : CallIsSound(lab_call'[q])
    BY <1>4, <2>1 DEF LabCalls
  <2> QED BY <2>2 DEF LabCalls, CallIsSound
<1>9. OneAtATime'
  BY <1>1, <1>4 DEF OneAtATime, Active, NoCall
<1>10. Undisturbed'
  <2> SUFFICES ASSUME NEW q \in Programs, lab_call'[q].request \in Requests \ overlapped
               PROVE  StillHolds(lab_call[q])'
    BY <1>1 DEF Undisturbed
  <2>1. CASE q = p
    BY <1>3, <1>4, <1>6, <2>1 DEF StillHolds, NoCall
  <2>2. CASE q # p /\ lab_call[q].request = r
    BY <1>4, <1>5, <2>2 DEF StillHolds, Active
  <2>3. CASE q # p /\ lab_call[q].request # r
    <3>1. lab_call'[q] = lab_call[q] /\ StillHolds(lab_call[q])
      BY <1>4, <2>3 DEF Undisturbed
    <3>2. status'[lab_call[q].request] = status[lab_call[q].request]
      BY <1>4, <1>6, <2>3
    <3> QED BY <3>1, <3>2 DEF StillHolds, TakesEvidence
  <2> QED BY <2>1, <2>2, <2>3
<1>11. Reported'
  <2>1. r \notin overlapped => <<status[r], Goal(op)>> \in Edges
    BY <1>1, <1>2 DEF Undisturbed, StillHolds
  <2>2. r \in reported \ overlapped => Goal(op) \in {"REPORT_DELIVERED", "CONTESTED"}
    BY <2>1 DEF Reported, Edges
  <2> QED BY <1>1, <1>6, <2>2 DEF Reported, ForensicsTypeOK
<1>12. EvidenceFollowsReport' /\ NobodyOnDuty'
  BY <1>1, <1>5 DEF EvidenceFollowsReport, NobodyOnDuty
<1> QED BY <1>7, <1>8, <1>9, <1>10, <1>11, <1>12

LEMMA DeliverStep ==
    ASSUME ForensicsInv, NEW p \in Programs, Deliver(p)
    PROVE  ForensicsInv'
<1> USE ForensicsAssumption DEF ForensicsInv
<1> DEFINE r == lab_call[p].request
<1>1. /\ lab_call[p].at = "deliver" /\ Returns(p)
      /\ status' = [status EXCEPT ![r] = "REPORT_DELIVERED"]
      /\ evidence' = IF status[r] # "REPORT_DELIVERED" THEN Returned(r) ELSE evidence
      /\ reported' = reported \cup {r}
      /\ UNCHANGED <<schema, links, db_mutex, duty, overlapped>>
  BY DEF Deliver, At
<1>2. /\ r \in Requests /\ schema # "shipped"
      /\ \A q \in Programs : q # p /\ lab_call[q].request = r /\ r \notin overlapped => ~Active(q)
  BY <1>1, Writer
<1>3. /\ lab_call' \in [Programs -> LabCallSet] /\ lab_call'[p] = NoCall
      /\ \A q \in Programs : q # p => lab_call'[q] = lab_call[q]
  BY <1>1, CallReturns
<1>4. /\ status'[r] = "REPORT_DELIVERED" /\ \A x \in Requests : x # r => status'[x] = status[x]
      /\ status' \in [Requests -> Statuses]
  BY <1>1, <1>2 DEF ForensicsTypeOK, Statuses
<1>5. evidence' \in [Items -> EvidenceStatuses]
  BY <1>1 DEF ForensicsTypeOK, EvidenceStatuses, Returned
<1>6. ForensicsTypeOK'
  <2>1. \A q \in Programs : lab_call'[q] # NoCall => db_mutex'[q] = "kept"
    BY <1>1, <1>3 DEF ForensicsTypeOK
  <2> QED BY <1>1, <1>2, <1>3, <1>4, <1>5, <2>1 DEF ForensicsTypeOK, LabCallSet
<1>7. LabCalls'
  <2>1. \A q \in Programs : CallIsSound(lab_call'[q])
    BY <1>3 DEF LabCalls, CallIsSound, NoCall
  <2> QED BY <2>1 DEF LabCalls, CallIsSound
<1>8. OneAtATime'
  BY <1>1, <1>3 DEF OneAtATime, Active, NoCall
<1>9. Undisturbed'
  <2> SUFFICES ASSUME NEW q \in Programs, lab_call'[q].request \in Requests \ overlapped
               PROVE  StillHolds(lab_call[q])'
    BY <1>1 DEF Undisturbed
  <2>1. CASE q = p
    BY <1>3, <2>1 DEF StillHolds, NoCall
  <2>2. CASE q # p /\ lab_call[q].request = r
    BY <1>2, <1>3, <2>2 DEF StillHolds, Active
  <2>3. CASE q # p /\ lab_call[q].request # r
    <3>1. lab_call'[q] = lab_call[q] /\ StillHolds(lab_call[q])
      BY <1>3, <2>3 DEF Undisturbed
    <3>2. status'[lab_call[q].request] = status[lab_call[q].request]
      BY <1>3, <1>4, <2>3
    <3> QED BY <3>1, <3>2 DEF StillHolds, TakesEvidence
  <2> QED BY <2>1, <2>2, <2>3
<1>10. Reported' /\ NobodyOnDuty'
  BY <1>1, <1>2, <1>4 DEF Reported, NobodyOnDuty, ForensicsTypeOK
<1>11. EvidenceFollowsReport'
  <2> SUFFICES ASSUME NEW x \in Requests \ overlapped, NEW y \in Items,
                      {q \in Requests : <<q, y>> \in links} = {x}
               PROVE  evidence'[y] = IF x \in reported' THEN "RETURNED_FROM_LAB" ELSE "SENT_TO_LAB"
    BY <1>1 DEF EvidenceFollowsReport
  <2>1. evidence[y] = IF x \in reported THEN "RETURNED_FROM_LAB" ELSE "SENT_TO_LAB"
    BY DEF EvidenceFollowsReport
  <2>2. <<r, y>> \in links <=> x = r
    BY <1>2
  <2>3. CASE x = r
    <3>1. status[r] = "REPORT_READY"
      BY <1>1, <2>3 DEF Undisturbed, StillHolds
    <3>2. evidence'[y] = "RETURNED_FROM_LAB"
      BY <1>1, <2>2, <2>3, <3>1 DEF Returned
    <3> QED BY <1>1, <2>3, <3>2
  <2>4. CASE x # r
    <3>1. evidence'[y] = evidence[y]
      BY <1>1, <2>2, <2>4 DEF Returned
    <3>2. x \in reported' <=> x \in reported
      BY <1>1, <2>4
    <3> QED BY <2>1, <3>1, <3>2
  <2> QED BY <2>3, <2>4
<1> QED BY <1>6, <1>7, <1>8, <1>9, <1>10, <1>11

LEMMA ForensicsInvStep ==
    ASSUME ForensicsInv, [ForensicsNext]_labVars
    PROVE  ForensicsInv'
<1>1. CASE UNCHANGED labVars
  BY <1>1 DEF labVars, ForensicsInv, ForensicsTypeOK, LabCalls, CallIsSound, OneAtATime, Active,
     Undisturbed, StillHolds, TakesEvidence, Reported, NobodyOnDuty, EvidenceFollowsReport
<1>2. ASSUME NEW p \in Programs, ForensicsStep(p) PROVE ForensicsInv'
  BY <1>2, DutySteps, EnterStep, ReturnSteps, CheckDutyStep, ReadSteps, OnwardSteps,
     InsertLinkStep, WriteStatusStep, DeliverStep DEF ForensicsStep
<1> QED BY <1>1, <1>2 DEF ForensicsNext

LEMMA ForensicsInvAlways == ForensicsSpec => []ForensicsInv
BY ForensicsInvInit, ForensicsInvStep, PTL DEF ForensicsSpec

(* Types; evidence is only linked to requests of its own case.                 *)
THEOREM ForensicsTypeCorrect == ForensicsSpec => []ForensicsTypeOK
BY ForensicsInvAlways, PTL DEF ForensicsInv

(* Evidence that one request alone has sent to the laboratory is away until     *)
(* the report is delivered and back afterwards, unless calls overlap.           *)
THEOREM EvidenceFollowsReportCorrect == ForensicsSpec => []EvidenceFollowsReport
BY ForensicsInvAlways, PTL DEF ForensicsInv

LEMMA StepEdges ==
    ForensicsInv /\ [ForensicsNext]_labVars =>
       [\A r \in Requests :
           status'[r] # status[r] /\ r \notin overlapped => <<status[r], status'[r]>> \in Edges]_status
<1> SUFFICES ASSUME ForensicsInv, ForensicsNext, NEW r \in Requests,
                    status'[r] # status[r], r \notin overlapped
             PROVE  <<status[r], status'[r]>> \in Edges
  BY DEF labVars
<1> USE DEF ForensicsInv
<1>1. PICK p \in Programs : ForensicsStep(p)
  BY DEF ForensicsNext
<1>2. CASE WriteStatus(p)
  <2>1. lab_call[p].request = r /\ status'[r] = Goal(lab_call[p].op)
    BY <1>2 DEF WriteStatus, ForensicsTypeOK
  <2> QED BY <1>2, <2>1 DEF WriteStatus, At, Undisturbed, StillHolds
<1>3. CASE Deliver(p)
  <2>1. lab_call[p].request = r /\ status'[r] = "REPORT_DELIVERED"
    BY <1>3 DEF Deliver, ForensicsTypeOK
  <2> QED BY <1>3, <2>1 DEF Deliver, At, Undisturbed, StillHolds, Edges
<1> QED
  BY <1>1, <1>2, <1>3 DEF ForensicsStep, labRows, labVars, AskDuty, DutyGoesStale, TurnedAway, Query, Enter,
     CheckDuty, GivesUp, CreateForensicRequest, RecordAmendment, CheckRank, RecordLabReceipt,
     RecordExaminationStart, RecordFindings, ContestReport, ReadStatus, LinkEvidence, ReadItem,
     WriteFields, InsertLink, Restart

(* The status of a request moves along the edges of _validateTransition as       *)
(* long as no call has looked at it while another one was under way.             *)
THEOREM EdgesWhenAloneCorrect == ForensicsSpec => EdgesWhenAlone
BY ForensicsInvAlways, StepEdges, PTL DEF ForensicsSpec, EdgesWhenAlone

LEMMA StepAsShipped ==
    ForensicsInv /\ [ForensicsNext]_labVars => [schema = "shipped" => UNCHANGED labRows]_labVars
<1> SUFFICES ASSUME ForensicsInv, ForensicsNext, schema = "shipped" PROVE UNCHANGED labRows
  OBVIOUS
<1> USE DEF ForensicsInv
<1>1. PICK p \in Programs : ForensicsStep(p)
  BY DEF ForensicsNext
<1>2. lab_call[p].at \in {"idle", "duty", "hung"}
  BY DEF NobodyOnDuty
<1> QED
  BY <1>1, <1>2 DEF ForensicsStep, labRows, labVars, AskDuty, DutyGoesStale, TurnedAway, Query, Enter,
     CheckDuty, GivesUp, CreateForensicRequest, RecordAmendment, CheckRank, RecordLabReceipt,
     RecordExaminationStart, RecordFindings, ContestReport, ReadStatus, LinkEvidence, ReadItem,
     WriteFields, InsertLink, WriteStatus, Deliver, Restart, At

(* With the tables as they are shipped no forensic call changes a row.           *)
THEOREM NothingMovesAsShippedCorrect == ForensicsSpec => NothingMovesAsShipped
BY ForensicsInvAlways, StepAsShipped, PTL DEF ForensicsSpec, NothingMovesAsShipped
=============================================================================
