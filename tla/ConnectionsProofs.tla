-------------------------- MODULE ConnectionsProofs --------------------------
(***************************************************************************)
(* What holds of Connections for any tasks, any thread ids given to them   *)
(* and any number of slots.                                                *)
(***************************************************************************)
EXTENDS Connections, FiniteSetTheorems, TLAPS

(* Queries and registrations belong to connections that have logged in.     *)
LoginsFirst ==
    \A c \in Conns :
        /\ at[c] \in {"gate", "execute", "send", "cleanup"} => c \in authenticated
        /\ at[c] \in {"queued", "welcome"} => c \notin authenticated

(* An id that is not shared names one connection at most, and it has been   *)
(* taken out of the registry before the connection is closed.               *)
OneEach ==
    \A c, d \in Conns :
        Served(c) /\ Served(d) /\ IdOf[c] = IdOf[d] /\ IdOf[c] \notin shared => c = d

Unlisted ==
    \A c \in Conns : at[c] = "close" /\ IdOf[c] \notin shared => registry[IdOf[c]] # c

(* Whoever has had a query executed late is past the check for good.        *)
LateOnce ==
    \A c \in late : c \in expired /\ at[c] \notin {"gate", "execute"}

Counted == IsFiniteSet(Inside) /\ SlotsAccounted

IInv ==
    /\ TypeOK /\ LoginsFirst /\ OneEach /\ Unlisted /\ RegistryFollows
    /\ LateOnce /\ Counted

-----------------------------------------------------------------------------
(* One connection goes in or out of the gate.                               *)
LEMMA GoesIn ==
    ASSUME NEW S, NEW x, IsFiniteSet(S), x \notin S
    PROVE  IsFiniteSet(S \cup {x}) /\ Cardinality(S \cup {x}) = Cardinality(S) + 1
  BY FS_AddElement

LEMMA GoesOut ==
    ASSUME NEW S, NEW x, IsFiniteSet(S), x \in S
    PROVE  IsFiniteSet(S \ {x}) /\ Cardinality(S \ {x}) = Cardinality(S) - 1
  BY FS_RemoveElement

LEMMA InitInv == Init => IInv
<1> SUFFICES ASSUME Init PROVE IInv
  OBVIOUS
<1>1. TypeOK /\ LoginsFirst /\ LateOnce
  BY ConnectionsAssumption DEF Init, TypeOK, Places, LoginsFirst, LateOnce
<1>2. OneEach /\ Unlisted /\ RegistryFollows
  BY ConnectionsAssumption DEF Init, OneEach, Unlisted, RegistryFollows, Served, LoggedIn
<1>3. Inside = {}
  BY DEF Init, Inside
<1>4. Counted
  BY <1>3, FS_EmptySet, ConnectionsAssumption DEF Init, Counted, SlotsAccounted
<1> QED
  BY <1>1, <1>2, <1>4 DEF IInv

LEMMA TakeInv ==
    ASSUME IInv, NEW c \in Conns, Take(c)
    PROVE  IInv'
<1> USE ConnectionsAssumption
<1>1. TypeOK'
  BY DEF IInv, Take, Goes, store, TypeOK, Places
<1>2. LoginsFirst'
  BY DEF IInv, Take, Goes, store, TypeOK, LoginsFirst
<1>3. OneEach'
  BY DEF IInv, Take, Goes, store, TypeOK, OneEach, Served
<1>4. (Unlisted /\ RegistryFollows)'
  BY DEF IInv, Take, Goes, store, TypeOK, LoginsFirst, OneEach, Unlisted, RegistryFollows, LoggedIn, Served
<1>5. LateOnce'
  BY DEF IInv, Take, Goes, store, TypeOK, LateOnce
<1>6. Counted'
  <2>1. Inside' = Inside
    BY DEF IInv, Take, Goes, store, TypeOK, Inside
  <2>2. UNCHANGED slots
    BY DEF Take, Goes, store
  <2> QED
    BY <2>1, <2>2 DEF IInv, Counted, SlotsAccounted
<1> QED
  BY <1>1, <1>2, <1>3, <1>4, <1>5, <1>6 DEF IInv

LEMMA LoginInv ==
    ASSUME IInv, NEW c \in Conns, Login(c)
    PROVE  IInv'
<1> USE ConnectionsAssumption
<1>1. TypeOK'
  BY DEF IInv, Login, Goes, TypeOK, Places
<1>2. LoginsFirst'
  BY DEF IInv, Login, Goes, TypeOK, LoginsFirst
<1>3. OneEach'
  BY DEF IInv, Login, Goes, TypeOK, OneEach, Served
<1>4. (Unlisted /\ RegistryFollows)'
  BY DEF IInv, Login, Goes, TypeOK, LoginsFirst, OneEach, Unlisted, RegistryFollows, LoggedIn, Served
<1>5. LateOnce'
  BY DEF IInv, Login, Goes, TypeOK, LateOnce
<1>6. Counted'
  <2>1. Inside' = Inside
    BY DEF IInv, Login, Goes, TypeOK, Inside
  <2>2. UNCHANGED slots
    BY DEF Login, Goes
  <2> QED
    BY <2>1, <2>2 DEF IInv, Counted, SlotsAccounted
<1> QED
  BY <1>1, <1>2, <1>3, <1>4, <1>5, <1>6 DEF IInv

LEMMA RegisterInv ==
    ASSUME IInv, NEW c \in Conns, Register(c)
    PROVE  IInv'
<1> USE ConnectionsAssumption
<1>1. TypeOK'
  BY DEF IInv, Register, Goes, TypeOK, Places
<1>2. LoginsFirst'
  BY DEF IInv, Register, Goes, TypeOK, LoginsFirst
<1>3. OneEach'
  BY DEF IInv, Register, Goes, TypeOK, OneEach, Served
<1>4. (Unlisted /\ RegistryFollows)'
  BY DEF IInv, Register, Goes, TypeOK, LoginsFirst, OneEach, Unlisted, RegistryFollows, LoggedIn, Served
<1>5. LateOnce'
  BY DEF IInv, Register, Goes, TypeOK, LateOnce
<1>6. Counted'
  <2>1. Inside' = Inside
    BY DEF IInv, Register, Goes, TypeOK, Inside
  <2>2. UNCHANGED slots
    BY DEF Register, Goes
  <2> QED
    BY <2>1, <2>2 DEF IInv, Counted, SlotsAccounted
<1> QED
  BY <1>1, <1>2, <1>3, <1>4, <1>5, <1>6 DEF IInv

LEMMA QueryInv ==
    ASSUME IInv, NEW c \in Conns, Query(c)
    PROVE  IInv'
<1> USE ConnectionsAssumption
<1>1. TypeOK'
  BY DEF IInv, Query, Valid, Goes, store, TypeOK, Places
<1>2. LoginsFirst'
  BY DEF IInv, Query, Valid, Goes, store, TypeOK, LoginsFirst
<1>3. OneEach'
  BY DEF IInv, Query, Valid, Goes, store, TypeOK, OneEach, Served
<1>4. (Unlisted /\ RegistryFollows)'
  BY DEF IInv, Query, Valid, Goes, store, TypeOK, LoginsFirst, OneEach, Unlisted, RegistryFollows, LoggedIn, Served
<1>5. LateOnce'
  BY DEF IInv, Query, Valid, Goes, store, TypeOK, LateOnce
<1>6. Counted'
  <2>1. Inside' = Inside
    BY DEF IInv, Query, Valid, Goes, store, TypeOK, Inside
  <2>2. UNCHANGED slots
    BY DEF Query, Valid, Goes, store
  <2> QED
    BY <2>1, <2>2 DEF IInv, Counted, SlotsAccounted
<1> QED
  BY <1>1, <1>2, <1>3, <1>4, <1>5, <1>6 DEF IInv

LEMMA EnterGateInv ==
    ASSUME IInv, NEW c \in Conns, EnterGate(c)
    PROVE  IInv'
<1> USE ConnectionsAssumption
<1>1. TypeOK'
  BY DEF IInv, EnterGate, SlotFree, Goes, store, TypeOK, Places
<1>2. LoginsFirst'
  BY DEF IInv, EnterGate, SlotFree, Goes, store, TypeOK, LoginsFirst
<1>3. OneEach'
  BY DEF IInv, EnterGate, SlotFree, Goes, store, TypeOK, OneEach, Served
<1>4. (Unlisted /\ RegistryFollows)'
  BY DEF IInv, EnterGate, SlotFree, Goes, store, TypeOK, LoginsFirst, OneEach, Unlisted, RegistryFollows, LoggedIn, Served
<1>5. LateOnce'
  BY DEF IInv, EnterGate, SlotFree, Goes, store, TypeOK, LateOnce
<1>6. Counted'
  <2>1. Inside' = Inside \cup {c} /\ c \notin Inside
    BY DEF IInv, EnterGate, SlotFree, Goes, store, TypeOK, Inside
  <2>2. slots' = slots - 1
    BY DEF EnterGate, SlotFree, Goes, store
  <2>3. Cardinality(Inside) \in Nat
    BY FS_CardinalityType DEF IInv, Counted
  <2>4. IsFiniteSet(Inside') /\ Cardinality(Inside') = Cardinality(Inside) + 1
    BY <2>1, GoesIn DEF IInv, Counted
  <2> QED
    BY <2>2, <2>3, <2>4 DEF IInv, TypeOK, Counted, SlotsAccounted
<1> QED
  BY <1>1, <1>2, <1>3, <1>4, <1>5, <1>6 DEF IInv

LEMMA ExecuteInv ==
    ASSUME IInv, NEW c \in Conns, Execute(c)
    PROVE  IInv'
<1> USE ConnectionsAssumption
<1>1. TypeOK'
  BY DEF IInv, Execute, Goes, store, TypeOK, Places
<1>2. LoginsFirst'
  BY DEF IInv, Execute, Goes, store, TypeOK, LoginsFirst
<1>3. OneEach'
  BY DEF IInv, Execute, Goes, store, TypeOK, OneEach, Served
<1>4. (Unlisted /\ RegistryFollows)'
  BY DEF IInv, Execute, Goes, store, TypeOK, LoginsFirst, OneEach, Unlisted, RegistryFollows, LoggedIn, Served
<1>5. LateOnce'
  BY DEF IInv, Execute, Goes, store, TypeOK, LateOnce
<1>6. Counted'
  <2>1. Inside' = Inside
    BY DEF IInv, Execute, Goes, store, TypeOK, Inside
  <2>2. UNCHANGED slots
    BY DEF Execute, Goes, store
  <2> QED
    BY <2>1, <2>2 DEF IInv, Counted, SlotsAccounted
<1> QED
  BY <1>1, <1>2, <1>3, <1>4, <1>5, <1>6 DEF IInv

LEMMA AnswerInv ==
    ASSUME IInv, NEW c \in Conns, Answer(c)
    PROVE  IInv'
<1> USE ConnectionsAssumption
<1>1. TypeOK'
  <2>1. slots + 1 \in 0..Slots
    <3>1. c \in Inside
      BY DEF Answer, Inside
    <3>2. Cardinality(Inside) \in Nat /\ Cardinality(Inside) # 0
      BY <3>1, FS_CardinalityType, FS_EmptySet DEF IInv, Counted
    <3> QED
      BY <3>2, ConnectionsAssumption DEF IInv, TypeOK, Counted, SlotsAccounted
  <2> QED
    BY <2>1 DEF IInv, Answer, SlotsAfterAnswer, Goes, store, TypeOK, Places
<1>2. LoginsFirst'
  BY DEF IInv, Answer, SlotsAfterAnswer, Goes, store, TypeOK, LoginsFirst
<1>3. OneEach'
  BY DEF IInv, Answer, SlotsAfterAnswer, Goes, store, TypeOK, OneEach, Served
<1>4. (Unlisted /\ RegistryFollows)'
  BY DEF IInv, Answer, SlotsAfterAnswer, Goes, store, TypeOK, LoginsFirst, OneEach, Unlisted, RegistryFollows, LoggedIn, Served
<1>5. LateOnce'
  BY DEF IInv, Answer, SlotsAfterAnswer, Goes, store, TypeOK, LateOnce
<1>6. Counted'
  <2>1. Inside' = Inside \ {c} /\ c \in Inside
    BY DEF IInv, Answer, SlotsAfterAnswer, Goes, store, TypeOK, Inside
  <2>2. slots' = slots + 1
    BY DEF Answer, SlotsAfterAnswer, Goes, store
  <2>3. Cardinality(Inside) \in Nat
    BY FS_CardinalityType DEF IInv, Counted
  <2>4. IsFiniteSet(Inside') /\ Cardinality(Inside') = Cardinality(Inside) - 1
    BY <2>1, GoesOut DEF IInv, Counted
  <2> QED
    BY <2>2, <2>3, <2>4 DEF IInv, TypeOK, Counted, SlotsAccounted
<1> QED
  BY <1>1, <1>2, <1>3, <1>4, <1>5, <1>6 DEF IInv

LEMMA LogoutInv ==
    ASSUME IInv, NEW c \in Conns, Logout(c)
    PROVE  IInv'
<1> USE ConnectionsAssumption
<1>1. TypeOK'
  BY DEF IInv, Logout, Goes, TypeOK, Places
<1>2. LoginsFirst'
  BY DEF IInv, Logout, Goes, TypeOK, LoginsFirst
<1>3. OneEach'
  BY DEF IInv, Logout, Goes, TypeOK, OneEach, Served
<1>4. (Unlisted /\ RegistryFollows)'
  BY DEF IInv, Logout, Goes, TypeOK, LoginsFirst, OneEach, Unlisted, RegistryFollows, LoggedIn, Served
<1>5. LateOnce'
  BY DEF IInv, Logout, Goes, TypeOK, LateOnce
<1>6. Counted'
  <2>1. Inside' = Inside
    BY DEF IInv, Logout, Goes, TypeOK, Inside
  <2>2. UNCHANGED slots
    BY DEF Logout, Goes
  <2> QED
    BY <2>1, <2>2 DEF IInv, Counted, SlotsAccounted
<1> QED
  BY <1>1, <1>2, <1>3, <1>4, <1>5, <1>6 DEF IInv

LEMMA DisconnectInv ==
    ASSUME IInv, NEW c \in Conns, Disconnect(c)
    PROVE  IInv'
<1> USE ConnectionsAssumption
<1>1. TypeOK'
  BY DEF IInv, Disconnect, Goes, store, TypeOK, Places
<1>2. LoginsFirst'
  BY DEF IInv, Disconnect, Goes, store, TypeOK, LoginsFirst
<1>3. OneEach'
  BY DEF IInv, Disconnect, Goes, store, TypeOK, OneEach, Served
<1>4. (Unlisted /\ RegistryFollows)'
  <2>1. IdOf[c] \notin shared /\ c \notin authenticated => registry[IdOf[c]] # c
    BY DEF IInv, RegistryFollows
  <2>2. Unlisted'
    BY <2>1 DEF IInv, Disconnect, Goes, store, TypeOK, Unlisted
  <2>3. \A d \in Conns : (LoggedIn(d)' => LoggedIn(d)) /\ (Served(d) => Served(d)')
    BY DEF IInv, Disconnect, Goes, store, TypeOK, LoggedIn, Served
  <2>4. RegistryFollows'
    BY <2>3 DEF IInv, Disconnect, store, RegistryFollows
  <2> QED
    BY <2>2, <2>4
<1>5. LateOnce'
  BY DEF IInv, Disconnect, Goes, store, TypeOK, LateOnce
<1>6. Counted'
  <2>1. Inside' = Inside
    BY DEF IInv, Disconnect, Goes, store, TypeOK, Inside
  <2>2. UNCHANGED slots
    BY DEF Disconnect, Goes, store
  <2> QED
    BY <2>1, <2>2 DEF IInv, Counted, SlotsAccounted
<1> QED
  BY <1>1, <1>2, <1>3, <1>4, <1>5, <1>6 DEF IInv

LEMMA CleanupInv ==
    ASSUME IInv, NEW c \in Conns, Cleanup(c)
    PROVE  IInv'
<1> USE ConnectionsAssumption
<1>1. TypeOK'
  BY DEF IInv, Cleanup, Unregistered, Goes, store, TypeOK, Places
<1>2. LoginsFirst'
  BY DEF IInv, Cleanup, Unregistered, Goes, store, TypeOK, LoginsFirst
<1>3. OneEach'
  BY DEF IInv, Cleanup, Unregistered, Goes, store, TypeOK, OneEach, Served
<1>4. (Unlisted /\ RegistryFollows)'
  BY ZenonT(30) DEF IInv, Cleanup, Unregistered, Goes, store, TypeOK, LoginsFirst, OneEach, Unlisted, RegistryFollows, LoggedIn, Served
<1>5. LateOnce'
  BY DEF IInv, Cleanup, Unregistered, Goes, store, TypeOK, LateOnce
<1>6. Counted'
  <2>1. Inside' = Inside
    BY DEF IInv, Cleanup, Unregistered, Goes, store, TypeOK, Inside
  <2>2. UNCHANGED slots
    BY DEF Cleanup, Unregistered, Goes, store
  <2> QED
    BY <2>1, <2>2 DEF IInv, Counted, SlotsAccounted
<1> QED
  BY <1>1, <1>2, <1>3, <1>4, <1>5, <1>6 DEF IInv

LEMMA CloseInv ==
    ASSUME IInv, NEW c \in Conns, Close(c)
    PROVE  IInv'
<1> USE ConnectionsAssumption
<1>1. TypeOK'
  BY DEF IInv, Close, Goes, store, TypeOK, Places
<1>2. LoginsFirst'
  BY DEF IInv, Close, Goes, store, TypeOK, LoginsFirst
<1>3. OneEach'
  BY DEF IInv, Close, Goes, store, TypeOK, OneEach, Served
<1>4. (Unlisted /\ RegistryFollows)'
  BY DEF IInv, Close, Goes, store, TypeOK, LoginsFirst, OneEach, Unlisted, RegistryFollows, LoggedIn, Served
<1>5. LateOnce'
  BY DEF IInv, Close, Goes, store, TypeOK, LateOnce
<1>6. Counted'
  <2>1. Inside' = Inside
    BY DEF IInv, Close, Goes, store, TypeOK, Inside
  <2>2. UNCHANGED slots
    BY DEF Close, Goes, store
  <2> QED
    BY <2>1, <2>2 DEF IInv, Counted, SlotsAccounted
<1> QED
  BY <1>1, <1>2, <1>3, <1>4, <1>5, <1>6 DEF IInv

LEMMA ThrowInv ==
    ASSUME IInv, NEW c \in Conns, Throw(c)
    PROVE  IInv'
<1> USE ConnectionsAssumption
<1>1. TypeOK'
  <2>1. SlotsAfterThrow(c) \in 0..Slots
    <3>1. CASE c \in Inside
      <4>1. Cardinality(Inside) \in Nat /\ Cardinality(Inside) # 0
        BY <3>1, FS_CardinalityType, FS_EmptySet DEF IInv, Counted
      <4> QED
        BY <3>1, <4>1, ConnectionsAssumption DEF IInv, TypeOK, Counted, SlotsAccounted, SlotsAfterThrow
    <3>2. CASE c \notin Inside
      BY <3>2 DEF IInv, TypeOK, SlotsAfterThrow
    <3> QED
      BY <3>1, <3>2
  <2> QED
    BY <2>1 DEF IInv, Throw, Goes, store, TypeOK, Places
<1>2. LoginsFirst'
  BY DEF IInv, Throw, Goes, store, TypeOK, LoginsFirst
<1>3. OneEach'
  BY DEF IInv, Throw, Goes, store, TypeOK, OneEach, Served
<1>4. (Unlisted /\ RegistryFollows)'
  BY DEF IInv, Throw, Goes, store, TypeOK, LoginsFirst, OneEach, Unlisted, RegistryFollows, LoggedIn, Served
<1>5. LateOnce'
  BY DEF IInv, Throw, Goes, store, TypeOK, LateOnce
<1>6. Counted'
  <2>1. Inside' = Inside \ {c}
    BY DEF IInv, Throw, Goes, TypeOK, Inside
  <2>2. Cardinality(Inside) \in Nat
    BY FS_CardinalityType DEF IInv, Counted
  <2>3. CASE c \in Inside
    <3>1. IsFiniteSet(Inside') /\ Cardinality(Inside') = Cardinality(Inside) - 1
      BY <2>1, <2>3, GoesOut DEF IInv, Counted
    <3> QED
      BY <2>2, <2>3, <3>1 DEF IInv, TypeOK, Counted, SlotsAccounted, Throw, SlotsAfterThrow
  <2>4. CASE c \notin Inside
    <3>1. Inside' = Inside /\ slots' = slots
      BY <2>1, <2>4 DEF Throw, SlotsAfterThrow
    <3> QED
      BY <3>1 DEF IInv, Counted, SlotsAccounted
  <2> QED
    BY <2>3, <2>4
<1> QED
  BY <1>1, <1>2, <1>3, <1>4, <1>5, <1>6 DEF IInv

LEMMA CatchInv ==
    ASSUME IInv, NEW c \in Conns, Catch(c)
    PROVE  IInv'
<1> USE ConnectionsAssumption
<1>1. TypeOK'
  BY DEF IInv, Catch, Unregistered, Goes, store, TypeOK, Places
<1>2. LoginsFirst'
  BY DEF IInv, Catch, Unregistered, Goes, store, TypeOK, LoginsFirst
<1>3. OneEach'
  BY DEF IInv, Catch, Unregistered, Goes, store, TypeOK, OneEach, Served
<1>4. (Unlisted /\ RegistryFollows)'
  BY DEF IInv, Catch, Unregistered, Goes, store, TypeOK, LoginsFirst, OneEach, Unlisted, RegistryFollows, LoggedIn, Served
<1>5. LateOnce'
  BY DEF IInv, Catch, Unregistered, Goes, store, TypeOK, LateOnce
<1>6. Counted'
  <2>1. Inside' = Inside
    BY DEF IInv, Catch, Unregistered, Goes, store, TypeOK, Inside
  <2>2. UNCHANGED slots
    BY DEF Catch, Unregistered, Goes, store
  <2> QED
    BY <2>1, <2>2 DEF IInv, Counted, SlotsAccounted
<1> QED
  BY <1>1, <1>2, <1>3, <1>4, <1>5, <1>6 DEF IInv

LEMMA ExpireInv ==
    ASSUME IInv, NEW c \in Conns, Expire(c)
    PROVE  IInv'
<1> USE ConnectionsAssumption
<1>1. TypeOK'
  BY DEF IInv, Expire, TypeOK, Places
<1>2. LoginsFirst'
  BY DEF IInv, Expire, TypeOK, LoginsFirst
<1>3. OneEach'
  BY DEF IInv, Expire, TypeOK, OneEach, Served
<1>4. (Unlisted /\ RegistryFollows)'
  BY DEF IInv, Expire, TypeOK, LoginsFirst, OneEach, Unlisted, RegistryFollows, LoggedIn, Served
<1>5. LateOnce'
  BY DEF IInv, Expire, TypeOK, LateOnce
<1>6. Counted'
  <2>1. Inside' = Inside
    BY DEF IInv, Expire, TypeOK, Inside
  <2>2. UNCHANGED slots
    BY DEF Expire
  <2> QED
    BY <2>1, <2>2 DEF IInv, Counted, SlotsAccounted
<1> QED
  BY <1>1, <1>2, <1>3, <1>4, <1>5, <1>6 DEF IInv

-----------------------------------------------------------------------------
LEMMA StutterInv ==
    ASSUME IInv, UNCHANGED vars
    PROVE  IInv'
<1>1. Inside' = Inside
  BY DEF vars, Inside
<1>2. Counted'
  BY <1>1 DEF IInv, vars, Counted, SlotsAccounted
<1> QED
  BY <1>2 DEF IInv, vars, store, TypeOK, LoginsFirst, OneEach, Unlisted, RegistryFollows,
              LoggedIn, Served, LateOnce

LEMMA AlwaysInv == Spec => []IInv
<1>1. IInv /\ [Next]_vars => IInv'
  BY StutterInv, TakeInv, LoginInv, RegisterInv, QueryInv, EnterGateInv, ExecuteInv, AnswerInv,
     LogoutInv, DisconnectInv, CleanupInv, CloseInv, ThrowInv, CatchInv, ExpireInv
     DEF Next, Work
<1> QED
  BY <1>1, InitInv, PTL DEF Spec

(* The variables have their types, and the semaphore its range.             *)
THEOREM TypeCorrect == Spec => []TypeOK
<1>1. IInv => TypeOK
  BY DEF IInv
<1> QED
  BY <1>1, AlwaysInv, PTL

(* SemGuard: slots that are free and slots that are held make M, whatever   *)
(* is thrown and wherever.                                                  *)
THEOREM SlotsAccountedCorrect == Spec => []SlotsAccounted
<1>1. IInv => SlotsAccounted
  BY DEF IInv, Counted
<1> QED
  BY <1>1, AlwaysInv, PTL

(* SessionManager: an id that was never shared names the connection that is *)
(* logged in with it and no other, whatever is thrown and wherever.         *)
THEOREM RegistryFollowsCorrect == Spec => []RegistryFollows
<1>1. IInv => RegistryFollows
  BY DEF IInv
<1> QED
  BY <1>1, AlwaysInv, PTL

(* processClientRequests: no connection has a second query executed after   *)
(* its session has expired.                                                 *)
THEOREM OneLateQueryCorrect == Spec => OneLateQuery
<1>1. IInv => \A c \in late : ~(at[c] = "execute" /\ at'[c] = "send")
  BY DEF IInv, LateOnce
<1> QED
  BY <1>1, AlwaysInv, PTL DEF OneLateQuery

-----------------------------------------------------------------------------
(* The refinement.  Who waits at the gate and who is inside is all that is  *)
(* seen, and one step moves one worker.                                     *)

Waiting == {c \in Conns : at[c] = "gate"}

(* Gate's instance of FiniteSets counts as ours does.                       *)
LEMMA SameCount == \A S : Abstract!Cardinality(S) = Cardinality(S)
BY DEF Abstract!Cardinality, Cardinality

LEMMA InitGate == Init => Abstract!Init
BY DEF Init, Abstract!Init, Inside

(* Where a worker goes from and to says what happens at the gate.           *)
LEMMA Moves ==
    ASSUME TypeOK, NEW c \in Conns, NEW p \in Places, Goes(c, p)
    PROVE  /\ at[c] = "gate" /\ p # "gate" => Waiting' = Waiting \ {c}
           /\ at[c] # "gate" /\ p = "gate" => Waiting' = Waiting \cup {c}
           /\ (at[c] = "gate" <=> p = "gate") => Waiting' = Waiting
           /\ c \in Inside /\ p \notin {"execute", "send"} => Inside' = Inside \ {c}
           /\ c \notin Inside /\ p \in {"execute", "send"} => Inside' = Inside \cup {c}
           /\ (c \in Inside <=> p \in {"execute", "send"}) => Inside' = Inside
<1>1. at'[c] = p /\ \A d \in Conns \ {c} : at'[d] = at[d]
  BY DEF TypeOK, Goes
<1> QED BY <1>1 DEF Waiting, Inside

(* The semaphore is above zero only while fewer than Slots are inside.      *)
LEMMA RoomInside ==
    ASSUME TypeOK, Counted, SlotFree
    PROVE  Cardinality(Inside) < Slots
<1>1. Cardinality(Inside) \in Nat
  BY FS_CardinalityType DEF Counted
<1> QED BY <1>1, ConnectionsAssumption DEF Counted, SlotsAccounted, SlotFree, TypeOK

LEMMA StepGate ==
    ASSUME IInv, [Next]_vars
    PROVE  [Abstract!Next]_(Abstract!gateVars)
<1> USE DEF IInv
<1> DEFINE Seen == Abstract!Next \/ UNCHANGED Abstract!gateVars
<1>1. ASSUME UNCHANGED <<Waiting, Inside>> PROVE Seen
  BY <1>1 DEF Abstract!gateVars, Waiting
<1>2. ASSUME NEW c \in Conns, Query(c) PROVE Seen
  <2>1. CASE Valid(c)
    <3>1. Waiting' = Waiting \cup {c} /\ Inside' = Inside
      BY <1>2, <2>1, Moves DEF Query, Inside, Places
    <3>2. c \notin Waiting \cup Inside
      BY <1>2 DEF Query, Waiting, Inside
    <3>3. Abstract!Queue(c)
      BY <3>1, <3>2 DEF Abstract!Queue, Waiting
    <3> QED BY <3>3 DEF Abstract!Next
  <2>2. CASE ~Valid(c)
    <3>1. UNCHANGED <<Waiting, Inside>>
      BY <1>2, <2>2, Moves DEF Query, Inside, Places
    <3> QED BY <3>1, <1>1
  <2> QED BY <2>1, <2>2
<1>3. ASSUME NEW c \in Conns, EnterGate(c) PROVE Seen
  <2>1. Waiting' = Waiting \ {c} /\ Inside' = Inside \cup {c}
    BY <1>3, Moves DEF EnterGate, Inside, Places
  <2>2. c \in Waiting /\ Cardinality(Inside) < Slots
    BY <1>3, RoomInside DEF EnterGate, Waiting
  <2>3. Abstract!Enter(c)
    BY <2>1, <2>2, SameCount DEF Abstract!Enter, Waiting
  <2> QED BY <2>3 DEF Abstract!Next
<1>4. ASSUME NEW c \in Conns, Answer(c) PROVE Seen
  <2>1. Waiting' = Waiting /\ Inside' = Inside \ {c} /\ c \in Inside /\ c \notin Waiting
    BY <1>4, Moves DEF Answer, Inside, Places, Waiting
  <2>2. Abstract!Leave(c)
    BY <2>1 DEF Abstract!Leave, Waiting
  <2> QED BY <2>2 DEF Abstract!Next
<1>5. ASSUME NEW c \in Conns, Throw(c) PROVE Seen
  <2>1. Goes(c, "catch") /\ "catch" \in Places
    BY <1>5 DEF Throw, Places
  <2>2. CASE at[c] \in {"gate", "execute", "send"}
    <3>1. Waiting' = Waiting \ {c} /\ Inside' = Inside \ {c} /\ c \in Waiting \cup Inside
      BY <2>1, <2>2, Moves DEF Inside, Waiting
    <3>2. Abstract!Leave(c)
      BY <3>1 DEF Abstract!Leave, Waiting
    <3> QED BY <3>2 DEF Abstract!Next
  <2>3. CASE at[c] \notin {"gate", "execute", "send"}
    <3>1. UNCHANGED <<Waiting, Inside>>
      BY <2>1, <2>3, Moves DEF Inside
    <3> QED BY <3>1, <1>1
  <2> QED BY <2>2, <2>3
<1>6. ASSUME NEW c \in Conns,
             \/ Take(c) \/ Login(c) \/ Register(c) \/ Execute(c) \/ Logout(c)
             \/ Disconnect(c) \/ Cleanup(c) \/ Close(c) \/ Catch(c)
      PROVE  Seen
  <2>1. /\ at[c] # "gate"
        /\ \E p \in Places \ {"gate"} :
              /\ Goes(c, p)
              /\ c \in Inside <=> p \in {"execute", "send"}
    BY <1>6 DEF Take, Login, Register, Execute, Logout, Disconnect, Cleanup, Close, Catch, Places, Inside
  <2>2. UNCHANGED <<Waiting, Inside>>
    BY <2>1, Moves
  <2> QED BY <2>2, <1>1
<1>7. ASSUME (\E c \in Conns : Expire(c)) \/ UNCHANGED vars PROVE Seen
  <2>1. UNCHANGED <<Waiting, Inside>>
    BY <1>7 DEF Expire, vars, Waiting, Inside
  <2> QED BY <2>1, <1>1
<1> QED BY <1>2, <1>3, <1>4, <1>5, <1>6, <1>7 DEF Next, Work

(* For any number of tasks and of slots, the semaphore is a gate: nobody is *)
(* in the database who has not waited for a slot, never more than Slots are, *)
(* and whatever is thrown, nobody leaves twice.                              *)
THEOREM ImplementsGateCorrect == Spec => ImplementsGate
BY InitGate, StepGate, AlwaysInv, PTL DEF Spec, ImplementsGate, Abstract!Spec
=============================================================================
