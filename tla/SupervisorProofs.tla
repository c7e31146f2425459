--------------------------- MODULE SupervisorProofs ---------------------------
(***************************************************************************)
(* Proofs about Supervisor for any set of process ids and any number of    *)
(* jobs.                                                                   *)
(***************************************************************************)
EXTENDS Supervisor, TLAPS

(* What the main loop knows where it stands.                                *)
PlaceInv ==
    /\ main = "startup" => due = 0 /\ \A p \in Pids : child[p] = "none"
    /\ main = "startup" <=> state = "INITIALIZING"
    /\ main = "drain" => state # "STOPPED"
    /\ main \in {"tick", "sql", "register"} => state = "RUNNING"
    /\ main \in {"sql", "register"} => due > 0
    /\ main \in {"register", "reapOne"} => cur \in Pids
    /\ main \in DrainPlaces <=> state = "DRAINING"

SafeInv == TypeOK /\ PlaceInv

LEMMA InitSafeInv == Init => SafeInv
<1> SUFFICES ASSUME Init PROVE SafeInv
  OBVIOUS
<1>1. TypeOK
  <2>1. job_count \in 0 .. MAX_JOBS /\ due \in 0 .. job_count
    BY SupervisorAssumption DEF Init
  <2>2. restart_count \in [Pids -> Nat]
    BY DEF Init
  <2>3. /\ child \in [Pids -> {"none", "alive", "exited", "failed", "gone"}]
        /\ registry \in [Pids -> {"absent", "RUNNING", "REAPED"}]
    BY DEF Init
  <2> QED BY <2>1, <2>2, <2>3 DEF Init, TypeOK, Places, DrainPlaces
<1>2. PlaceInv
  BY DEF Init, PlaceInv, DrainPlaces
<1> QED BY <1>1, <1>2 DEF SafeInv

LEMMA StepSafeInv == ASSUME SafeInv, [Next]_vars PROVE SafeInv'
<1> USE SupervisorAssumption DEF SafeInv
<1>1. ASSUME RegisterJob PROVE SafeInv'
  BY <1>1 DEF RegisterJob, RoomForJob, TypeOK, PlaceInv, Places, DrainPlaces, flags, kernel, records, drain, threads
<1>2. ASSUME Run PROVE SafeInv'
  BY <1>2 DEF Run, TypeOK, PlaceInv, Places, DrainPlaces, flags, kernel, records, drain, threads
<1>3. ASSUME TimerFires PROVE SafeInv'
  BY <1>3 DEF TimerFires, TypeOK, PlaceInv, Places, DrainPlaces, flags, kernel, records, drain, threads
<1>4. ASSUME Terminate PROVE SafeInv'
  BY <1>4 DEF Terminate, TypeOK, PlaceInv, Places, DrainPlaces, flags, kernel, records, drain, threads
<1>5. ASSUME handle_sigchld PROVE SafeInv'
  <2> USE DEF kernel, records, drain, threads
  <2>1. TypeOK'
    <3>1. /\ sigchld' = FALSE /\ chld_pending' = TRUE
          /\ UNCHANGED <<main, state, job_count, due, cur, armed, alarm_pending, drain_requested, child, foreign,
                         killed, registry, restart_count, remaining, signalled, handlers, db_taken>>
      BY <1>5 DEF handle_sigchld
    <3> QED BY ONLY SafeInv, <3>1 DEF SafeInv, TypeOK
  <2>2. PlaceInv'
    BY <1>5 DEF handle_sigchld, PlaceInv, DrainPlaces
  <2> QED BY <2>1, <2>2
<1>6. ASSUME NEW p \in Pids, Die(p) PROVE SafeInv'
  BY <1>6 DEF Die, TypeOK, PlaceInv, Places, DrainPlaces, flags, kernel, records, drain, threads
<1>7. ASSUME NEW p \in Pids, ForeignStarts(p) PROVE SafeInv'
  BY <1>7 DEF ForeignStarts, Free, TypeOK, PlaceInv, Places, DrainPlaces, flags, kernel, records, drain, threads
<1>8. ASSUME NEW p \in Pids, ForeignEnds(p) PROVE SafeInv'
  BY <1>8 DEF ForeignEnds, TypeOK, PlaceInv, Places, DrainPlaces, flags, kernel, records, drain, threads
<1>9. ASSUME CheckAlarm PROVE SafeInv'
  <2>1. due' \in 0 .. job_count
    BY <1>9 DEF CheckAlarm, TypeOK
  <2>2. main' \in {"tick", "chld"} /\ (main' = "tick" => state = "RUNNING")
    BY <1>9 DEF CheckAlarm, MayTick
  <2>3. UNCHANGED <<state, job_count, cur, armed, chld_pending, drain_requested, sigchld, kernel, records, drain, threads>>
    BY <1>9 DEF CheckAlarm
  <2>4. alarm_pending' = FALSE
    BY <1>9 DEF CheckAlarm
  <2>5. TypeOK'
    BY <2>1, <2>2, <2>3, <2>4 DEF TypeOK, Places, kernel, records, drain, threads
  <2>6. PlaceInv'
    BY <1>9, <2>2, <2>3 DEF CheckAlarm, PlaceInv, DrainPlaces
  <2> QED BY <2>5, <2>6
<1>10. ASSUME NEW p \in Pids, Fork(p) PROVE SafeInv'
  BY <1>10 DEF Fork, Free, TypeOK, PlaceInv, Places, DrainPlaces, flags, kernel, records, drain, threads
<1>11. ASSUME ForkFails PROVE SafeInv'
  BY <1>11 DEF ForkFails, TypeOK, PlaceInv, Places, DrainPlaces, flags, kernel, records, drain, threads
<1>12. ASSUME Register PROVE SafeInv'
  BY <1>12 DEF Register, TypeOK, PlaceInv, Places, DrainPlaces, flags, kernel, records, drain, threads
<1>13. ASSUME TickEnds PROVE SafeInv'
  BY <1>13 DEF TickEnds, TypeOK, PlaceInv, Places, DrainPlaces, flags, kernel, records, drain, threads
<1>14. ASSUME CheckChld PROVE SafeInv'
  BY <1>14 DEF CheckChld, NextPass, TypeOK, PlaceInv, Places, DrainPlaces, flags, kernel, records, drain, threads
<1>15. ASSUME NEW p \in Pids, WaitAny(p) PROVE SafeInv'
  BY <1>15 DEF WaitAny, TypeOK, PlaceInv, Places, DrainPlaces, flags, kernel, records, drain, threads
<1>16. ASSUME WaitAnyNone PROVE SafeInv'
  BY <1>16 DEF WaitAnyNone, NextPass, TypeOK, PlaceInv, Places, DrainPlaces, flags, kernel, records, drain, threads
<1>17. ASSUME reapOne PROVE SafeInv'
  BY <1>17 DEF reapOne, AfterReapOne, TypeOK, PlaceInv, Places, DrainPlaces, flags, kernel, records, drain, threads
<1>18. ASSUME CheckDrain PROVE SafeInv'
  BY <1>18 DEF CheckDrain, Registered, TypeOK, PlaceInv, Places, DrainPlaces, flags, kernel, records, drain, threads
<1>19. ASSUME SendTerm PROVE SafeInv'
  BY <1>19 DEF SendTerm, TypeOK, PlaceInv, Places, DrainPlaces, flags, kernel, records, drain, threads
<1>20. ASSUME WaitPass PROVE SafeInv'
  BY <1>20 DEF WaitPass, StillAlive, TypeOK, PlaceInv, Places, DrainPlaces, flags, kernel, records, drain, threads
<1>21. ASSUME AllReaped PROVE SafeInv'
  BY <1>21 DEF AllReaped, TypeOK, PlaceInv, Places, DrainPlaces, flags, kernel, records, drain, threads
<1>22. ASSUME Timeout PROVE SafeInv'
  BY <1>22 DEF Timeout, Stragglers, StillAlive, TypeOK, PlaceInv, Places, DrainPlaces, flags, kernel, records, drain, threads
<1>23. ASSUME NEW p \in Pids, FinalWait(p) PROVE SafeInv'
  BY <1>23 DEF FinalWait, TypeOK, PlaceInv, Places, DrainPlaces, flags, kernel, records, drain, threads
<1>24. ASSUME Stopped PROVE SafeInv'
  BY <1>24 DEF Stopped, TypeOK, PlaceInv, Places, DrainPlaces, flags, kernel, records, drain, threads
<1>26. ASSUME BeginSqlJob PROVE SafeInv'
  BY <1>26 DEF BeginSqlJob, TypeOK, PlaceInv, Places, DrainPlaces, flags, kernel, records, drain, threads
<1>27. ASSUME EndSqlJob PROVE SafeInv'
  BY <1>27 DEF EndSqlJob, TypeOK, PlaceInv, Places, DrainPlaces, flags, kernel, records, drain, threads
<1>28. ASSUME PoolShutDown PROVE SafeInv'
  BY <1>28 DEF PoolShutDown, TypeOK, PlaceInv, Places, DrainPlaces, flags, kernel, records, drain, threads
<1>29. ASSUME HandlerStarts PROVE SafeInv'
  BY <1>29 DEF HandlerStarts, TypeOK, PlaceInv, Places, DrainPlaces, flags, kernel, records, drain, threads
<1>30. ASSUME HandlerReturns PROVE SafeInv'
  <2>1. /\ handlers' \in BOOLEAN
        /\ UNCHANGED <<main, state, job_count, due, cur, armed, flags, kernel, records, drain, db_taken>>
    BY <1>30 DEF HandlerReturns
  <2> QED
    BY <2>1 DEF TypeOK, PlaceInv, Places, DrainPlaces, flags, kernel, records, drain
<1>31. ASSUME DbTaken PROVE SafeInv'
  BY <1>31 DEF DbTaken, TypeOK, PlaceInv, Places, DrainPlaces, flags, kernel, records, drain, threads
<1>25. ASSUME UNCHANGED vars PROVE SafeInv'
  BY <1>25 DEF vars, flags, kernel, records, drain, threads, TypeOK, PlaceInv, Places, DrainPlaces, flags, kernel, records, drain, threads
<1> QED BY <1>1, <1>2, <1>3, <1>4, <1>5, <1>6, <1>7, <1>8, <1>9, <1>10, <1>11, <1>12, <1>13, <1>14, <1>15, <1>16, <1>17, <1>18, <1>19, <1>20, <1>21, <1>22, <1>23, <1>24, <1>25,
          <1>26, <1>27, <1>28, <1>29, <1>30, <1>31 DEF Next, MainLoop

LEMMA SafeInvariant == Spec => []SafeInv
BY InitSafeInv, StepSafeInv, PTL DEF Spec

(* The types, the bound of job_registry and that no tick starts a job twice. *)
THEOREM TypeCorrect == Spec => []TypeOK
<1>1. SafeInv => TypeOK
  BY DEF SafeInv
<1> QED BY <1>1, SafeInvariant, PTL

-----------------------------------------------------------------------------
(* SIGCHLD: a death leaves a signal, the signal a flag, and the flag is     *)
(* cleared only on the way into the loop, which ends when nobody is left.   *)

LEMMA StepNoZombieForgotten ==
    ASSUME SafeInv, NoZombieForgotten, [Next]_vars
    PROVE  NoZombieForgotten'
<1> USE DEF SafeInv, NoZombieForgotten
<1>1. ASSUME RegisterJob PROVE NoZombieForgotten'
  BY <1>1 DEF RegisterJob, RoomForJob, TypeOK, Zombie, flags, kernel, records, drain, threads
<1>2. ASSUME Run PROVE NoZombieForgotten'
  BY <1>2 DEF Run, TypeOK, Zombie, flags, kernel, records, drain, threads
<1>3. ASSUME TimerFires PROVE NoZombieForgotten'
  BY <1>3 DEF TimerFires, TypeOK, Zombie, flags, kernel, records, drain, threads
<1>4. ASSUME Terminate PROVE NoZombieForgotten'
  BY <1>4 DEF Terminate, TypeOK, Zombie, flags, kernel, records, drain, threads
<1>5. ASSUME handle_sigchld PROVE NoZombieForgotten'
  BY <1>5 DEF handle_sigchld, TypeOK, Zombie, flags, kernel, records, drain, threads
<1>6. ASSUME NEW p \in Pids, Die(p) PROVE NoZombieForgotten'
  BY <1>6 DEF Die, TypeOK, Zombie, flags, kernel, records, drain, threads
<1>7. ASSUME NEW p \in Pids, ForeignStarts(p) PROVE NoZombieForgotten'
  BY <1>7 DEF ForeignStarts, Free, TypeOK, Zombie, flags, kernel, records, drain, threads
<1>8. ASSUME NEW p \in Pids, ForeignEnds(p) PROVE NoZombieForgotten'
  BY <1>8 DEF ForeignEnds, TypeOK, Zombie, flags, kernel, records, drain, threads
<1>9. ASSUME CheckAlarm PROVE NoZombieForgotten'
  BY <1>9 DEF CheckAlarm, MayTick, TypeOK, Zombie, flags, kernel, records, drain, threads
<1>10. ASSUME NEW p \in Pids, Fork(p) PROVE NoZombieForgotten'
  BY <1>10 DEF Fork, Free, TypeOK, Zombie, flags, kernel, records, drain, threads
<1>11. ASSUME ForkFails PROVE NoZombieForgotten'
  BY <1>11 DEF ForkFails, TypeOK, Zombie, flags, kernel, records, drain, threads
<1>12. ASSUME Register PROVE NoZombieForgotten'
  BY <1>12 DEF Register, TypeOK, Zombie, flags, kernel, records, drain, threads
<1>13. ASSUME TickEnds PROVE NoZombieForgotten'
  BY <1>13 DEF TickEnds, TypeOK, Zombie, flags, kernel, records, drain, threads
<1>14. ASSUME CheckChld PROVE NoZombieForgotten'
  BY <1>14 DEF CheckChld, NextPass, TypeOK, Zombie, flags, kernel, records, drain, threads
<1>15. ASSUME NEW p \in Pids, WaitAny(p) PROVE NoZombieForgotten'
  BY <1>15 DEF WaitAny, TypeOK, Zombie, flags, kernel, records, drain, threads
<1>16. ASSUME WaitAnyNone PROVE NoZombieForgotten'
  BY <1>16 DEF WaitAnyNone, NextPass, TypeOK, Zombie, flags, kernel, records, drain, threads
<1>17. ASSUME reapOne PROVE NoZombieForgotten'
  BY <1>17 DEF reapOne, AfterReapOne, TypeOK, Zombie, flags, kernel, records, drain, threads
<1>18. ASSUME CheckDrain PROVE NoZombieForgotten'
  BY <1>18 DEF CheckDrain, Registered, TypeOK, Zombie, flags, kernel, records, drain, threads
<1>19. ASSUME SendTerm PROVE NoZombieForgotten'
  BY <1>19 DEF SendTerm, TypeOK, Zombie, flags, kernel, records, drain, threads
<1>20. ASSUME WaitPass PROVE NoZombieForgotten'
  BY <1>20 DEF WaitPass, StillAlive, TypeOK, Zombie, flags, kernel, records, drain, threads
<1>21. ASSUME AllReaped PROVE NoZombieForgotten'
  BY <1>21 DEF AllReaped, TypeOK, Zombie, flags, kernel, records, drain, threads
<1>22. ASSUME Timeout PROVE NoZombieForgotten'
  BY <1>22 DEF Timeout, Stragglers, StillAlive, TypeOK, Zombie, flags, kernel, records, drain, threads
<1>23. ASSUME NEW p \in Pids, FinalWait(p) PROVE NoZombieForgotten'
  BY <1>23 DEF FinalWait, TypeOK, Zombie, flags, kernel, records, drain, threads
<1>24. ASSUME Stopped PROVE NoZombieForgotten'
  BY <1>24 DEF Stopped, TypeOK, Zombie, flags, kernel, records, drain, threads
<1>26. ASSUME BeginSqlJob PROVE NoZombieForgotten'
  BY <1>26 DEF BeginSqlJob, TypeOK, Zombie, flags, kernel, records, drain, threads
<1>27. ASSUME EndSqlJob PROVE NoZombieForgotten'
  BY <1>27 DEF EndSqlJob, TypeOK, Zombie, flags, kernel, records, drain, threads
<1>28. ASSUME PoolShutDown PROVE NoZombieForgotten'
  BY <1>28 DEF PoolShutDown, TypeOK, Zombie, flags, kernel, records, drain, threads
<1>29. ASSUME HandlerStarts PROVE NoZombieForgotten'
  BY <1>29 DEF HandlerStarts, TypeOK, Zombie, flags, kernel, records, drain, threads
<1>30. ASSUME HandlerReturns PROVE NoZombieForgotten'
  BY <1>30 DEF HandlerReturns, TypeOK, Zombie, flags, kernel, records, drain, threads
<1>31. ASSUME DbTaken PROVE NoZombieForgotten'
  BY <1>31 DEF DbTaken, TypeOK, Zombie, flags, kernel, records, drain, threads
<1>25. ASSUME UNCHANGED vars PROVE NoZombieForgotten'
  BY <1>25 DEF vars, flags, kernel, records, drain, threads, TypeOK, Zombie, flags, kernel, records, drain, threads
<1> QED BY <1>1, <1>2, <1>3, <1>4, <1>5, <1>6, <1>7, <1>8, <1>9, <1>10, <1>11, <1>12, <1>13, <1>14, <1>15, <1>16, <1>17, <1>18, <1>19, <1>20, <1>21, <1>22, <1>23, <1>24, <1>25,
          <1>26, <1>27, <1>28, <1>29, <1>30, <1>31 DEF Next, MainLoop

THEOREM NoZombieForgottenCorrect == Spec => []NoZombieForgotten
<1>1. Init => NoZombieForgotten
  BY DEF Init, NoZombieForgotten, Zombie
<1> QED BY <1>1, StepNoZombieForgotten, SafeInvariant, PTL DEF Spec

-----------------------------------------------------------------------------
(* The drain.  Every child has a record, so the snapshot reapAll takes has  *)
(* all of them; nobody forks before the scheduler has stopped, because the  *)
(* main loop is in the drain, nor afterwards, because tick looks at state.  *)

DrainInv ==
    /\ \A p \in Pids : Live(p) => registry[p] # "absent" \/ (main = "register" /\ cur = p)
    /\ main \in {"term", "wait", "final"} => \A p \in Pids : Live(p) => p \in remaining
    /\ main \in {"join", "disconnect"} \/ state = "STOPPED" => \A p \in Pids : ~Live(p)

LEMMA StepDrainInv ==
    ASSUME SafeInv, DrainInv, [Next]_vars
    PROVE  DrainInv'
<1> USE DEF SafeInv, DrainInv
<1>1. ASSUME RegisterJob PROVE DrainInv'
  BY <1>1 DEF RegisterJob, RoomForJob, TypeOK, PlaceInv, DrainPlaces, Live, Zombie, flags, kernel, records, drain, threads
<1>2. ASSUME Run PROVE DrainInv'
  BY <1>2 DEF Run, TypeOK, PlaceInv, DrainPlaces, Live, Zombie, flags, kernel, records, drain, threads
<1>3. ASSUME TimerFires PROVE DrainInv'
  BY <1>3 DEF TimerFires, TypeOK, PlaceInv, DrainPlaces, Live, Zombie, flags, kernel, records, drain, threads
<1>4. ASSUME Terminate PROVE DrainInv'
  BY <1>4 DEF Terminate, TypeOK, PlaceInv, DrainPlaces, Live, Zombie, flags, kernel, records, drain, threads
<1>5. ASSUME handle_sigchld PROVE DrainInv'
  BY <1>5 DEF handle_sigchld, TypeOK, PlaceInv, DrainPlaces, Live, Zombie, flags, kernel, records, drain, threads
<1>6. ASSUME NEW p \in Pids, Die(p) PROVE DrainInv'
  BY <1>6 DEF Die, TypeOK, PlaceInv, DrainPlaces, Live, Zombie, flags, kernel, records, drain, threads
<1>7. ASSUME NEW p \in Pids, ForeignStarts(p) PROVE DrainInv'
  BY <1>7 DEF ForeignStarts, Free, TypeOK, PlaceInv, DrainPlaces, Live, Zombie, flags, kernel, records, drain, threads
<1>8. ASSUME NEW p \in Pids, ForeignEnds(p) PROVE DrainInv'
  BY <1>8 DEF ForeignEnds, TypeOK, PlaceInv, DrainPlaces, Live, Zombie, flags, kernel, records, drain, threads
<1>9. ASSUME CheckAlarm PROVE DrainInv'
  BY <1>9 DEF CheckAlarm, MayTick, TypeOK, PlaceInv, DrainPlaces, Live, Zombie, flags, kernel, records, drain, threads
<1>10. ASSUME NEW p \in Pids, Fork(p) PROVE DrainInv'
  BY <1>10 DEF Fork, Free, TypeOK, PlaceInv, DrainPlaces, Live, Zombie, flags, kernel, records, drain, threads
<1>11. ASSUME ForkFails PROVE DrainInv'
  BY <1>11 DEF ForkFails, TypeOK, PlaceInv, DrainPlaces, Live, Zombie, flags, kernel, records, drain, threads
<1>12. ASSUME Register PROVE DrainInv'
  BY <1>12 DEF Register, TypeOK, PlaceInv, DrainPlaces, Live, Zombie, flags, kernel, records, drain, threads
<1>13. ASSUME TickEnds PROVE DrainInv'
  BY <1>13 DEF TickEnds, TypeOK, PlaceInv, DrainPlaces, Live, Zombie, flags, kernel, records, drain, threads
<1>14. ASSUME CheckChld PROVE DrainInv'
  BY <1>14 DEF CheckChld, NextPass, TypeOK, PlaceInv, DrainPlaces, Live, Zombie, flags, kernel, records, drain, threads
<1>15. ASSUME NEW p \in Pids, WaitAny(p) PROVE DrainInv'
  BY <1>15 DEF WaitAny, TypeOK, PlaceInv, DrainPlaces, Live, Zombie, flags, kernel, records, drain, threads
<1>16. ASSUME WaitAnyNone PROVE DrainInv'
  BY <1>16 DEF WaitAnyNone, NextPass, TypeOK, PlaceInv, DrainPlaces, Live, Zombie, flags, kernel, records, drain, threads
<1>17. ASSUME reapOne PROVE DrainInv'
  BY <1>17 DEF reapOne, AfterReapOne, TypeOK, PlaceInv, DrainPlaces, Live, Zombie, flags, kernel, records, drain, threads
<1>18. ASSUME CheckDrain PROVE DrainInv'
  BY <1>18 DEF CheckDrain, Registered, TypeOK, PlaceInv, DrainPlaces, Live, Zombie, flags, kernel, records, drain, threads
<1>19. ASSUME SendTerm PROVE DrainInv'
  BY <1>19 DEF SendTerm, TypeOK, PlaceInv, DrainPlaces, Live, Zombie, flags, kernel, records, drain, threads
<1>20. ASSUME WaitPass PROVE DrainInv'
  BY <1>20 DEF WaitPass, StillAlive, TypeOK, PlaceInv, DrainPlaces, Live, Zombie, flags, kernel, records, drain, threads
<1>21. ASSUME AllReaped PROVE DrainInv'
  BY <1>21 DEF AllReaped, TypeOK, PlaceInv, DrainPlaces, Live, Zombie, flags, kernel, records, drain, threads
<1>22. ASSUME Timeout PROVE DrainInv'
  BY <1>22 DEF Timeout, Stragglers, StillAlive, TypeOK, PlaceInv, DrainPlaces, Live, Zombie, flags, kernel, records, drain, threads
<1>23. ASSUME NEW p \in Pids, FinalWait(p) PROVE DrainInv'
  BY <1>23 DEF FinalWait, TypeOK, PlaceInv, DrainPlaces, Live, Zombie, flags, kernel, records, drain, threads
<1>24. ASSUME Stopped PROVE DrainInv'
  BY <1>24 DEF Stopped, TypeOK, PlaceInv, DrainPlaces, Live, Zombie, flags, kernel, records, drain, threads
<1>26. ASSUME BeginSqlJob PROVE DrainInv'
  BY <1>26 DEF BeginSqlJob, TypeOK, PlaceInv, DrainPlaces, Live, Zombie, flags, kernel, records, drain, threads
<1>27. ASSUME EndSqlJob PROVE DrainInv'
  BY <1>27 DEF EndSqlJob, TypeOK, PlaceInv, DrainPlaces, Live, Zombie, flags, kernel, records, drain, threads
<1>28. ASSUME PoolShutDown PROVE DrainInv'
  BY <1>28 DEF PoolShutDown, TypeOK, PlaceInv, DrainPlaces, Live, Zombie, flags, kernel, records, drain, threads
<1>29. ASSUME HandlerStarts PROVE DrainInv'
  BY <1>29 DEF HandlerStarts, TypeOK, PlaceInv, DrainPlaces, Live, Zombie, flags, kernel, records, drain, threads
<1>30. ASSUME HandlerReturns PROVE DrainInv'
  BY <1>30 DEF HandlerReturns, TypeOK, PlaceInv, DrainPlaces, Live, Zombie, flags, kernel, records, drain, threads
<1>31. ASSUME DbTaken PROVE DrainInv'
  BY <1>31 DEF DbTaken, TypeOK, PlaceInv, DrainPlaces, Live, Zombie, flags, kernel, records, drain, threads
<1>25. ASSUME UNCHANGED vars PROVE DrainInv'
  BY <1>25 DEF vars, flags, kernel, records, drain, threads, TypeOK, PlaceInv, DrainPlaces, Live, Zombie, flags, kernel, records, drain, threads
<1> QED BY <1>1, <1>2, <1>3, <1>4, <1>5, <1>6, <1>7, <1>8, <1>9, <1>10, <1>11, <1>12, <1>13, <1>14, <1>15, <1>16, <1>17, <1>18, <1>19, <1>20, <1>21, <1>22, <1>23, <1>24, <1>25,
          <1>26, <1>27, <1>28, <1>29, <1>30, <1>31 DEF Next, MainLoop

(* No agent outlives the scheduler.                                         *)
THEOREM StoppedMeansNoAgentsCorrect == Spec => []StoppedMeansNoAgents
<1>1. Init => DrainInv
  BY DEF Init, DrainInv, Live, Zombie
<1>2. DrainInv => StoppedMeansNoAgents
  BY DEF DrainInv, StoppedMeansNoAgents
<1> QED BY <1>1, <1>2, StepDrainInv, SafeInvariant, PTL DEF Spec

-----------------------------------------------------------------------------
(* The refinement.  Signals, the tick's bookkeeping and the phases of       *)
(* reapAll are invisible to whoever sees only the scheduler's state and the *)
(* agents; fork, death and each way of waiting are seen as Agents has them.  *)

AgentKinds == {"none", "alive", "ended"}

LEMMA AgentIsOneOfThree ==
    ASSUME TypeOK, NEW p \in Pids
    PROVE  /\ Agent(p) \in AgentKinds
           /\ Agent(p) = "alive" <=> child[p] = "alive"
           /\ Agent(p) = "ended" <=> Zombie(p)
           /\ Agent(p) = "none" <=> ~Live(p)
<1>1. CASE child[p] = "alive"
  BY <1>1 DEF Agent, AgentKinds, Zombie, Live
<1>2. CASE Zombie(p)
  BY <1>2 DEF Agent, AgentKinds, Zombie, Live
<1>3. CASE ~Live(p)
  BY <1>3 DEF Agent, AgentKinds, Zombie, Live
<1> QED BY <1>1, <1>2, <1>3 DEF Live

(* A step that leaves the children as they are leaves the agents.           *)
LEMMA SameAgents ==
    ASSUME UNCHANGED child
    PROVE  [p \in Pids |-> Agent(p)]' = [p \in Pids |-> Agent(p)]
<1>1. \A p \in Pids : Agent(p)' = Agent(p)
  BY DEF Agent, Zombie
<1> QED BY <1>1

(* Only what changes a child, or the scheduler's state, is seen.            *)
LEMMA UnseenSteps ==
    ASSUME UNCHANGED <<state, child>>
    PROVE  UNCHANGED Abstract!agentVars
BY SameAgents DEF Abstract!agentVars

(* The agents that have ended and are waited for in a step.                 *)
LEMMA Collecting ==
    ASSUME TypeOK, UNCHANGED state,
           NEW dead \in SUBSET {p \in Pids : Zombie(p)},
           child' = [p \in Pids |-> IF p \in dead THEN "gone" ELSE child[p]]
    PROVE  Abstract!Collect
<1> DEFINE agent == [p \in Pids |-> Agent(p)]
<1>1. dead \in SUBSET {p \in Pids : agent[p] = "ended"}
  BY AgentIsOneOfThree
<1>2. ASSUME NEW p \in Pids PROVE Agent(p)' = IF p \in dead THEN "none" ELSE agent[p]
  <2>1. child'[p] = IF p \in dead THEN "gone" ELSE child[p]
    OBVIOUS
  <2>2. CASE p \in dead
    BY <2>1, <2>2 DEF Agent, Zombie
  <2>3. CASE p \notin dead
    BY <2>1, <2>3 DEF Agent, Zombie
  <2> QED BY <2>2, <2>3
<1>3. agent' = [p \in Pids |-> IF p \in dead THEN "none" ELSE agent[p]]
  BY <1>2
<1> QED BY <1>1, <1>3 DEF Abstract!Collect

(* One of them, by waitpid on any child or on this one.                     *)
LEMMA CollectingOne ==
    ASSUME TypeOK, UNCHANGED state, NEW p \in Pids, Zombie(p),
           child' = [child EXCEPT ![p] = "gone"]
    PROVE  Abstract!Collect
<1>1. child' = [q \in Pids |-> IF q \in {p} THEN "gone" ELSE child[q]]
  BY DEF TypeOK
<1>2. {p} \in SUBSET {q \in Pids : Zombie(q)}
  OBVIOUS
<1> QED BY ONLY <1>1, <1>2, TypeOK, UNCHANGED state, Collecting

LEMMA InitAbstract == Init => Abstract!Init
<1> SUFFICES ASSUME Init PROVE Abstract!Init
  OBVIOUS
<1>1. ASSUME NEW p \in Pids PROVE Agent(p) = "none"
  BY <1>1 DEF Init, Agent, Zombie
<1> QED BY <1>1 DEF Init, Abstract!Init

LEMMA StepAbstract ==
    ASSUME SafeInv, DrainInv, [Next]_vars
    PROVE  [Abstract!Next]_(Abstract!agentVars)
<1> DEFINE agent == [p \in Pids |-> Agent(p)]
<1> USE DEF SafeInv
<1>1. ASSUME Run PROVE Abstract!Open
  <2>1. agent' = agent
    BY <1>1, SameAgents DEF Run, kernel
  <2>2. state = "INITIALIZING" /\ state' = "RUNNING"
    BY <1>1 DEF Run, PlaceInv
  <2> QED BY <2>1, <2>2 DEF Abstract!Open
<1>2. ASSUME NEW p \in Pids, Die(p) PROVE Abstract!End(p)
  <2>1. child[p] = "alive" /\ state' = state
    BY <1>2 DEF Die
  <2>2. \E how \in {"exited", "failed"} : child' = [child EXCEPT ![p] = how]
    BY <1>2 DEF Die
  <2>3. ASSUME NEW q \in Pids PROVE Agent(q)' = [agent EXCEPT ![p] = "ended"][q]
    <3>1. CASE q = p
      <4>1. child'[p] \in {"exited", "failed"}
        BY <2>2 DEF TypeOK
      <4> QED BY <4>1, <3>1 DEF Agent, Zombie
    <3>2. CASE q # p
      <4>1. child'[q] = child[q]
        BY <2>2, <3>2 DEF TypeOK
      <4> QED BY <4>1, <3>2 DEF Agent, Zombie
    <3> QED BY <3>1, <3>2
  <2>4. agent' = [agent EXCEPT ![p] = "ended"]
    BY <2>3
  <2> QED BY <2>1, <2>4, AgentIsOneOfThree DEF Abstract!End
<1>3. ASSUME NEW p \in Pids, Fork(p) PROVE Abstract!Start(p)
  <2>1. state = "RUNNING" /\ state' = state
    BY <1>3 DEF Fork, PlaceInv
  <2>2. agent[p] = "none"
    BY <1>3, AgentIsOneOfThree DEF Fork, Free
  <2>3. child' = [child EXCEPT ![p] = "alive"]
    BY <1>3 DEF Fork
  <2>4. ASSUME NEW q \in Pids PROVE Agent(q)' = [agent EXCEPT ![p] = "alive"][q]
    <3>1. CASE q = p
      <4>1. child'[p] = "alive"
        BY <2>3 DEF TypeOK
      <4>2. Agent(p)' = "alive"
        BY <4>1 DEF Agent, Zombie
      <4> QED BY <4>2, <3>1
    <3>2. CASE q # p
      <4>1. child'[q] = child[q]
        BY <2>3, <3>2 DEF TypeOK
      <4> QED BY <4>1, <3>2 DEF Agent, Zombie
    <3> QED BY <3>1, <3>2
  <2>5. agent' = [agent EXCEPT ![p] = "alive"]
    BY <2>4
  <2> QED BY <2>1, <2>2, <2>5 DEF Abstract!Start
<1>4. ASSUME NEW p \in Pids, WaitAny(p) PROVE Abstract!Collect
  BY <1>4, CollectingOne DEF WaitAny
<1>5. ASSUME reapOne PROVE Abstract!Collect \/ UNCHANGED Abstract!agentVars
  <2>1. CASE Zombie(cur)
    BY <1>5, <2>1, CollectingOne DEF reapOne, PlaceInv
  <2>2. CASE ~Zombie(cur)
    BY <1>5, <2>2, UnseenSteps DEF reapOne
  <2> QED BY <2>1, <2>2
<1>6. ASSUME WaitPass PROVE Abstract!Collect
  <2> DEFINE dead == {p \in Pids : p \in remaining /\ Zombie(p)}
  <2>1. dead \in SUBSET {p \in Pids : Zombie(p)}
    OBVIOUS
  <2>2. child' = [p \in Pids |-> IF p \in dead THEN "gone" ELSE child[p]]
    BY <1>6 DEF WaitPass
  <2>3. UNCHANGED state
    BY <1>6 DEF WaitPass
  <2> HIDE DEF dead
  <2> QED BY <2>1, <2>2, <2>3, Collecting
<1>7. ASSUME NEW p \in Pids, FinalWait(p) PROVE Abstract!Collect \/ UNCHANGED Abstract!agentVars
  <2>1. CASE Zombie(p)
    BY <1>7, <2>1, CollectingOne DEF FinalWait
  <2>2. CASE ~Zombie(p)
    BY <1>7, <2>2, UnseenSteps DEF FinalWait
  <2> QED BY <2>1, <2>2
<1>8. ASSUME CheckDrain PROVE Abstract!Drain \/ UNCHANGED Abstract!agentVars
  <2>1. CASE drain_requested
    <3>1. agent' = agent
      BY <1>8, SameAgents DEF CheckDrain, kernel
    <3>2. state = "RUNNING"
      BY <1>8 DEF CheckDrain, PlaceInv, TypeOK, DrainPlaces
    <3> QED BY <1>8, <2>1, <3>1, <3>2 DEF CheckDrain, Abstract!Drain
  <2>2. CASE ~drain_requested
    BY <1>8, <2>2, UnseenSteps DEF CheckDrain, kernel
  <2> QED BY <2>1, <2>2
<1>9. ASSUME Stopped PROVE Abstract!Close
  <2>1. agent' = agent
    BY <1>9, SameAgents DEF Stopped, kernel
  <2>2. state = "DRAINING" /\ state' = "STOPPED"
    BY <1>9 DEF Stopped, PlaceInv, DrainPlaces
  <2>3. \A p \in Pids : agent[p] = "none"
    BY <1>9, AgentIsOneOfThree DEF Stopped, DrainInv
  <2> QED BY <2>1, <2>2, <2>3 DEF Abstract!Close
<1>10. ASSUME \/ RegisterJob \/ TimerFires \/ Terminate \/ handle_sigchld
              \/ HandlerStarts \/ HandlerReturns \/ DbTaken
              \/ \E p \in Pids : ForeignStarts(p) \/ ForeignEnds(p)
              \/ Timeout \/ UNCHANGED vars
       PROVE  UNCHANGED Abstract!agentVars
  <2>1. UNCHANGED <<state, child>>
    BY <1>10 DEF RegisterJob, TimerFires, Terminate, handle_sigchld, ForeignStarts, ForeignEnds, Timeout,
                 HandlerStarts, HandlerReturns, DbTaken, vars, kernel
  <2> QED BY <2>1, UnseenSteps
<1>11. ASSUME \/ CheckAlarm \/ BeginSqlJob \/ EndSqlJob \/ ForkFails \/ Register \/ TickEnds
              \/ CheckChld \/ WaitAnyNone \/ SendTerm \/ AllReaped \/ PoolShutDown
       PROVE  UNCHANGED Abstract!agentVars
  <2>1. UNCHANGED <<state, child>>
    BY <1>11 DEF CheckAlarm, BeginSqlJob, EndSqlJob, ForkFails, Register, TickEnds, CheckChld, WaitAnyNone,
                 SendTerm, AllReaped, PoolShutDown, kernel
  <2> QED BY <2>1, UnseenSteps
<1> QED
  BY <1>1, <1>2, <1>3, <1>4, <1>5, <1>6, <1>7, <1>8, <1>9, <1>10, <1>11
  DEF Next, MainLoop, Abstract!Next

(* Whatever signals, deaths and reused process ids come in between, the     *)
(* supervisor is one of Agents: it starts agents only while it runs, waits   *)
(* for each once it has ended and once only, and stops when none is left.    *)
THEOREM ImplementsAgentsCorrect == Spec => ImplementsAgents
<1>1. Init => DrainInv
  BY DEF Init, DrainInv, Live, Zombie
<1> QED
  BY <1>1, InitAbstract, StepAbstract, StepDrainInv, SafeInvariant, PTL
  DEF Spec, ImplementsAgents, Abstract!Spec
=============================================================================
