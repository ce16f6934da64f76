-------------------------- MODULE LifecycleProofs --------------------------
(***************************************************************************)
(* Theorems about Lifecycle, for any number of threads, signals and        *)
(* exceptions.                                                             *)
(***************************************************************************)
EXTENDS Lifecycle, WellFoundedInduction, TLAPS

\* A thread that is not joinable any more has ended; threads exist once created.
PoolInv ==
  /\ \A i \in Pool : i > created => pool[i] = "none"
  /\ \A i \in 1 .. created : i \notin joinable => pool[i] = "finished"

\* The frames: whose thread is alive, and what is behind each step.
FrameInv ==
  /\ step["stray"] # "out" => strayThread \in 1 .. created
                              /\ pool[strayThread] \notin {"none", "finished"}
  /\ step["program"] # "print"
  /\ step["program"] # "out" => main \in {"stopping", "terminated"}
  /\ \A f \in Frames : step[f] \in {"join", "clear"} => ~running
  /\ \A f \in Frames : step[f] = "clear" => f # "stray" /\ joinable = {}

MainInv ==
  /\ main \in {"installed", "arming"} => created = 0
  /\ main = "installed" =>
       acceptor /\ ~running /\ \A f \in Frames : step[f] \in {"out", "print", "check", "hung"}
  /\ main = "stopping" /\ step["program"] = "out" => ~running
  /\ main \in {"forgetting", "destroying", "caught", "over"} => ~running
  /\ main = "caught" => code = 1
  /\ running => acceptor

\* Whoever cleared running_ is still joining, has cleared the tables, or left a thread
\* that makes ~Broker terminate.
StopInv ==
  ~running /\ ~cleared /\ main # "installed" =>
    joinable # {} \/ \E f \in Frames : step[f] \in {"join", "clear"}

\* Without a signal during start(), in the catch of main(), or on a thread of the pool.
Calm == ~untimely /\ strayThread = Nobody

CalmInv ==
  Calm =>
    /\ main \in {"arming", "spawning", "naming"} => running /\ step["handler"] = "out"
    /\ ~running /\ main # "installed" =>
         joinable = {} \/ step["program"] = "join" \/ step["handler"] = "join"
    /\ main = "caught" => step["handler"] = "out"

AcceptInv ==
  main \notin {"installed", "arming"} /\ running /\ throws = 0 => accept # NotAccepting

LifeInv ==
  /\ TypeOK /\ PoolInv /\ FrameInv /\ MainInv /\ StopInv /\ CalmInv /\ AcceptInv
  /\ CrashOnlyBySignal /\ CleanExit

\* The loop of stop() starts with a thread of threads_.
LEMMA FirstIsMember ==
  ASSUME NEW T \in SUBSET Nat, T # {}
  PROVE  First(T) \in T
<1>1. PICK x \in T : \A y \in T : <<y, x>> \notin OpToRel(<, Nat)
  <2> HIDE DEF OpToRel
  <2> QED
  BY NatLessThanWellFounded, WFMin
<1>2. ASSUME NEW y \in T PROVE x <= y
  <2>1. ~(y < x)
    <3>1. SUFFICES ASSUME y < x PROVE <<y, x>> \in OpToRel(<, Nat)
      BY <1>1, <1>2
    <3>2. <<y, x>> \in Nat \X Nat /\ <<y, x>>[1] < <<y, x>>[2]
      BY <3>1
    <3> QED
      BY <3>2 DEF OpToRel
  <2>2. x \in Nat /\ y \in Nat
    OBVIOUS
  <2> QED
    BY <2>1, <2>2
<1> QED
  BY <1>2 DEF First

\* Only a thread of the pool can come to join itself.
LEMMA SelfJoin ==
  ASSUME TypeOK, NEW f \in Frames, joinable # {}, ThreadOf(f) = First(joinable)
  PROVE  f = "stray" /\ strayThread \in joinable
<1>1. joinable \in SUBSET Nat /\ MainThread \notin joinable
  BY DEF TypeOK, MainThread
<1> QED
  BY <1>1, FirstIsMember DEF ThreadOf

\* The types are kept.
LEMMA TypePreserved ==
  ASSUME TypeOK, [Next]_vars
  PROVE  TypeOK'
<1> USE LifecycleAssumption DEF TypeOK, MainSteps, FrameSteps, PoolSteps, Frames,
  Pool, Nobody, MainThread, NotAccepting, Armed, Mutexes, lockVars
<1>1. CASE StartBroker
  BY <1>1 DEF StartBroker, At, poolVars, signalVars
<1>2. CASE AcceptConnections
  BY <1>2 DEF AcceptConnections, At, brokerVars, signalVars
<1>3. CASE SpawnThread
  <2>1. created + 1 \in 1 .. PoolSize /\ created' = created + 1
    BY <1>3 DEF SpawnThread
  <2>2. /\ joinable' = joinable \cup {created + 1}
        /\ pool' = [pool EXCEPT ![created + 1] = "idle"]
    BY <1>3 DEF SpawnThread
  <2>3. joinable' \subseteq 1 .. created'
    BY <2>1, <2>2
  <2>4. pool' \in [Pool -> PoolSteps]
    BY <2>1, <2>2
  <2> QED
    BY <1>3, <2>1, <2>3, <2>4 DEF SpawnThread, signalVars
<1>4. CASE AllSpawned
  BY <1>4 DEF AllSpawned, At, brokerVars, poolVars, signalVars
<1>5. CASE SpawnFails
  BY <1>5 DEF SpawnFails, At, StartThrows, brokerVars, poolVars, signalVars
<1>6. CASE NameEndpoint
  <2>1. main' \in MainSteps /\ code' \in {0, 1} /\ step' \in [Frames -> FrameSteps]
    BY <1>6 DEF NameEndpoint, StartThrows
  <2>2. UNCHANGED <<g_broker, created, brokerVars, poolVars, console, signalVars>>
    BY <1>6 DEF NameEndpoint, StartThrows
  <2> QED
    BY <2>1, <2>2 DEF brokerVars, poolVars, signalVars
<1>7. CASE StartPrinting
  BY <1>7 DEF StartPrinting, At, CanPrint, brokerVars, poolVars, signalVars
<1>8. CASE EndPrinting
  BY <1>8 DEF EndPrinting, At, brokerVars, poolVars, signalVars
<1>9. CASE Enter
  BY <1>9 DEF Enter, At, brokerVars, poolVars, signalVars
<1>10. CASE StopReturns
  BY <1>10 DEF StopReturns, At, brokerVars, poolVars, signalVars
<1>11. CASE ForgetBroker
  BY <1>11 DEF ForgetBroker, At, brokerVars, poolVars, signalVars
<1>12. CASE DestroyBroker
  BY <1>12 DEF DestroyBroker, At, brokerVars, poolVars, signalVars
<1>13. CASE ReturnFailure
  BY <1>13 DEF ReturnFailure, At, brokerVars, poolVars, signalVars
<1>14. CASE Signal
  <2>1. signals' \in 0 .. MaxSignals
    BY <1>14 DEF Signal
  <2>4. strayThread' \in Pool \cup {Nobody}
    BY <1>14 DEF Signal
  <2>5. untimely' \in BOOLEAN
    BY <1>14 DEF Signal
  <2>2. step' \in [Frames -> FrameSteps]
    BY <1>14 DEF Signal
  <2>3. UNCHANGED <<mainVars, brokerVars, poolVars, console>>
    BY <1>14 DEF Signal
  <2> QED
    BY <2>1, <2>2, <2>3, <2>4, <2>5 DEF mainVars, brokerVars, poolVars
<1>15. ASSUME NEW f \in Frames, SignalMessage(f) PROVE TypeOK'
  BY <1>15 DEF SignalMessage, InFrame, Leaves, CanPrint, ThreadOf, brokerVars,
  mainVars, poolVars, signalVars, Active, Over
<1>16. ASSUME NEW f \in Frames, CheckRunning(f) PROVE TypeOK'
  BY <1>16 DEF CheckRunning, InFrame, Leaves, brokerVars, poolVars, signalVars,
  Active, Over
<1>17. ASSUME NEW f \in Frames, ShutDown(f) PROVE TypeOK'
  <2>1. step' \in [Frames -> FrameSteps]
    BY <1>17 DEF ShutDown
  <2>2. running' \in BOOLEAN /\ acceptor' \in BOOLEAN /\ stopped' \in BOOLEAN
    BY <1>17 DEF ShutDown
  <2>3. UNCHANGED <<mainVars, joinable, cleared, poolVars, console, signalVars>>
    BY <1>17 DEF ShutDown
  <2> QED
    BY <2>1, <2>2, <2>3 DEF mainVars, poolVars, signalVars
<1>18. ASSUME NEW f \in Frames, JoinThread(f) PROVE TypeOK'
  <2>1. joinable' \subseteq joinable
    BY <1>18 DEF JoinThread
  <2>2. UNCHANGED <<mainVars, step, running, acceptor, stopped, cleared, poolVars, console,
                  signalVars>>
    BY <1>18 DEF JoinThread
  <2> QED
    BY <2>1, <2>2 DEF mainVars, poolVars, signalVars
<1>19. ASSUME NEW f \in Frames, JoinThrows(f) PROVE TypeOK'
  <2>1. main' \in MainSteps /\ step' \in [Frames -> FrameSteps]
    BY <1>19 DEF JoinThrows
  <2>2. pool' \in [Pool -> PoolSteps]
    BY <1>19 DEF JoinThrows
  <2>3. /\ console' \in Pool \cup {MainThread, Nobody}
        /\ accept' \in Pool \cup {NotAccepting, Armed}
    BY <1>19 DEF JoinThrows
  <2>4. UNCHANGED <<code, g_broker, created, brokerVars, throws, signalVars>>
    BY <1>19 DEF JoinThrows
  <2>5. /\ held' \in [Mutexes -> Pool \cup {Nobody}]
        /\ needs' \in [Pool -> SUBSET Mutexes]
    BY <1>19 DEF JoinThrows, Unlock
  <2> QED
    BY <2>1, <2>2, <2>3, <2>4, <2>5 DEF brokerVars, signalVars
<1>20. ASSUME NEW f \in Frames, AllJoined(f) PROVE TypeOK'
  BY <1>20 DEF AllJoined, InFrame, brokerVars, mainVars, poolVars, signalVars,
  Active, Over
<1>21. ASSUME NEW f \in Frames, ClearTables(f) PROVE TypeOK'
  BY <1>21 DEF ClearTables, InFrame, Leaves, mainVars, poolVars, signalVars, Active,
  Over
<1>22. ASSUME NEW i \in Pool, TakeHandler(i) PROVE TypeOK'
  <2>1. pool' \in [Pool -> PoolSteps] /\ accept' \in Pool \cup {NotAccepting, Armed}
    BY <1>22 DEF TakeHandler
  <2>2. needs' \in [Pool -> SUBSET Mutexes]
    BY <1>22 DEF TakeHandler
  <2>3. UNCHANGED <<mainVars, step, brokerVars, held, throws, console, signalVars>>
    BY <1>22 DEF TakeHandler
  <2> QED
    BY <2>1, <2>2, <2>3 DEF mainVars, brokerVars, signalVars
<1>23. ASSUME NEW i \in Pool, HandlerPrints(i) PROVE TypeOK'
  BY <1>23 DEF HandlerPrints, Runs, CanPrint, brokerVars, mainVars, signalVars, Over
<1>24. ASSUME NEW i \in Pool, NEW m \in Mutexes, HandlerLocks(i, m) PROVE TypeOK'
  <2>1. held' \in [Mutexes -> Pool \cup {Nobody}] /\ needs' \in [Pool -> SUBSET Mutexes]
    BY <1>24 DEF HandlerLocks
  <2>2. UNCHANGED <<mainVars, step, brokerVars, pool, accept, throws, console, signalVars>>
    BY <1>24 DEF HandlerLocks
  <2> QED
    BY <2>1, <2>2 DEF mainVars, brokerVars, signalVars
<1>25. ASSUME NEW i \in Pool, HandlerReturns(i) PROVE TypeOK'
  <2>1. pool' \in [Pool -> PoolSteps] /\ accept' \in Pool \cup {NotAccepting, Armed}
    BY <1>25 DEF HandlerReturns
  <2>2. held' \in [Mutexes -> Pool \cup {Nobody}] /\ console' = Nobody
    BY <1>25 DEF HandlerReturns, Unlock
  <2>3. throws' \in 0 .. MaxThrows
    BY <1>25 DEF HandlerReturns
  <2>4. UNCHANGED <<mainVars, step, brokerVars, needs, signalVars>>
    BY <1>25 DEF HandlerReturns
  <2> QED
    BY <2>1, <2>2, <2>3, <2>4 DEF mainVars, brokerVars, signalVars
<1>26. ASSUME NEW i \in Pool, HandlerThrows(i) PROVE TypeOK'
  <2>1. pool' \in [Pool -> PoolSteps] /\ accept' \in Pool \cup {NotAccepting, Armed}
    BY <1>26 DEF HandlerThrows
  <2>2. held' \in [Mutexes -> Pool \cup {Nobody}] /\ console' = Nobody
    BY <1>26 DEF HandlerThrows, Unlock
  <2>3. throws' \in 0 .. MaxThrows
    BY <1>26 DEF HandlerThrows
  <2>4. UNCHANGED <<mainVars, step, brokerVars, needs, signalVars>>
    BY <1>26 DEF HandlerThrows
  <2> QED
    BY <2>1, <2>2, <2>3, <2>4 DEF mainVars, brokerVars, signalVars
<1>27. ASSUME NEW i \in Pool, RunReturns(i) PROVE TypeOK'
  BY <1>27 DEF RunReturns, Runs, brokerVars, mainVars, signalVars, Over
<1>28. ASSUME NEW f \in Frames, MessageHangs(f) PROVE TypeOK'
  BY <1>28 DEF MessageHangs, InFrame, brokerVars, mainVars, poolVars, signalVars,
  Active, Over
<1>29. CASE UNCHANGED vars
  BY <1>29 DEF vars, mainVars, brokerVars, poolVars, signalVars
<1> QED
  BY <1>1, <1>2, <1>3, <1>4, <1>5, <1>6, <1>7, <1>8, <1>9, <1>10, <1>11, <1>12,
  <1>13, <1>14, <1>15, <1>16, <1>17, <1>18, <1>19, <1>20, <1>21, <1>22, <1>23, <1>24,
  <1>25, <1>26, <1>27, <1>28, <1>29 DEF Next, MainStep, FrameStep, PoolStep

\* Only a thread that has ended stops being joinable.
LEMMA PoolPreserved ==
  ASSUME TypeOK, PoolInv, [Next]_vars
  PROVE  PoolInv'
<1> USE LifecycleAssumption DEF TypeOK, PoolInv, Pool, MainSteps, FrameSteps,
  PoolSteps
<1>1. CASE StartBroker
  BY <1>1 DEF StartBroker, At, poolVars, signalVars
<1>2. CASE AcceptConnections
  BY <1>2 DEF AcceptConnections, At, brokerVars, signalVars
<1>3. CASE SpawnThread
  BY <1>3 DEF SpawnThread, At, signalVars
<1>4. CASE AllSpawned
  BY <1>4 DEF AllSpawned, At, brokerVars, poolVars, signalVars
<1>5. CASE SpawnFails
  BY <1>5 DEF SpawnFails, At, StartThrows, brokerVars, poolVars, signalVars
<1>6. CASE NameEndpoint
  BY <1>6 DEF NameEndpoint, At, StartThrows, brokerVars, poolVars, signalVars
<1>7. CASE StartPrinting
  BY <1>7 DEF StartPrinting, At, CanPrint, brokerVars, poolVars, signalVars
<1>8. CASE EndPrinting
  BY <1>8 DEF EndPrinting, At, brokerVars, poolVars, signalVars
<1>9. CASE Enter
  BY <1>9 DEF Enter, At, brokerVars, poolVars, signalVars
<1>10. CASE StopReturns
  BY <1>10 DEF StopReturns, At, brokerVars, poolVars, signalVars
<1>11. CASE ForgetBroker
  BY <1>11 DEF ForgetBroker, At, brokerVars, poolVars, signalVars
<1>12. CASE DestroyBroker
  BY <1>12 DEF DestroyBroker, At, brokerVars, poolVars, signalVars
<1>13. CASE ReturnFailure
  BY <1>13 DEF ReturnFailure, At, brokerVars, poolVars, signalVars
<1>14. CASE Signal
  BY <1>14 DEF Signal, Over, brokerVars, mainVars, poolVars
<1>15. ASSUME NEW f \in Frames, SignalMessage(f) PROVE PoolInv'
  BY <1>15 DEF SignalMessage, InFrame, Leaves, CanPrint, ThreadOf, brokerVars,
  mainVars, poolVars, signalVars, Active, Over
<1>16. ASSUME NEW f \in Frames, CheckRunning(f) PROVE PoolInv'
  BY <1>16 DEF CheckRunning, InFrame, Leaves, brokerVars, poolVars, signalVars,
  Active, Over
<1>17. ASSUME NEW f \in Frames, ShutDown(f) PROVE PoolInv'
  BY <1>17 DEF ShutDown, InFrame, mainVars, poolVars, signalVars, Active, Over
<1>18. ASSUME NEW f \in Frames, JoinThread(f) PROVE PoolInv'
  BY <1>18 DEF JoinThread, InFrame, ThreadOf, mainVars, poolVars, signalVars, Active,
  Over
<1>19. ASSUME NEW f \in Frames, JoinThrows(f) PROVE PoolInv'
  <2>1. ASSUME pool' # pool
        PROVE  /\ f = "stray" /\ strayThread \in joinable
               /\ pool' = [pool EXCEPT ![strayThread] = "finished"]
    BY <1>19, <2>1, SelfJoin DEF JoinThrows
  <2>2. UNCHANGED <<created, joinable>>
    BY <1>19 DEF JoinThrows, brokerVars
  <2> QED
    BY <2>1, <2>2
<1>20. ASSUME NEW f \in Frames, AllJoined(f) PROVE PoolInv'
  BY <1>20 DEF AllJoined, InFrame, brokerVars, mainVars, poolVars, signalVars,
  Active, Over
<1>21. ASSUME NEW f \in Frames, ClearTables(f) PROVE PoolInv'
  BY <1>21 DEF ClearTables, InFrame, Leaves, mainVars, poolVars, signalVars, Active,
  Over
<1>22. ASSUME NEW i \in Pool, TakeHandler(i) PROVE PoolInv'
  BY <1>22 DEF TakeHandler, Runs, brokerVars, mainVars, signalVars, Over
<1>23. ASSUME NEW i \in Pool, HandlerPrints(i) PROVE PoolInv'
  BY <1>23 DEF HandlerPrints, Runs, CanPrint, brokerVars, mainVars, signalVars, Over
<1>24. ASSUME NEW i \in Pool, NEW m \in Mutexes, HandlerLocks(i, m) PROVE PoolInv'
  BY <1>24 DEF HandlerLocks, Runs, brokerVars, mainVars, signalVars, Over
<1>25. ASSUME NEW i \in Pool, HandlerReturns(i) PROVE PoolInv'
  BY <1>25 DEF HandlerReturns, Runs, brokerVars, mainVars, signalVars, Over
<1>26. ASSUME NEW i \in Pool, HandlerThrows(i) PROVE PoolInv'
  BY <1>26 DEF HandlerThrows, Runs, brokerVars, mainVars, signalVars, Over
<1>27. ASSUME NEW i \in Pool, RunReturns(i) PROVE PoolInv'
  BY <1>27 DEF RunReturns, Runs, brokerVars, mainVars, signalVars, Over
<1>28. ASSUME NEW f \in Frames, MessageHangs(f) PROVE PoolInv'
  BY <1>28 DEF MessageHangs, InFrame, brokerVars, mainVars, poolVars, signalVars,
  Active, Over
<1>29. CASE UNCHANGED vars
  BY <1>29 DEF vars, mainVars, brokerVars, poolVars, signalVars
<1> QED
  BY <1>1, <1>2, <1>3, <1>4, <1>5, <1>6, <1>7, <1>8, <1>9, <1>10, <1>11, <1>12,
  <1>13, <1>14, <1>15, <1>16, <1>17, <1>18, <1>19, <1>20, <1>21, <1>22, <1>23, <1>24,
  <1>25, <1>26, <1>27, <1>28, <1>29 DEF Next, MainStep, FrameStep, PoolStep

\* What is behind each step of a frame is kept.
LEMMA FramePreserved ==
  ASSUME TypeOK, PoolInv, FrameInv, MainInv, [Next]_vars
  PROVE  FrameInv'
<1> USE LifecycleAssumption DEF TypeOK, FrameInv, Frames, FrameSteps, MainThread,
  PoolInv, MainInv, Pool, MainSteps
<1>1. CASE StartBroker
  BY <1>1 DEF StartBroker, At, poolVars, signalVars
<1>2. CASE AcceptConnections
  BY <1>2 DEF AcceptConnections, At, brokerVars, signalVars
<1>3. CASE SpawnThread
  BY <1>3 DEF SpawnThread, At, signalVars
<1>4. CASE AllSpawned
  BY <1>4 DEF AllSpawned, At, brokerVars, poolVars, signalVars
<1>5. CASE SpawnFails
  BY <1>5 DEF SpawnFails, At, StartThrows, brokerVars, poolVars, signalVars
<1>6. CASE NameEndpoint
  BY <1>6 DEF NameEndpoint, At, StartThrows, brokerVars, poolVars, signalVars
<1>7. CASE StartPrinting
  BY <1>7 DEF StartPrinting, At, CanPrint, brokerVars, poolVars, signalVars
<1>8. CASE EndPrinting
  BY <1>8 DEF EndPrinting, At, brokerVars, poolVars, signalVars
<1>9. CASE Enter
  BY <1>9 DEF Enter, At, brokerVars, poolVars, signalVars
<1>10. CASE StopReturns
  BY <1>10 DEF StopReturns, At, brokerVars, poolVars, signalVars
<1>11. CASE ForgetBroker
  BY <1>11 DEF ForgetBroker, At, brokerVars, poolVars, signalVars
<1>12. CASE DestroyBroker
  BY <1>12 DEF DestroyBroker, At, brokerVars, poolVars, signalVars
<1>13. CASE ReturnFailure
  BY <1>13 DEF ReturnFailure, At, brokerVars, poolVars, signalVars
<1>14. CASE Signal
  BY <1>14 DEF Signal, Over, brokerVars, mainVars, poolVars
<1>15. ASSUME NEW f \in Frames, SignalMessage(f) PROVE FrameInv'
  BY <1>15 DEF SignalMessage, InFrame, Leaves, CanPrint, ThreadOf, brokerVars,
  mainVars, poolVars, signalVars, Active, Over
<1>16. ASSUME NEW f \in Frames, CheckRunning(f) PROVE FrameInv'
  BY <1>16 DEF CheckRunning, InFrame, Leaves, brokerVars, poolVars, signalVars,
  Active, Over
<1>17. ASSUME NEW f \in Frames, ShutDown(f) PROVE FrameInv'
  BY <1>17 DEF ShutDown, InFrame, mainVars, poolVars, signalVars, Active, Over
<1>18. ASSUME NEW f \in Frames, JoinThread(f) PROVE FrameInv'
  BY <1>18 DEF JoinThread, InFrame, ThreadOf, mainVars, poolVars, signalVars, Active,
  Over
<1>19. ASSUME NEW f \in Frames, JoinThrows(f) PROVE FrameInv'
  BY <1>19, SelfJoin DEF JoinThrows, InFrame, Active, ThreadOf, brokerVars,
  signalVars, Over
<1>20. ASSUME NEW f \in Frames, AllJoined(f) PROVE FrameInv'
  BY <1>20 DEF AllJoined, InFrame, brokerVars, mainVars, poolVars, signalVars,
  Active, Over
<1>21. ASSUME NEW f \in Frames, ClearTables(f) PROVE FrameInv'
  BY <1>21 DEF ClearTables, InFrame, Leaves, mainVars, poolVars, signalVars, Active,
  Over
<1>22. ASSUME NEW i \in Pool, TakeHandler(i) PROVE FrameInv'
  BY <1>22 DEF TakeHandler, Runs, brokerVars, mainVars, signalVars, Over
<1>23. ASSUME NEW i \in Pool, HandlerPrints(i) PROVE FrameInv'
  BY <1>23 DEF HandlerPrints, Runs, CanPrint, brokerVars, mainVars, signalVars, Over
<1>24. ASSUME NEW i \in Pool, NEW m \in Mutexes, HandlerLocks(i, m) PROVE FrameInv'
  BY <1>24 DEF HandlerLocks, Runs, brokerVars, mainVars, signalVars, Over
<1>25. ASSUME NEW i \in Pool, HandlerReturns(i) PROVE FrameInv'
  BY <1>25 DEF HandlerReturns, Runs, brokerVars, mainVars, signalVars, Over
<1>26. ASSUME NEW i \in Pool, HandlerThrows(i) PROVE FrameInv'
  BY <1>26 DEF HandlerThrows, Runs, brokerVars, mainVars, signalVars, Over
<1>27. ASSUME NEW i \in Pool, RunReturns(i) PROVE FrameInv'
  BY <1>27 DEF RunReturns, Runs, brokerVars, mainVars, signalVars, Over
<1>28. ASSUME NEW f \in Frames, MessageHangs(f) PROVE FrameInv'
  BY <1>28 DEF MessageHangs, InFrame, brokerVars, mainVars, poolVars, signalVars,
  Active, Over
<1>29. CASE UNCHANGED vars
  BY <1>29 DEF vars, mainVars, brokerVars, poolVars, signalVars
<1> QED
  BY <1>1, <1>2, <1>3, <1>4, <1>5, <1>6, <1>7, <1>8, <1>9, <1>10, <1>11, <1>12,
  <1>13, <1>14, <1>15, <1>16, <1>17, <1>18, <1>19, <1>20, <1>21, <1>22, <1>23, <1>24,
  <1>25, <1>26, <1>27, <1>28, <1>29 DEF Next, MainStep, FrameStep, PoolStep

\* What is behind each step of main() is kept.
LEMMA MainPreserved ==
  ASSUME TypeOK, PoolInv, FrameInv, MainInv, CalmInv, [Next]_vars
  PROVE  MainInv'
<1> USE LifecycleAssumption DEF TypeOK, FrameInv, MainInv, Frames
<1>1. CASE StartBroker
  BY <1>1 DEF StartBroker, At, poolVars, signalVars
<1>2. CASE AcceptConnections
  BY <1>2 DEF AcceptConnections, At, brokerVars, signalVars
<1>3. CASE SpawnThread
  BY <1>3 DEF SpawnThread, At, signalVars
<1>4. CASE AllSpawned
  BY <1>4 DEF AllSpawned, At, brokerVars, poolVars, signalVars
<1>5. CASE SpawnFails
  BY <1>5 DEF SpawnFails, At, StartThrows, brokerVars, poolVars, signalVars
<1>6. CASE NameEndpoint
  BY <1>6 DEF NameEndpoint, At, StartThrows, brokerVars, poolVars, signalVars
<1>7. CASE StartPrinting
  BY <1>7 DEF StartPrinting, At, CanPrint, brokerVars, poolVars, signalVars
<1>8. CASE EndPrinting
  BY <1>8 DEF EndPrinting, At, brokerVars, poolVars, signalVars
<1>9. CASE Enter
  BY <1>9 DEF Enter, At, brokerVars, poolVars, signalVars
<1>10. CASE StopReturns
  BY <1>10 DEF StopReturns, At, brokerVars, poolVars, signalVars
<1>11. CASE ForgetBroker
  BY <1>11 DEF ForgetBroker, At, brokerVars, poolVars, signalVars
<1>12. CASE DestroyBroker
  BY <1>12 DEF DestroyBroker, At, brokerVars, poolVars, signalVars
<1>13. CASE ReturnFailure
  BY <1>13 DEF ReturnFailure, At, brokerVars, poolVars, signalVars
<1>14. CASE Signal
  BY <1>14 DEF Signal, Over, Pool, brokerVars, mainVars, poolVars
<1>15. ASSUME NEW f \in Frames, SignalMessage(f) PROVE MainInv'
  BY <1>15 DEF SignalMessage, InFrame, Leaves, CanPrint, ThreadOf, brokerVars,
  mainVars, poolVars, signalVars, Active, Over
<1>16. ASSUME NEW f \in Frames, CheckRunning(f) PROVE MainInv'
  BY <1>16 DEF CheckRunning, InFrame, Leaves, brokerVars, poolVars, signalVars,
  Active, Over
<1>17. ASSUME NEW f \in Frames, ShutDown(f) PROVE MainInv'
  BY <1>17 DEF ShutDown, InFrame, mainVars, poolVars, signalVars, Active, Over
<1>18. ASSUME NEW f \in Frames, JoinThread(f) PROVE MainInv'
  BY <1>18 DEF JoinThread, InFrame, ThreadOf, mainVars, poolVars, signalVars, Active,
  Over
<1>19. ASSUME NEW f \in Frames, JoinThrows(f) PROVE MainInv'
  BY <1>19, SelfJoin DEF JoinThrows, InFrame, Active, ThreadOf, brokerVars,
  signalVars, Over
<1>20. ASSUME NEW f \in Frames, AllJoined(f) PROVE MainInv'
  BY <1>20 DEF AllJoined, InFrame, brokerVars, mainVars, poolVars, signalVars,
  Active, Over
<1>21. ASSUME NEW f \in Frames, ClearTables(f) PROVE MainInv'
  BY <1>21 DEF ClearTables, InFrame, Leaves, mainVars, poolVars, signalVars, Active,
  Over
<1>22. ASSUME NEW i \in Pool, TakeHandler(i) PROVE MainInv'
  BY <1>22 DEF TakeHandler, Runs, brokerVars, mainVars, signalVars, Over
<1>23. ASSUME NEW i \in Pool, HandlerPrints(i) PROVE MainInv'
  BY <1>23 DEF HandlerPrints, Runs, CanPrint, brokerVars, mainVars, signalVars, Over
<1>24. ASSUME NEW i \in Pool, NEW m \in Mutexes, HandlerLocks(i, m) PROVE MainInv'
  BY <1>24 DEF HandlerLocks, Runs, brokerVars, mainVars, signalVars, Over
<1>25. ASSUME NEW i \in Pool, HandlerReturns(i) PROVE MainInv'
  BY <1>25 DEF HandlerReturns, Runs, brokerVars, mainVars, signalVars, Over
<1>26. ASSUME NEW i \in Pool, HandlerThrows(i) PROVE MainInv'
  BY <1>26 DEF HandlerThrows, Runs, brokerVars, mainVars, signalVars, Over
<1>27. ASSUME NEW i \in Pool, RunReturns(i) PROVE MainInv'
  BY <1>27 DEF RunReturns, Runs, brokerVars, mainVars, signalVars, Over
<1>28. ASSUME NEW f \in Frames, MessageHangs(f) PROVE MainInv'
  BY <1>28 DEF MessageHangs, InFrame, brokerVars, mainVars, poolVars, signalVars,
  Active, Over
<1>29. CASE UNCHANGED vars
  BY <1>29 DEF vars, mainVars, brokerVars, poolVars, signalVars
<1> QED
  BY <1>1, <1>2, <1>3, <1>4, <1>5, <1>6, <1>7, <1>8, <1>9, <1>10, <1>11, <1>12,
  <1>13, <1>14, <1>15, <1>16, <1>17, <1>18, <1>19, <1>20, <1>21, <1>22, <1>23, <1>24,
  <1>25, <1>26, <1>27, <1>28, <1>29 DEF Next, MainStep, FrameStep, PoolStep

\* Once stop() is under way, it ends with the tables cleared or with a thread left over.
LEMMA StopPreserved ==
  ASSUME TypeOK, FrameInv, MainInv, StopInv, [Next]_vars
  PROVE  StopInv'
<1> USE LifecycleAssumption DEF TypeOK, FrameInv, MainInv, Frames, StopInv
<1>1. CASE StartBroker
  BY <1>1 DEF StartBroker, At, poolVars, signalVars
<1>2. CASE AcceptConnections
  BY <1>2 DEF AcceptConnections, At, brokerVars, signalVars
<1>3. CASE SpawnThread
  BY <1>3 DEF SpawnThread, At, signalVars
<1>4. CASE AllSpawned
  BY <1>4 DEF AllSpawned, At, brokerVars, poolVars, signalVars
<1>5. CASE SpawnFails
  BY <1>5 DEF SpawnFails, At, StartThrows, brokerVars, poolVars, signalVars
<1>6. CASE NameEndpoint
  BY <1>6 DEF NameEndpoint, At, StartThrows, brokerVars, poolVars, signalVars
<1>7. CASE StartPrinting
  BY <1>7 DEF StartPrinting, At, CanPrint, brokerVars, poolVars, signalVars
<1>8. CASE EndPrinting
  BY <1>8 DEF EndPrinting, At, brokerVars, poolVars, signalVars
<1>9. CASE Enter
  BY <1>9 DEF Enter, At, brokerVars, poolVars, signalVars
<1>10. CASE StopReturns
  BY <1>10 DEF StopReturns, At, brokerVars, poolVars, signalVars
<1>11. CASE ForgetBroker
  BY <1>11 DEF ForgetBroker, At, brokerVars, poolVars, signalVars
<1>12. CASE DestroyBroker
  BY <1>12 DEF DestroyBroker, At, brokerVars, poolVars, signalVars
<1>13. CASE ReturnFailure
  BY <1>13 DEF ReturnFailure, At, brokerVars, poolVars, signalVars
<1>14. CASE Signal
  BY <1>14 DEF Signal, Over, Pool, brokerVars, mainVars, poolVars
<1>15. ASSUME NEW f \in Frames, SignalMessage(f) PROVE StopInv'
  BY <1>15 DEF SignalMessage, InFrame, Leaves, CanPrint, ThreadOf, brokerVars,
  mainVars, poolVars, signalVars, Active, Over
<1>16. ASSUME NEW f \in Frames, CheckRunning(f) PROVE StopInv'
  BY <1>16 DEF CheckRunning, InFrame, Leaves, brokerVars, poolVars, signalVars,
  Active, Over
<1>17. ASSUME NEW f \in Frames, ShutDown(f) PROVE StopInv'
  BY <1>17 DEF ShutDown, InFrame, mainVars, poolVars, signalVars, Active, Over
<1>18. ASSUME NEW f \in Frames, JoinThread(f) PROVE StopInv'
  BY <1>18 DEF JoinThread, InFrame, ThreadOf, mainVars, poolVars, signalVars, Active,
  Over
<1>19. ASSUME NEW f \in Frames, JoinThrows(f) PROVE StopInv'
  BY <1>19, SelfJoin DEF JoinThrows, InFrame, Active, ThreadOf, brokerVars,
  signalVars, Over
<1>20. ASSUME NEW f \in Frames, AllJoined(f) PROVE StopInv'
  BY <1>20 DEF AllJoined, InFrame, brokerVars, mainVars, poolVars, signalVars,
  Active, Over
<1>21. ASSUME NEW f \in Frames, ClearTables(f) PROVE StopInv'
  BY <1>21 DEF ClearTables, InFrame, Leaves, mainVars, poolVars, signalVars, Active,
  Over
<1>22. ASSUME NEW i \in Pool, TakeHandler(i) PROVE StopInv'
  BY <1>22 DEF TakeHandler, Runs, brokerVars, mainVars, signalVars, Over
<1>23. ASSUME NEW i \in Pool, HandlerPrints(i) PROVE StopInv'
  BY <1>23 DEF HandlerPrints, Runs, CanPrint, brokerVars, mainVars, signalVars, Over
<1>24. ASSUME NEW i \in Pool, NEW m \in Mutexes, HandlerLocks(i, m) PROVE StopInv'
  BY <1>24 DEF HandlerLocks, Runs, brokerVars, mainVars, signalVars, Over
<1>25. ASSUME NEW i \in Pool, HandlerReturns(i) PROVE StopInv'
  BY <1>25 DEF HandlerReturns, Runs, brokerVars, mainVars, signalVars, Over
<1>26. ASSUME NEW i \in Pool, HandlerThrows(i) PROVE StopInv'
  BY <1>26 DEF HandlerThrows, Runs, brokerVars, mainVars, signalVars, Over
<1>27. ASSUME NEW i \in Pool, RunReturns(i) PROVE StopInv'
  BY <1>27 DEF RunReturns, Runs, brokerVars, mainVars, signalVars, Over
<1>28. ASSUME NEW f \in Frames, MessageHangs(f) PROVE StopInv'
  BY <1>28 DEF MessageHangs, InFrame, brokerVars, mainVars, poolVars, signalVars,
  Active, Over
<1>29. CASE UNCHANGED vars
  BY <1>29 DEF vars, mainVars, brokerVars, poolVars, signalVars
<1> QED
  BY <1>1, <1>2, <1>3, <1>4, <1>5, <1>6, <1>7, <1>8, <1>9, <1>10, <1>11, <1>12,
  <1>13, <1>14, <1>15, <1>16, <1>17, <1>18, <1>19, <1>20, <1>21, <1>22, <1>23, <1>24,
  <1>25, <1>26, <1>27, <1>28, <1>29 DEF Next, MainStep, FrameStep, PoolStep

\* Without a signal at a bad time nothing is left over.
LEMMA CalmPreserved ==
  ASSUME TypeOK, PoolInv, FrameInv, MainInv, CalmInv, [Next]_vars
  PROVE  CalmInv'
<1> USE LifecycleAssumption DEF TypeOK, FrameInv, MainInv, Frames, CalmInv, Calm,
  Pool, Nobody, MainThread
<1>1. CASE StartBroker
  BY <1>1 DEF StartBroker, At, poolVars, signalVars
<1>2. CASE AcceptConnections
  BY <1>2 DEF AcceptConnections, At, brokerVars, signalVars
<1>3. CASE SpawnThread
  BY <1>3 DEF SpawnThread, At, signalVars
<1>4. CASE AllSpawned
  BY <1>4 DEF AllSpawned, At, brokerVars, poolVars, signalVars
<1>5. CASE SpawnFails
  BY <1>5 DEF SpawnFails, At, StartThrows, brokerVars, poolVars, signalVars
<1>6. CASE NameEndpoint
  BY <1>6 DEF NameEndpoint, At, StartThrows, brokerVars, poolVars, signalVars
<1>7. CASE StartPrinting
  BY <1>7 DEF StartPrinting, At, CanPrint, brokerVars, poolVars, signalVars
<1>8. CASE EndPrinting
  BY <1>8 DEF EndPrinting, At, brokerVars, poolVars, signalVars
<1>9. CASE Enter
  BY <1>9 DEF Enter, At, brokerVars, poolVars, signalVars
<1>10. CASE StopReturns
  BY <1>10 DEF StopReturns, At, brokerVars, poolVars, signalVars
<1>11. CASE ForgetBroker
  BY <1>11 DEF ForgetBroker, At, brokerVars, poolVars, signalVars
<1>12. CASE DestroyBroker
  BY <1>12 DEF DestroyBroker, At, brokerVars, poolVars, signalVars
<1>13. CASE ReturnFailure
  BY <1>13 DEF ReturnFailure, At, brokerVars, poolVars, signalVars
<1>14. CASE Signal
  <2>1. UNCHANGED <<main, running, joinable>>
    BY <1>14 DEF Signal, mainVars, brokerVars
  <2>2. CASE step["handler"] = "out" /\ step' = [step EXCEPT !["handler"] = "print"]
    <3>1. ASSUME Calm' PROVE Calm /\ main \notin {"arming", "spawning", "naming", "caught"}
      BY <1>14, <2>2, <3>1 DEF Signal
    <3>2. step'["program"] = step["program"] /\ step["handler"] # "join"
      BY <2>2
    <3> QED
      BY <2>1, <3>1, <3>2
  <2>3. CASE strayThread' \in Pool
    BY <2>3, LifecycleAssumption
  <2> QED
    BY <1>14, <2>2, <2>3 DEF Signal
<1>15. ASSUME NEW f \in Frames, SignalMessage(f) PROVE CalmInv'
  BY <1>15 DEF SignalMessage, InFrame, Leaves, CanPrint, ThreadOf, brokerVars,
  mainVars, poolVars, signalVars, Active, Over
<1>16. ASSUME NEW f \in Frames, CheckRunning(f) PROVE CalmInv'
  BY <1>16 DEF CheckRunning, InFrame, Leaves, brokerVars, poolVars, signalVars,
  Active, Over
<1>17. ASSUME NEW f \in Frames, ShutDown(f) PROVE CalmInv'
  BY <1>17 DEF ShutDown, InFrame, mainVars, poolVars, signalVars, Active, Over
<1>18. ASSUME NEW f \in Frames, JoinThread(f) PROVE CalmInv'
  BY <1>18 DEF JoinThread, InFrame, ThreadOf, mainVars, poolVars, signalVars, Active,
  Over
<1>19. ASSUME NEW f \in Frames, JoinThrows(f) PROVE CalmInv'
  BY <1>19, SelfJoin DEF JoinThrows, InFrame, Active, ThreadOf, brokerVars,
  signalVars, Over
<1>20. ASSUME NEW f \in Frames, AllJoined(f) PROVE CalmInv'
  BY <1>20 DEF AllJoined, InFrame, brokerVars, mainVars, poolVars, signalVars,
  Active, Over
<1>21. ASSUME NEW f \in Frames, ClearTables(f) PROVE CalmInv'
  BY <1>21 DEF ClearTables, InFrame, Leaves, mainVars, poolVars, signalVars, Active,
  Over
<1>22. ASSUME NEW i \in Pool, TakeHandler(i) PROVE CalmInv'
  BY <1>22 DEF TakeHandler, Runs, brokerVars, mainVars, signalVars, Over
<1>23. ASSUME NEW i \in Pool, HandlerPrints(i) PROVE CalmInv'
  BY <1>23 DEF HandlerPrints, Runs, CanPrint, brokerVars, mainVars, signalVars, Over
<1>24. ASSUME NEW i \in Pool, NEW m \in Mutexes, HandlerLocks(i, m) PROVE CalmInv'
  BY <1>24 DEF HandlerLocks, Runs, brokerVars, mainVars, signalVars, Over
<1>25. ASSUME NEW i \in Pool, HandlerReturns(i) PROVE CalmInv'
  BY <1>25 DEF HandlerReturns, Runs, brokerVars, mainVars, signalVars, Over
<1>26. ASSUME NEW i \in Pool, HandlerThrows(i) PROVE CalmInv'
  BY <1>26 DEF HandlerThrows, Runs, brokerVars, mainVars, signalVars, Over
<1>27. ASSUME NEW i \in Pool, RunReturns(i) PROVE CalmInv'
  BY <1>27 DEF RunReturns, Runs, brokerVars, mainVars, signalVars, Over
<1>28. ASSUME NEW f \in Frames, MessageHangs(f) PROVE CalmInv'
  BY <1>28 DEF MessageHangs, InFrame, brokerVars, mainVars, poolVars, signalVars,
  Active, Over
<1>29. CASE UNCHANGED vars
  BY <1>29 DEF vars, mainVars, brokerVars, poolVars, signalVars
<1> QED
  BY <1>1, <1>2, <1>3, <1>4, <1>5, <1>6, <1>7, <1>8, <1>9, <1>10, <1>11, <1>12,
  <1>13, <1>14, <1>15, <1>16, <1>17, <1>18, <1>19, <1>20, <1>21, <1>22, <1>23, <1>24,
  <1>25, <1>26, <1>27, <1>28, <1>29 DEF Next, MainStep, FrameStep, PoolStep

\* An accept that comes back is renewed while the broker runs.
LEMMA AcceptPreserved ==
  ASSUME TypeOK, PoolInv, FrameInv, MainInv, AcceptInv, [Next]_vars
  PROVE  AcceptInv'
<1> USE LifecycleAssumption DEF TypeOK, FrameInv, MainInv, Frames, PoolInv,
  AcceptInv, Pool, NotAccepting, Armed
<1>1. CASE StartBroker
  BY <1>1 DEF StartBroker, At, poolVars, signalVars
<1>2. CASE AcceptConnections
  BY <1>2 DEF AcceptConnections, At, brokerVars, signalVars
<1>3. CASE SpawnThread
  BY <1>3 DEF SpawnThread, At, signalVars
<1>4. CASE AllSpawned
  BY <1>4 DEF AllSpawned, At, brokerVars, poolVars, signalVars
<1>5. CASE SpawnFails
  BY <1>5 DEF SpawnFails, At, StartThrows, brokerVars, poolVars, signalVars
<1>6. CASE NameEndpoint
  BY <1>6 DEF NameEndpoint, At, StartThrows, brokerVars, poolVars, signalVars
<1>7. CASE StartPrinting
  BY <1>7 DEF StartPrinting, At, CanPrint, brokerVars, poolVars, signalVars
<1>8. CASE EndPrinting
  BY <1>8 DEF EndPrinting, At, brokerVars, poolVars, signalVars
<1>9. CASE Enter
  BY <1>9 DEF Enter, At, brokerVars, poolVars, signalVars
<1>10. CASE StopReturns
  BY <1>10 DEF StopReturns, At, brokerVars, poolVars, signalVars
<1>11. CASE ForgetBroker
  BY <1>11 DEF ForgetBroker, At, brokerVars, poolVars, signalVars
<1>12. CASE DestroyBroker
  BY <1>12 DEF DestroyBroker, At, brokerVars, poolVars, signalVars
<1>13. CASE ReturnFailure
  BY <1>13 DEF ReturnFailure, At, brokerVars, poolVars, signalVars
<1>14. CASE Signal
  BY <1>14 DEF Signal, Over, brokerVars, mainVars, poolVars
<1>15. ASSUME NEW f \in Frames, SignalMessage(f) PROVE AcceptInv'
  BY <1>15 DEF SignalMessage, InFrame, Leaves, CanPrint, ThreadOf, brokerVars,
  mainVars, poolVars, signalVars, Active, Over
<1>16. ASSUME NEW f \in Frames, CheckRunning(f) PROVE AcceptInv'
  BY <1>16 DEF CheckRunning, InFrame, Leaves, brokerVars, poolVars, signalVars,
  Active, Over
<1>17. ASSUME NEW f \in Frames, ShutDown(f) PROVE AcceptInv'
  BY <1>17 DEF ShutDown, InFrame, mainVars, poolVars, signalVars, Active, Over
<1>18. ASSUME NEW f \in Frames, JoinThread(f) PROVE AcceptInv'
  BY <1>18 DEF JoinThread, InFrame, ThreadOf, mainVars, poolVars, signalVars, Active,
  Over
<1>19. ASSUME NEW f \in Frames, JoinThrows(f) PROVE AcceptInv'
  BY <1>19, SelfJoin DEF JoinThrows, InFrame, Active, ThreadOf, brokerVars,
  signalVars, Over
<1>20. ASSUME NEW f \in Frames, AllJoined(f) PROVE AcceptInv'
  BY <1>20 DEF AllJoined, InFrame, brokerVars, mainVars, poolVars, signalVars,
  Active, Over
<1>21. ASSUME NEW f \in Frames, ClearTables(f) PROVE AcceptInv'
  BY <1>21 DEF ClearTables, InFrame, Leaves, mainVars, poolVars, signalVars, Active,
  Over
<1>22. ASSUME NEW i \in Pool, TakeHandler(i) PROVE AcceptInv'
  BY <1>22 DEF TakeHandler, Runs, brokerVars, mainVars, signalVars, Over
<1>23. ASSUME NEW i \in Pool, HandlerPrints(i) PROVE AcceptInv'
  BY <1>23 DEF HandlerPrints, Runs, CanPrint, brokerVars, mainVars, signalVars, Over
<1>24. ASSUME NEW i \in Pool, NEW m \in Mutexes, HandlerLocks(i, m) PROVE AcceptInv'
  BY <1>24 DEF HandlerLocks, Runs, brokerVars, mainVars, signalVars, Over
<1>25. ASSUME NEW i \in Pool, HandlerReturns(i) PROVE AcceptInv'
  BY <1>25 DEF HandlerReturns, Runs, brokerVars, mainVars, signalVars, Over
<1>26. ASSUME NEW i \in Pool, HandlerThrows(i) PROVE AcceptInv'
  BY <1>26 DEF HandlerThrows, Runs, brokerVars, mainVars, signalVars, Over
<1>27. ASSUME NEW i \in Pool, RunReturns(i) PROVE AcceptInv'
  BY <1>27 DEF RunReturns, Runs, brokerVars, mainVars, signalVars, Over
<1>28. ASSUME NEW f \in Frames, MessageHangs(f) PROVE AcceptInv'
  BY <1>28 DEF MessageHangs, InFrame, brokerVars, mainVars, poolVars, signalVars,
  Active, Over
<1>29. CASE UNCHANGED vars
  BY <1>29 DEF vars, mainVars, brokerVars, poolVars, signalVars
<1> QED
  BY <1>1, <1>2, <1>3, <1>4, <1>5, <1>6, <1>7, <1>8, <1>9, <1>10, <1>11, <1>12,
  <1>13, <1>14, <1>15, <1>16, <1>17, <1>18, <1>19, <1>20, <1>21, <1>22, <1>23, <1>24,
  <1>25, <1>26, <1>27, <1>28, <1>29 DEF Next, MainStep, FrameStep, PoolStep

\* What makes the process terminate needs a signal at a bad time.
LEMMA CrashPreserved ==
  ASSUME TypeOK, FrameInv, MainInv, CalmInv, CrashOnlyBySignal, [Next]_vars
  PROVE  CrashOnlyBySignal'
<1> USE LifecycleAssumption DEF TypeOK, FrameInv, MainInv, Frames, CalmInv, Calm,
  CrashOnlyBySignal, Pool, Nobody, MainThread
<1>1. CASE StartBroker
  BY <1>1 DEF StartBroker, At, poolVars, signalVars
<1>2. CASE AcceptConnections
  BY <1>2 DEF AcceptConnections, At, brokerVars, signalVars
<1>3. CASE SpawnThread
  BY <1>3 DEF SpawnThread, At, signalVars
<1>4. CASE AllSpawned
  BY <1>4 DEF AllSpawned, At, brokerVars, poolVars, signalVars
<1>5. CASE SpawnFails
  BY <1>5 DEF SpawnFails, At, StartThrows, brokerVars, poolVars, signalVars
<1>6. CASE NameEndpoint
  BY <1>6 DEF NameEndpoint, At, StartThrows, brokerVars, poolVars, signalVars
<1>7. CASE StartPrinting
  BY <1>7 DEF StartPrinting, At, CanPrint, brokerVars, poolVars, signalVars
<1>8. CASE EndPrinting
  BY <1>8 DEF EndPrinting, At, brokerVars, poolVars, signalVars
<1>9. CASE Enter
  BY <1>9 DEF Enter, At, brokerVars, poolVars, signalVars
<1>10. CASE StopReturns
  BY <1>10 DEF StopReturns, At, brokerVars, poolVars, signalVars
<1>11. CASE ForgetBroker
  BY <1>11 DEF ForgetBroker, At, brokerVars, poolVars, signalVars
<1>12. CASE DestroyBroker
  BY <1>12 DEF DestroyBroker, At, brokerVars, poolVars, signalVars
<1>13. CASE ReturnFailure
  BY <1>13 DEF ReturnFailure, At, brokerVars, poolVars, signalVars
<1>14. CASE Signal
  BY <1>14 DEF Signal, Over, brokerVars, mainVars, poolVars
<1>15. ASSUME NEW f \in Frames, SignalMessage(f) PROVE CrashOnlyBySignal'
  BY <1>15 DEF SignalMessage, InFrame, Leaves, CanPrint, ThreadOf, brokerVars,
  mainVars, poolVars, signalVars, Active, Over
<1>16. ASSUME NEW f \in Frames, CheckRunning(f) PROVE CrashOnlyBySignal'
  BY <1>16 DEF CheckRunning, InFrame, Leaves, brokerVars, poolVars, signalVars,
  Active, Over
<1>17. ASSUME NEW f \in Frames, ShutDown(f) PROVE CrashOnlyBySignal'
  BY <1>17 DEF ShutDown, InFrame, mainVars, poolVars, signalVars, Active, Over
<1>18. ASSUME NEW f \in Frames, JoinThread(f) PROVE CrashOnlyBySignal'
  BY <1>18 DEF JoinThread, InFrame, ThreadOf, mainVars, poolVars, signalVars, Active,
  Over
<1>19. ASSUME NEW f \in Frames, JoinThrows(f) PROVE CrashOnlyBySignal'
  BY <1>19, SelfJoin DEF JoinThrows, InFrame, Active, ThreadOf, brokerVars,
  signalVars, Over
<1>20. ASSUME NEW f \in Frames, AllJoined(f) PROVE CrashOnlyBySignal'
  BY <1>20 DEF AllJoined, InFrame, brokerVars, mainVars, poolVars, signalVars,
  Active, Over
<1>21. ASSUME NEW f \in Frames, ClearTables(f) PROVE CrashOnlyBySignal'
  BY <1>21 DEF ClearTables, InFrame, Leaves, mainVars, poolVars, signalVars, Active,
  Over
<1>22. ASSUME NEW i \in Pool, TakeHandler(i) PROVE CrashOnlyBySignal'
  BY <1>22 DEF TakeHandler, Runs, brokerVars, mainVars, signalVars, Over
<1>23. ASSUME NEW i \in Pool, HandlerPrints(i) PROVE CrashOnlyBySignal'
  BY <1>23 DEF HandlerPrints, Runs, CanPrint, brokerVars, mainVars, signalVars, Over
<1>24. ASSUME NEW i \in Pool, NEW m \in Mutexes, HandlerLocks(i, m) PROVE CrashOnlyBySignal'
  BY <1>24 DEF HandlerLocks, Runs, brokerVars, mainVars, signalVars, Over
<1>25. ASSUME NEW i \in Pool, HandlerReturns(i) PROVE CrashOnlyBySignal'
  BY <1>25 DEF HandlerReturns, Runs, brokerVars, mainVars, signalVars, Over
<1>26. ASSUME NEW i \in Pool, HandlerThrows(i) PROVE CrashOnlyBySignal'
  BY <1>26 DEF HandlerThrows, Runs, brokerVars, mainVars, signalVars, Over
<1>27. ASSUME NEW i \in Pool, RunReturns(i) PROVE CrashOnlyBySignal'
  BY <1>27 DEF RunReturns, Runs, brokerVars, mainVars, signalVars, Over
<1>28. ASSUME NEW f \in Frames, MessageHangs(f) PROVE CrashOnlyBySignal'
  BY <1>28 DEF MessageHangs, InFrame, brokerVars, mainVars, poolVars, signalVars,
  Active, Over
<1>29. CASE UNCHANGED vars
  BY <1>29 DEF vars, mainVars, brokerVars, poolVars, signalVars
<1> QED
  BY <1>1, <1>2, <1>3, <1>4, <1>5, <1>6, <1>7, <1>8, <1>9, <1>10, <1>11, <1>12,
  <1>13, <1>14, <1>15, <1>16, <1>17, <1>18, <1>19, <1>20, <1>21, <1>22, <1>23, <1>24,
  <1>25, <1>26, <1>27, <1>28, <1>29 DEF Next, MainStep, FrameStep, PoolStep

\* main() gets to its end only past a complete stop().
LEMMA ExitPreserved ==
  ASSUME TypeOK, PoolInv, FrameInv, MainInv, StopInv, CleanExit, [Next]_vars
  PROVE  CleanExit'
<1> USE LifecycleAssumption DEF TypeOK, FrameInv, MainInv, Frames, PoolInv, StopInv,
  CleanExit, Pool
<1>1. CASE StartBroker
  BY <1>1 DEF StartBroker, At, poolVars, signalVars
<1>2. CASE AcceptConnections
  BY <1>2 DEF AcceptConnections, At, brokerVars, signalVars
<1>3. CASE SpawnThread
  BY <1>3 DEF SpawnThread, At, signalVars
<1>4. CASE AllSpawned
  BY <1>4 DEF AllSpawned, At, brokerVars, poolVars, signalVars
<1>5. CASE SpawnFails
  BY <1>5 DEF SpawnFails, At, StartThrows, brokerVars, poolVars, signalVars
<1>6. CASE NameEndpoint
  BY <1>6 DEF NameEndpoint, At, StartThrows, brokerVars, poolVars, signalVars
<1>7. CASE StartPrinting
  BY <1>7 DEF StartPrinting, At, CanPrint, brokerVars, poolVars, signalVars
<1>8. CASE EndPrinting
  BY <1>8 DEF EndPrinting, At, brokerVars, poolVars, signalVars
<1>9. CASE Enter
  BY <1>9 DEF Enter, At, brokerVars, poolVars, signalVars
<1>10. CASE StopReturns
  BY <1>10 DEF StopReturns, At, brokerVars, poolVars, signalVars
<1>11. CASE ForgetBroker
  BY <1>11 DEF ForgetBroker, At, brokerVars, poolVars, signalVars
<1>12. CASE DestroyBroker
  BY <1>12 DEF DestroyBroker, At, brokerVars, poolVars, signalVars
<1>13. CASE ReturnFailure
  BY <1>13 DEF ReturnFailure, At, brokerVars, poolVars, signalVars
<1>14. CASE Signal
  BY <1>14 DEF Signal, Over, brokerVars, mainVars, poolVars
<1>15. ASSUME NEW f \in Frames, SignalMessage(f) PROVE CleanExit'
  BY <1>15 DEF SignalMessage, InFrame, Leaves, CanPrint, ThreadOf, brokerVars,
  mainVars, poolVars, signalVars, Active, Over
<1>16. ASSUME NEW f \in Frames, CheckRunning(f) PROVE CleanExit'
  BY <1>16 DEF CheckRunning, InFrame, Leaves, brokerVars, poolVars, signalVars,
  Active, Over
<1>17. ASSUME NEW f \in Frames, ShutDown(f) PROVE CleanExit'
  BY <1>17 DEF ShutDown, InFrame, mainVars, poolVars, signalVars, Active, Over
<1>18. ASSUME NEW f \in Frames, JoinThread(f) PROVE CleanExit'
  BY <1>18 DEF JoinThread, InFrame, ThreadOf, mainVars, poolVars, signalVars, Active,
  Over
<1>19. ASSUME NEW f \in Frames, JoinThrows(f) PROVE CleanExit'
  BY <1>19, SelfJoin DEF JoinThrows, InFrame, Active, ThreadOf, brokerVars,
  signalVars, Over
<1>20. ASSUME NEW f \in Frames, AllJoined(f) PROVE CleanExit'
  BY <1>20 DEF AllJoined, InFrame, brokerVars, mainVars, poolVars, signalVars,
  Active, Over
<1>21. ASSUME NEW f \in Frames, ClearTables(f) PROVE CleanExit'
  BY <1>21 DEF ClearTables, InFrame, Leaves, mainVars, poolVars, signalVars, Active,
  Over
<1>22. ASSUME NEW i \in Pool, TakeHandler(i) PROVE CleanExit'
  BY <1>22 DEF TakeHandler, Runs, brokerVars, mainVars, signalVars, Over
<1>23. ASSUME NEW i \in Pool, HandlerPrints(i) PROVE CleanExit'
  BY <1>23 DEF HandlerPrints, Runs, CanPrint, brokerVars, mainVars, signalVars, Over
<1>24. ASSUME NEW i \in Pool, NEW m \in Mutexes, HandlerLocks(i, m) PROVE CleanExit'
  BY <1>24 DEF HandlerLocks, Runs, brokerVars, mainVars, signalVars, Over
<1>25. ASSUME NEW i \in Pool, HandlerReturns(i) PROVE CleanExit'
  BY <1>25 DEF HandlerReturns, Runs, brokerVars, mainVars, signalVars, Over
<1>26. ASSUME NEW i \in Pool, HandlerThrows(i) PROVE CleanExit'
  BY <1>26 DEF HandlerThrows, Runs, brokerVars, mainVars, signalVars, Over
<1>27. ASSUME NEW i \in Pool, RunReturns(i) PROVE CleanExit'
  BY <1>27 DEF RunReturns, Runs, brokerVars, mainVars, signalVars, Over
<1>28. ASSUME NEW f \in Frames, MessageHangs(f) PROVE CleanExit'
  BY <1>28 DEF MessageHangs, InFrame, brokerVars, mainVars, poolVars, signalVars,
  Active, Over
<1>29. CASE UNCHANGED vars
  BY <1>29 DEF vars, mainVars, brokerVars, poolVars, signalVars
<1> QED
  BY <1>1, <1>2, <1>3, <1>4, <1>5, <1>6, <1>7, <1>8, <1>9, <1>10, <1>11, <1>12,
  <1>13, <1>14, <1>15, <1>16, <1>17, <1>18, <1>19, <1>20, <1>21, <1>22, <1>23, <1>24,
  <1>25, <1>26, <1>27, <1>28, <1>29 DEF Next, MainStep, FrameStep, PoolStep

-----------------------------------------------------------------------------
LEMMA InitLife == Init => LifeInv
<1> SUFFICES ASSUME Init PROVE LifeInv
  OBVIOUS
<1> USE LifecycleAssumption DEF Init
<1>1. TypeOK
  <2>1. step \in [Frames -> FrameSteps] /\ pool \in [Pool -> PoolSteps]
    BY DEF FrameSteps, PoolSteps
  <2>5. held \in [Mutexes -> Pool \cup {Nobody}] /\ needs \in [Pool -> SUBSET Mutexes]
    OBVIOUS
  <2>2. created \in 0 .. PoolSize /\ joinable \subseteq 1 .. created
    OBVIOUS
  <2>3. signals \in 0 .. MaxSignals /\ throws \in 0 .. MaxThrows
    OBVIOUS
  <2>4. main \in MainSteps /\ code \in {0, 1}
    BY DEF MainSteps
  <2> QED
    BY <2>1, <2>2, <2>3, <2>4, <2>5 DEF TypeOK
<1>2. PoolInv /\ FrameInv /\ MainInv
  BY DEF PoolInv, FrameInv, MainInv, Pool, Frames
<1>3. StopInv /\ CalmInv /\ AcceptInv /\ CrashOnlyBySignal /\ CleanExit
  BY DEF StopInv, CalmInv, AcceptInv, CrashOnlyBySignal, CleanExit
<1> QED
  BY <1>1, <1>2, <1>3 DEF LifeInv

LEMMA NextLife ==
  ASSUME LifeInv, [Next]_vars
  PROVE  LifeInv'
BY TypePreserved, PoolPreserved, FramePreserved, MainPreserved, StopPreserved,
   CalmPreserved, AcceptPreserved, CrashPreserved, ExitPreserved DEF LifeInv

\* The invariant that the theorems below rest on: what main(), each frame of stop() and
\* each thread of the pool have behind them at every step.
THEOREM LifecycleInvariance == Spec => []LifeInv
BY InitLife, NextLife, PTL DEF Spec

\* Every variable keeps its type, whatever the size of the pool.
THEOREM LifecycleTypeCorrect == Spec => []TypeOK
<1>1. LifeInv => TypeOK
  BY DEF LifeInv
<1> QED
  BY <1>1, LifecycleInvariance, PTL

\* std::terminate takes a signal during start(), in the catch of main(), or on a thread
\* of the pool: the joins of stop() and the end of ~Broker never cause it otherwise.
THEOREM TerminateNeedsSignal == Spec => []CrashOnlyBySignal
<1>1. LifeInv => CrashOnlyBySignal
  BY DEF LifeInv
<1> QED
  BY <1>1, LifecycleInvariance, PTL

\* main() returns 0 only after some frame of stop() has joined every thread and cleared
\* the tables, whichever frames of stop() ran over one another.
THEOREM ExitIsClean == Spec => []CleanExit
<1>1. LifeInv => CleanExit
  BY DEF LifeInv
<1> QED
  BY <1>1, LifecycleInvariance, PTL

\* async_accept is pending, or in its handler, for as long as the broker runs.
THEOREM AcceptIsRenewed == Spec => []KeepsAccepting
<1>1. LifeInv => KeepsAccepting
  BY DEF LifeInv, AcceptInv, KeepsAccepting
<1> QED
  BY <1>1, LifecycleInvariance, PTL

\* One step that clears the tables: no thread is in a handler.
HandlersDone == \A i \in Pool : pool[i] \in {"none", "idle", "finished"}

LEMMA OnlyClearTablesClears ==
  ASSUME LifeInv, [Next]_vars, cleared' # cleared
  PROVE  HandlersDone
<1>1. PICK f \in Frames : ClearTables(f)
  <2>1. ASSUME MainStep \/ SpawnFails \/ Enter \/ Signal PROVE FALSE
    BY <2>1 DEF MainStep, Enter, Signal, StartBroker, AcceptConnections, SpawnThread,
    AllSpawned, SpawnFails, StartThrows, NameEndpoint, StartPrinting, EndPrinting,
    StopReturns, ForgetBroker, DestroyBroker, ReturnFailure, brokerVars
  <2>2. ASSUME NEW i \in Pool, PoolStep(i) \/ TakeHandler(i) \/ HandlerThrows(i) PROVE FALSE
    BY <2>2 DEF PoolStep, TakeHandler, HandlerLocks, HandlerPrints, HandlerReturns,
    HandlerThrows, RunReturns, brokerVars
  <2>3. ASSUME NEW f \in Frames, FrameStep(f) \/ MessageHangs(f)
        PROVE  ClearTables(f)
    BY <2>3 DEF FrameStep, MessageHangs, SignalMessage, CheckRunning, ShutDown, JoinThread, JoinThrows,
    AllJoined, brokerVars
  <2>4. ~UNCHANGED vars
    BY DEF vars, brokerVars
  <2> QED
    BY <2>1, <2>2, <2>3, <2>4 DEF Next
<1>2. joinable = {}
  BY <1>1 DEF ClearTables, InFrame, LifeInv, FrameInv
<1>3. ASSUME NEW i \in Pool PROVE pool[i] \in {"none", "finished"}
  BY <1>2, <1>3, LifecycleAssumption DEF LifeInv, PoolInv, TypeOK, Pool
<1> QED
  BY <1>3 DEF HandlersDone

\* stop() clears the registry and the topic table only when every thread of the pool has
\* left its handler, so that the tables are not cleared under a handler's feet.
THEOREM TablesOutliveHandlers == Spec => ClearedAfterHandlers
<1>1. LifeInv /\ [Next]_vars => [cleared' # cleared => HandlersDone]_vars
  BY OnlyClearTablesClears
<1>2. Spec => [][cleared' # cleared => HandlersDone]_vars
  BY <1>1, LifecycleInvariance, PTL DEF Spec
<1> QED
  BY <1>2 DEF ClearedAfterHandlers, HandlersDone
=============================================================================
