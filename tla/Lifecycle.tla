----------------------------- MODULE Lifecycle -----------------------------
(***************************************************************************)
(* The life of the broker's process: main() (src/src/main.cpp), start()    *)
(* and stop() (src/src/broker.cpp), the pool of threads, and the signal    *)
(* handler, which calls stop() on top of whatever the thread that takes    *)
(* the signal was doing.                                                   *)
(*                                                                         *)
(* A signal goes to the main thread, or, while that one is in the handler  *)
(* and has the signal blocked, to a thread of the pool.  stop() can so be  *)
(* under way in three frames: called by main() itself ("program"), by the  *)
(* handler on the main thread ("handler"), which suspends main(), and by   *)
(* the handler on a thread of the pool ("stray"), which suspends that      *)
(* thread.  Messages go to std::cout, whose lock a thread keeps when a     *)
(* signal interrupts it, and may take again.  It keeps the mutexes of the  *)
(* broker's tables too, and other threads wait for them.                   *)
(***************************************************************************)
EXTENDS Naturals, FiniteSets

CONSTANTS
  PoolSize,    \* thread_pool_size_
  MaxSignals,  \* bound: signals sent
  MaxThrows    \* bound: handlers that end in an exception

ASSUME LifecycleAssumption ==
  PoolSize \in Nat /\ MaxSignals \in Nat /\ MaxThrows \in Nat

Pool == 1 .. PoolSize
MainThread == 0
Nobody == PoolSize + 1
NotAccepting == PoolSize + 2
Armed == PoolSize + 3
Frames == {"program", "handler", "stray"}
Mutexes == {"sessions_mutex_", "topics_mutex_"}

VARIABLES
  main,        \* where main() is: see MainSteps
  code,        \* what it will return
  step,        \* where each frame is: see FrameSteps
  strayThread, \* the thread of the frame "stray"
  running,     \* running_
  acceptor,    \* acceptor_ is open
  stopped,     \* io_context_ is stopped
  g_broker,    \* g_broker is set
  created,     \* how many threads start() has created
  joinable,    \* the threads in threads_ that are joinable
  pool,        \* what each thread of the pool does: see PoolSteps
  accept,      \* async_accept: NotAccepting, Armed, or the thread in its handler
  held,        \* who holds each mutex
  needs,       \* the mutexes that the handler of each thread has still to lock
  console,     \* who holds the lock of std::cout
  cleared,     \* sessions_ and topic_subscribers_ were cleared by stop()
  signals, throws,
  untimely     \* history: a signal came during start(), or in the catch of main()

mainVars == <<main, code, g_broker, created>>
brokerVars == <<running, acceptor, stopped, joinable, cleared>>
lockVars == <<held, needs>>
poolVars == <<pool, accept, throws, lockVars>>
signalVars == <<strayThread, signals, untimely>>
vars == <<mainVars, step, brokerVars, poolVars, console, signalVars>>

MainSteps ==
  {"installed",              \* the signal handler is installed
   "arming", "spawning", "naming",   \* start(): accept, threads, local_endpoint()
   "announcing", "started",  \* about to print, and printing
   "waiting",                \* std::cin.get()
   "leaving", "farewell",    \* about to print, and printing
   "stopping", "forgetting", \* in stop(); before g_broker = nullptr
   "destroying", "caught",   \* ~Broker; in the catch of main()
   "over", "terminated"}

FrameSteps ==
  {"out", "print", "check", "shut", "join", "clear",
   "hung"}                   \* for ever in the handler's message

PoolSteps ==
  {"none", "idle",           \* not created; in run(), without a handler
   "handling", "printing",   \* a handler, before its message and in it
   "finished"}

Over == main \in {"over", "terminated"}

TypeOK ==
  /\ main \in MainSteps /\ code \in {0, 1} /\ g_broker \in BOOLEAN
  /\ step \in [Frames -> FrameSteps] /\ strayThread \in Pool \cup {Nobody}
  /\ running \in BOOLEAN /\ acceptor \in BOOLEAN /\ stopped \in BOOLEAN
  /\ created \in 0 .. PoolSize /\ joinable \subseteq 1 .. created
  /\ pool \in [Pool -> PoolSteps] /\ accept \in Pool \cup {NotAccepting, Armed}
  /\ held \in [Mutexes -> Pool \cup {Nobody}] /\ needs \in [Pool -> SUBSET Mutexes]
  /\ console \in Pool \cup {MainThread, Nobody} /\ cleared \in BOOLEAN
  /\ signals \in 0 .. MaxSignals /\ throws \in 0 .. MaxThrows
  /\ untimely \in BOOLEAN

Init ==
  /\ main = "installed" /\ code = 0 /\ g_broker = TRUE
  /\ step = [f \in Frames |-> "out"] /\ strayThread = Nobody
  /\ running = FALSE /\ acceptor = TRUE /\ stopped = FALSE
  /\ created = 0 /\ joinable = {}
  /\ pool = [i \in Pool |-> "none"] /\ accept = NotAccepting
  /\ held = [m \in Mutexes |-> Nobody] /\ needs = [i \in Pool |-> {}]
  /\ console = Nobody /\ cleared = FALSE
  /\ signals = 0 /\ throws = 0
  /\ untimely = FALSE

ThreadOf(f) == IF f = "stray" THEN strayThread ELSE MainThread
CanPrint(i) == console \in {Nobody, i}
Unlock(i) == [m \in Mutexes |-> IF held[m] = i THEN Nobody ELSE held[m]]

-----------------------------------------------------------------------------
(* main(), as long as no signal handler runs on top of it.                 *)

At(s) == main = s /\ step["handler"] = "out"

\* The head of start().
StartBroker ==
  /\ At("installed")
  /\ main' = "arming" /\ running' = TRUE
  /\ UNCHANGED <<code, g_broker, created, step, acceptor, stopped, joinable, cleared,
                 poolVars, console, signalVars>>

AcceptConnections ==
  /\ At("arming")
  /\ main' = "spawning" /\ accept' = Armed
  /\ UNCHANGED <<code, g_broker, created, step, brokerVars, pool, throws, lockVars, console,
                 signalVars>>

\* Mutant of SpawnThread: one thread too many.
SpawnThreadOneMore ==
  /\ At("spawning") /\ created <= PoolSize
  /\ created' = created + 1
  /\ joinable' = joinable \cup {created + 1}
  /\ pool' = [pool EXCEPT ![created + 1] = "idle"]
  /\ UNCHANGED <<main, code, g_broker, step, running, acceptor, stopped, cleared, accept,
                 throws, lockVars, console, signalVars>>

SpawnThread ==
  /\ At("spawning") /\ created < PoolSize
  /\ created' = created + 1
  /\ joinable' = joinable \cup {created + 1}
  /\ pool' = [pool EXCEPT ![created + 1] = "idle"]
  /\ UNCHANGED <<main, code, g_broker, step, running, acceptor, stopped, cleared, accept,
                 throws, lockVars, console, signalVars>>

\* start() leaves its loop.
AllSpawned ==
  /\ At("spawning") /\ created = PoolSize
  /\ main' = "naming"
  /\ UNCHANGED <<code, g_broker, created, step, brokerVars, poolVars, console, signalVars>>

\* An exception out of start(): ~Broker calls stop().
StartThrows ==
  /\ main' = "stopping" /\ code' = 1 /\ step' = [step EXCEPT !["program"] = "check"]
  /\ UNCHANGED <<g_broker, created, brokerVars, poolVars, console, signalVars>>

\* The system has no more threads, or no memory for them.
SpawnFails == At("spawning") /\ created < PoolSize /\ StartThrows

\* local_endpoint() throws when the acceptor is closed.
NameEndpoint ==
  /\ At("naming")
  /\ \/ ~acceptor /\ StartThrows
     \/ /\ acceptor /\ main' = "announcing"
        /\ UNCHANGED <<code, g_broker, created, step, brokerVars, poolVars, console,
                       signalVars>>

StartPrinting ==
  /\ At("announcing") \/ At("leaving")
  /\ CanPrint(MainThread)
  /\ main' = IF main = "announcing" THEN "started" ELSE "farewell"
  /\ console' = MainThread
  /\ UNCHANGED <<code, g_broker, created, step, brokerVars, poolVars, signalVars>>

\* The message is out; after the last one main() calls stop().
EndPrinting ==
  /\ At("started") \/ At("farewell")
  /\ console' = Nobody
  /\ \/ main = "started" /\ main' = "waiting" /\ UNCHANGED step
     \/ /\ main = "farewell" /\ main' = "stopping"
        /\ step' = [step EXCEPT !["program"] = "check"]
  /\ UNCHANGED <<code, g_broker, created, brokerVars, poolVars, signalVars>>

\* Somebody presses Enter.  A signal does not end the wait: the read is restarted.
Enter ==
  /\ At("waiting")
  /\ main' = "leaving"
  /\ UNCHANGED <<code, g_broker, created, step, brokerVars, poolVars, console, signalVars>>

StopReturns ==
  /\ At("stopping") /\ step["program"] = "out"
  /\ main' = IF code = 0 THEN "forgetting" ELSE "destroying"
  /\ UNCHANGED <<code, g_broker, created, step, brokerVars, poolVars, console, signalVars>>

ForgetBroker ==
  /\ At("forgetting")
  /\ main' = "destroying" /\ g_broker' = FALSE
  /\ UNCHANGED <<code, created, step, brokerVars, poolVars, console, signalVars>>

\* The rest of ~Broker, where threads_ is destroyed.
DestroyBroker ==
  /\ At("destroying")
  /\ main' = IF joinable # {} THEN "terminated" ELSE IF code = 0 THEN "over" ELSE "caught"
  /\ UNCHANGED <<code, g_broker, created, step, brokerVars, poolVars, console, signalVars>>

\* main() returns 1.
ReturnFailure ==
  /\ At("caught")
  /\ main' = "over"
  /\ UNCHANGED <<code, g_broker, created, step, brokerVars, poolVars, console, signalVars>>

-----------------------------------------------------------------------------
(* Signals and stop().                                                     *)

Signal ==
  /\ ~Over /\ signals < MaxSignals
  /\ signals' = signals + 1
  /\ \/ /\ step["handler"] = "out"
        /\ step' = [step EXCEPT !["handler"] = "print"]
        /\ untimely' = (untimely \/ main \in {"arming", "spawning", "naming", "caught"})
        /\ UNCHANGED strayThread
     \/ /\ step["handler"] # "out" /\ step["stray"] = "out"
        /\ \E i \in Pool : pool[i] \notin {"none", "finished"} /\ strayThread' = i
        /\ step' = [step EXCEPT !["stray"] = "print"]
        /\ UNCHANGED untimely
  /\ UNCHANGED <<mainVars, brokerVars, poolVars, console>>

Active(f) == f # "program" \/ step["handler"] = "out"

InFrame(f, s) == ~Over /\ step[f] = s /\ Active(f)

\* A frame returns.
Leaves(f) == step' = [step EXCEPT ![f] = "out"]

\* The handler's message; then stop() if g_broker is set.
SignalMessage(f) ==
  /\ InFrame(f, "print") /\ CanPrint(ThreadOf(f))
  /\ \/ g_broker /\ step' = [step EXCEPT ![f] = "check"]
     \/ ~g_broker /\ Leaves(f)
  /\ UNCHANGED <<mainVars, brokerVars, poolVars, console, signalVars>>

\* localtime() or malloc() in the handler's message waits for a lock of the library that
\* the interrupted code holds, unless that code is asleep in the system.
MessageHangs(f) ==
  /\ InFrame(f, "print")
  /\ f = "handler" => main # "waiting" /\ step["program"] # "join"
  /\ step' = [step EXCEPT ![f] = "hung"]
  /\ UNCHANGED <<mainVars, brokerVars, poolVars, console, signalVars>>

\* if (!running_) return;  In the catch of main() the broker is gone already.
CheckRunning(f) ==
  /\ InFrame(f, "check")
  /\ \/ running /\ step' = [step EXCEPT ![f] = "shut"] /\ UNCHANGED main
     \/ ~running /\ Leaves(f) /\ UNCHANGED main
     \/ main = "caught" /\ main' = "terminated" /\ UNCHANGED step
  /\ UNCHANGED <<code, g_broker, created, brokerVars, poolVars, console, signalVars>>

\* Mutant of ShutDown: io_context_.stop() left out.
ShutDownAcceptorOnly(f) ==
  /\ InFrame(f, "shut")
  /\ running' = FALSE /\ acceptor' = FALSE
  /\ step' = [step EXCEPT ![f] = "join"]
  /\ UNCHANGED <<mainVars, stopped, joinable, cleared, poolVars, console, signalVars>>

ShutDown(f) ==
  /\ InFrame(f, "shut")
  /\ running' = FALSE /\ acceptor' = FALSE /\ stopped' = TRUE
  /\ step' = [step EXCEPT ![f] = "join"]
  /\ UNCHANGED <<mainVars, joinable, cleared, poolVars, console, signalVars>>

First(s) == CHOOSE i \in s : \A j \in s : i <= j

\* Mutant of JoinThread: the loop leaves out the last thread.
JoinThreadButLast(f) ==
  /\ InFrame(f, "join") /\ joinable # {}
  /\ \/ ThreadOf(f) # First(joinable) /\ pool[First(joinable)] = "finished"
     \/ First(joinable) = PoolSize
  /\ joinable' = joinable \ {First(joinable)}
  /\ UNCHANGED <<mainVars, step, running, acceptor, stopped, cleared, poolVars, console,
                 signalVars>>

JoinThread(f) ==
  /\ InFrame(f, "join") /\ joinable # {}
  /\ ThreadOf(f) # First(joinable) /\ pool[First(joinable)] = "finished"
  /\ joinable' = joinable \ {First(joinable)}
  /\ UNCHANGED <<mainVars, step, running, acceptor, stopped, cleared, poolVars, console,
                 signalVars>>

\* A thread that joins itself, or a thread that is being joined: an exception out of
\* a signal handler, which ends the process, or the thread if it gets to the catch,
\* with the mutexes unlocked on the way.
JoinThrows(f) ==
  /\ InFrame(f, "join") /\ joinable # {}
  /\ \/ /\ ThreadOf(f) = First(joinable)
        /\ step' = [step EXCEPT ![f] = "out"]
        /\ pool' = [pool EXCEPT ![strayThread] = "finished"]
        /\ console' = IF console = strayThread THEN Nobody ELSE console
        /\ accept' = IF accept = strayThread THEN NotAccepting ELSE accept
        /\ held' = Unlock(strayThread) /\ needs' = [needs EXCEPT ![strayThread] = {}]
        /\ UNCHANGED main
     \/ /\ \/ ThreadOf(f) = First(joinable)
           \/ \E g \in Frames \ {f} : step[g] = "join" /\ Active(g)
        /\ main' = "terminated"
        /\ UNCHANGED <<step, pool, console, accept, lockVars>>
  /\ UNCHANGED <<code, g_broker, created, brokerVars, throws, signalVars>>

\* Mutant of AllJoined: stop() does not wait for the threads.
AllJoinedNot(f) ==
  /\ InFrame(f, "join")
  /\ step' = [step EXCEPT ![f] = "clear"]
  /\ UNCHANGED <<mainVars, brokerVars, poolVars, console, signalVars>>

AllJoined(f) ==
  /\ InFrame(f, "join") /\ joinable = {}
  /\ step' = [step EXCEPT ![f] = "clear"]
  /\ UNCHANGED <<mainVars, brokerVars, poolVars, console, signalVars>>

\* The tables are cleared under their mutexes, threads_ is, and stop() returns.
ClearTables(f) ==
  /\ InFrame(f, "clear")
  /\ \A m \in Mutexes : held[m] = Nobody
  /\ cleared' = TRUE
  /\ Leaves(f)
  /\ UNCHANGED <<mainVars, running, acceptor, stopped, joinable, poolVars, console,
                 signalVars>>

-----------------------------------------------------------------------------
(* The threads of the pool.                                                *)

Runs(i, s) == ~Over /\ pool[i] = s /\ (strayThread = i => step["stray"] = "out")

\* A handler of a session, or of async_accept, with the mutexes that it will lock.
\* One that has several critical sections or messages is several handlers in a row.
TakeHandler(i) ==
  /\ Runs(i, "idle") /\ ~stopped
  /\ pool' = [pool EXCEPT ![i] = "handling"]
  /\ \/ /\ accept = Armed /\ accept' = i
        /\ UNCHANGED needs
     \/ \E w \in SUBSET Mutexes : needs' = [needs EXCEPT ![i] = w]
        /\ UNCHANGED accept
  /\ UNCHANGED <<mainVars, step, brokerVars, held, throws, console, signalVars>>

\* What a thread locks next: topics_mutex_ after sessions_mutex_, if it needs both.
NextMutex(i, m) == m \in needs[i] /\ (m = "topics_mutex_" => "sessions_mutex_" \notin needs[i])

\* Mutant of HandlerLocks: the mutexes are locked in any order.
HandlerLocksUnordered(i, m) ==
  /\ Runs(i, "handling") /\ m \in needs[i] /\ held[m] = Nobody
  /\ held' = [held EXCEPT ![m] = i] /\ needs' = [needs EXCEPT ![i] = @ \ {m}]
  /\ UNCHANGED <<mainVars, step, brokerVars, pool, accept, throws, console, signalVars>>

HandlerLocks(i, m) ==
  /\ Runs(i, "handling") /\ NextMutex(i, m) /\ held[m] = Nobody
  /\ held' = [held EXCEPT ![m] = i] /\ needs' = [needs EXCEPT ![i] = @ \ {m}]
  /\ UNCHANGED <<mainVars, step, brokerVars, pool, accept, throws, console, signalVars>>

HandlerPrints(i) ==
  /\ Runs(i, "handling") /\ needs[i] = {} /\ CanPrint(i)
  /\ pool' = [pool EXCEPT ![i] = "printing"] /\ console' = i
  /\ UNCHANGED <<mainVars, step, brokerVars, accept, throws, lockVars, signalVars>>

\* Mutant of HandlerReturns: an accept that failed is not renewed.
HandlerReturnsOnError(i) ==
  /\ Runs(i, "printing")
  /\ pool' = [pool EXCEPT ![i] = "idle"] /\ held' = Unlock(i) /\ console' = Nobody
  /\ accept' = IF accept = i THEN NotAccepting ELSE accept
  /\ UNCHANGED <<mainVars, step, brokerVars, throws, needs, signalVars>>

\* The message is out and the mutexes are unlocked.  The handler of async_accept renews
\* it if running_ is set.
HandlerReturns(i) ==
  /\ Runs(i, "printing")
  /\ pool' = [pool EXCEPT ![i] = "idle"] /\ held' = Unlock(i) /\ console' = Nobody
  /\ accept' = IF accept = i THEN (IF running THEN Armed ELSE NotAccepting) ELSE accept
  /\ UNCHANGED <<mainVars, step, brokerVars, throws, needs, signalVars>>

\* The catch around run() ends the thread.
HandlerThrows(i) ==
  /\ Runs(i, "printing") /\ throws < MaxThrows
  /\ throws' = throws + 1
  /\ pool' = [pool EXCEPT ![i] = "finished"] /\ held' = Unlock(i) /\ console' = Nobody
  /\ accept' = IF accept = i THEN NotAccepting ELSE accept
  /\ UNCHANGED <<mainVars, step, brokerVars, needs, signalVars>>

RunReturns(i) ==
  /\ Runs(i, "idle") /\ stopped
  /\ pool' = [pool EXCEPT ![i] = "finished"]
  /\ UNCHANGED <<mainVars, step, brokerVars, accept, throws, lockVars, console, signalVars>>

-----------------------------------------------------------------------------
MainStep ==
  \/ StartBroker \/ AcceptConnections \/ SpawnThread \/ AllSpawned \/ NameEndpoint
  \/ StartPrinting \/ EndPrinting
  \/ StopReturns \/ ForgetBroker \/ DestroyBroker \/ ReturnFailure

FrameStep(f) ==
  \/ SignalMessage(f) \/ CheckRunning(f) \/ ShutDown(f)
  \/ JoinThread(f) \/ JoinThrows(f) \/ AllJoined(f) \/ ClearTables(f)

PoolStep(i) ==
  \/ \E m \in Mutexes : HandlerLocks(i, m)
  \/ HandlerPrints(i) \/ HandlerReturns(i) \/ RunReturns(i)

Next ==
  \/ MainStep \/ SpawnFails \/ Enter \/ Signal
  \/ \E f \in Frames : FrameStep(f) \/ MessageHangs(f)
  \/ \E i \in Pool : PoolStep(i) \/ TakeHandler(i) \/ HandlerThrows(i)

Spec == Init /\ [][Next]_vars

\* A thread that can go on again and again does: who waits for the console or a mutex
\* gets it when it comes free again and again.  Nobody has to press Enter, to signal or
\* to connect, and nothing need hang.
Fairness ==
  /\ SF_vars(MainStep \/ FrameStep("program") \/ FrameStep("handler"))
  /\ \A i \in Pool : SF_vars(PoolStep(i) \/ (strayThread = i /\ FrameStep("stray")))

FairSpec == Spec /\ Fairness

-----------------------------------------------------------------------------
\* stop() clears the tables only when no thread of the pool is in a handler, whose
\* sessions would otherwise be gone under it, in whichever frame it runs.
ClearedAfterHandlers ==
  [][cleared' # cleared => \A i \in Pool : pool[i] \in {"none", "idle", "finished"}]_vars

\* The process ends by std::terminate only if a signal came during start(), or after an
\* exception had destroyed the broker, or if a thread of the pool took one: a single
\* signal at any other time, or an exception without a signal, never brings it down.
CrashOnlyBySignal == main = "terminated" => untimely \/ strayThread # Nobody

\* main() returns 0 only when every thread was joined and the tables are cleared.
CleanExit ==
  main = "over" /\ code = 0 =>
    cleared /\ joinable = {} /\ \A i \in 1 .. created : pool[i] = "finished"

\* The broker accepts connections for as long as it runs, unless an exception out of a
\* handler has cost it that.
KeepsAccepting == main = "waiting" /\ running /\ throws = 0 => accept # NotAccepting

\* The thread i waits for the thread j: in join(), for the console or for a mutex.
Waits(i, j) ==
  \/ \E f \in Frames :
       /\ ThreadOf(f) = i /\ Active(f) /\ j # i
       /\ \/ step[f] = "join" /\ joinable # {} /\ j = First(joinable)
          \/ step[f] = "print" /\ console = j
  \/ /\ i \in Pool /\ Runs(i, "handling")
     /\ \/ \E m \in Mutexes : NextMutex(i, m) /\ held[m] = j
        \/ needs[i] = {} /\ console = j

\* Stuck for good: threads that wait for each other in a circle, one of them in the
\* join() of a frame that interrupted it while it held the console or a mutex.
HeldUp ==
  \E f \in {"handler", "stray"}, c \in SUBSET (Pool \cup {MainThread}) :
    /\ step[f] = "join" /\ ThreadOf(f) \in c
    /\ \A i \in c : (\E j \in c : Waits(i, j)) /\ (\E j \in c : Waits(j, i))

Hung == \E f \in Frames : step[f] = "hung"

\* After Enter the process comes to its end: neither the pool nor a handler of a signal
\* holds it up, except by what the interrupted code holds.
EnterEnds == main = "leaving" ~> Over \/ HeldUp \/ Hung

\* Once a frame has stopped io_context_, whichever it is, every thread of the pool ends,
\* the ones that start() creates afterwards and those that wait for each other's mutexes
\* included, except by what the interrupted code holds.
SignalStopsPool ==
  stopped ~> Over \/ HeldUp \/ Hung \/ \A i \in 1 .. created : pool[i] = "finished"
=============================================================================
