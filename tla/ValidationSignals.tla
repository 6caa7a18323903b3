------------------------- MODULE ValidationSignals -------------------------
(***************************************************************************)
(* CScheduler, SingleThreadedSchedulerClient (scheduler.cpp), the list of  *)
(* subscribers of MainSignalsImpl (validationinterface.cpp) and the order  *)
(* in which Shutdown (init.cpp) takes them down.                           *)
(*                                                                         *)
(* A producer is a thread that generates callbacks: RPC and network        *)
(* threads, which Shutdown stops first, and the importer, the thread that  *)
(* loads blocks at startup.  A service thread runs serviceQueue.  Every    *)
(* step of a thread is one critical section (newTaskMutex,                 *)
(* m_callbacks_mutex or m_mutex) or one call of a callback between two.    *)
(*                                                                         *)
(* Of the clock it matters only whether a time has come: one task with a   *)
(* time is modelled beside the ones that are due at once.  A subscriber's  *)
(* entry in m_list is a number; entries are appended, so that the order of *)
(* the list is that of the numbers, and one with count 0 is erased.        *)
(***************************************************************************)
EXTENDS Integers, Sequences, FiniteSets

CONSTANTS
  Service,      \* threads that run serviceQueue (the node starts one)
  Producer,     \* threads that generate callbacks
  Importer,     \* of them, m_load_block
  Main,         \* the thread that runs Shutdown
  Subscriber,
  Nobody,
  Limit,        \* the 10 of LimitValidationInterfaceQueue
  MaxCallback,  \* bound: callbacks generated
  MaxEntry,     \* bound: registrations
  MaxRepeat     \* bound: times the task with a time is scheduled again

Thread == Service \cup Producer \cup {Main}
Entry == 1..MaxEntry

ASSUME ThreadAssumption ==
  /\ IsFiniteSet(Service) /\ IsFiniteSet(Producer) /\ Importer \subseteq Producer
  /\ Service \cap Producer = {}
  /\ Main \notin Service \cup Producer
  /\ Nobody \notin Producer
ASSUME BoundAssumption ==
  Limit \in Nat /\ MaxCallback \in Nat /\ MaxEntry \in Nat /\ MaxRepeat \in Nat

VARIABLES
  process,        \* taskQueue: the ProcessQueue tasks, all due at once
  timer,          \* taskQueue: the task with a time: "none", "future" or "due"
  repeats,        \* times timer was scheduled again
  stopRequested,
  stopWhenEmpty,
  pc,
  m_callbacks_pending,
  m_are_callbacks_running,
  current,        \* the callback a thread runs
  blocked,        \* producers whose promise in Sync... is not yet set
  count,          \* of each entry of m_list
  m_map,          \* the entry of each subscriber, 0 if it has none
  entries,        \* entries made so far
  it,             \* the entry a thread's Iterate is at
  generated,      \* history: callbacks generated so far, numbered from 1
  finished,       \* history: the last one that has run
  owed            \* history: entries the callback that runs has yet to call

queueVars == <<process, timer, repeats, stopRequested, stopWhenEmpty>>
clientVars == <<m_callbacks_pending, m_are_callbacks_running, current, blocked, generated, finished>>
listVars == <<count, m_map, entries, it, owed>>
vars == <<queueVars, clientVars, listVars, pc>>

(* A callback: its number, and the producer whose promise it sets, if it   *)
(* is the one of SyncWithValidationInterfaceQueue.                         *)
NoCallback == [n |-> 0, sync |-> Nobody]

Init ==
  /\ process = 0 /\ timer = "future" /\ repeats = 0
  /\ stopRequested = FALSE /\ stopWhenEmpty = FALSE
  /\ pc = [t \in Thread |-> IF t \in Service THEN "top" ELSE IF t = Main THEN "run" ELSE "idle"]
  /\ m_callbacks_pending = <<>> /\ m_are_callbacks_running = FALSE
  /\ current = [t \in Thread |-> NoCallback]
  /\ blocked = {} /\ generated = 0 /\ finished = 0
  /\ count = [e \in Entry |-> 0]
  /\ m_map = [s \in Subscriber |-> 0]
  /\ it = [t \in Thread |-> 0]
  /\ entries = 0 /\ owed = {}

Goto(t, l) == pc' = [pc EXCEPT ![t] = l]

(* Where a thread goes on after a call into the client.                    *)
Return(t) == IF t \in Service THEN "top" ELSE IF t = Main THEN "empty" ELSE "idle"

-----------------------------------------------------------------------------
(* CScheduler                                                              *)

Empty == process = 0 /\ timer = "none"
ShouldStop == stopRequested \/ (stopWhenEmpty /\ Empty)
Waiting(p) == {t \in Service : p[t] \in {"wait", "untilDue", "untilFuture"}}

(* notify_one wakes one waiting thread, if there is one.  A wait_until     *)
(* whose time has come returns timeout, whatever wakes it.                 *)
Awake(l) == IF l \in {"wait", "untilFuture"} THEN "top" ELSE l
WokenOne(p) ==
  IF Waiting(p) = {} THEN {p} ELSE {[p EXCEPT ![t] = Awake(@)] : t \in Waiting(p)}

(* The head of serviceQueue's loop, which a thread comes back to from a    *)
(* wait: leave, wait for a task, or wait for the time of the first one.    *)
Look(t) ==
  IF ShouldStop
  THEN pc' \in WokenOne([pc EXCEPT ![t] = "exited"])
  ELSE Goto(t, IF Empty THEN "wait"
               ELSE IF process > 0 \/ timer = "due" THEN "untilDue" ELSE "untilFuture")

ServiceLook(t) ==
  /\ pc[t] = "top"
  /\ Look(t)
  /\ UNCHANGED <<queueVars, clientVars, listVars>>

(* wait_until times out: the first task is taken, which need not be the    *)
(* one that was waited for.                                                *)
ServiceTimeout(t) ==
  /\ pc[t] = "untilDue"
  /\ \/ (ShouldStop \/ Empty) /\ Look(t) /\ UNCHANGED <<process, timer>>
     \/ /\ ~ShouldStop /\ process > 0
        /\ process' = process - 1
        /\ Goto(t, "process") /\ UNCHANGED timer
     \/ /\ ~ShouldStop /\ (timer = "due" \/ (timer = "future" /\ process = 0))
        /\ timer' = "none"
        /\ Goto(t, "timer") /\ UNCHANGED process
  /\ UNCHANGED <<repeats, stopRequested, stopWhenEmpty, clientVars, listVars>>

(* The task with a time has run: Repeat schedules it again, or it ends.    *)
Repeat(t) ==
  /\ pc[t] = "timer"
  /\ \/ /\ repeats < MaxRepeat
        /\ repeats' = repeats + 1 /\ timer' = "future" /\ Goto(t, "notify")
     \/ Goto(t, "top") /\ UNCHANGED <<timer, repeats>>
  /\ UNCHANGED <<process, stopRequested, stopWhenEmpty, clientVars, listVars>>

(* The second half of schedule.                                            *)
Notify_Nobody(t) ==
  /\ pc[t] = "notify"
  /\ Goto(t, Return(t))
  /\ UNCHANGED <<queueVars, clientVars, listVars>>
Notify(t) ==
  /\ pc[t] = "notify"
  /\ pc' \in WokenOne([pc EXCEPT ![t] = Return(t)])
  /\ UNCHANGED <<queueVars, clientVars, listVars>>

(* Condition variables may wake without a notification.                    *)
SpuriousWakeup(t) ==
  /\ pc[t] \in {"wait", "untilFuture"}
  /\ Goto(t, "top")
  /\ UNCHANGED <<queueVars, clientVars, listVars>>

(* The clock reaches the times that were in the future.                    *)
Tick ==
  /\ timer = "future" \/ \E t \in Service : pc[t] = "untilFuture"
  /\ timer' = IF timer = "future" THEN "due" ELSE timer
  /\ pc' = [t \in Thread |-> IF pc[t] = "untilFuture" THEN "untilDue" ELSE pc[t]]
  /\ UNCHANGED <<process, repeats, stopRequested, stopWhenEmpty, clientVars, listVars>>

(* MockForward moves the times of the tasks, not of the threads that wait. *)
MockForward ==
  /\ timer = "future" /\ pc[Main] = "run"
  /\ timer' = "due"
  /\ pc' \in WokenOne(pc)
  /\ UNCHANGED <<process, repeats, stopRequested, stopWhenEmpty, clientVars, listVars>>

-----------------------------------------------------------------------------
(* SingleThreadedSchedulerClient                                           *)

(* Shutdown has stopped the other producers before it stops the scheduler, *)
(* and waits for the importer after that.  MaxCallback bounds the calls    *)
(* that are begun; one that is in progress ends.                           *)
MayGenerate(p) ==
  /\ p \notin blocked /\ generated < MaxCallback
  /\ pc[Main] = "run" \/ (p \in Importer /\ pc[Main] \in {"notifyAll", "join", "joinImporter"})

AddToProcessQueue(p, sync) ==
  /\ generated' = generated + 1
  /\ m_callbacks_pending' = Append(m_callbacks_pending, [n |-> generated + 1, sync |-> sync])
  /\ Goto(p, "maybe")
  /\ UNCHANGED <<queueVars, listVars, m_are_callbacks_running, current, finished>>

(* A signal that is queued: ENQUEUE_AND_LOG_EVENT.                         *)
Enqueue(p) ==
  /\ pc[p] = "idle" /\ MayGenerate(p)
  /\ AddToProcessQueue(p, Nobody)
  /\ UNCHANGED blocked

(* The importer calls SyncWithValidationInterfaceQueue only through        *)
(* LimitValidationInterfaceQueue, when too many callbacks are pending.     *)
LimitValidationInterfaceQueue(p) ==
  /\ pc[p] = "idle" /\ MayGenerate(p)
  /\ Len(m_callbacks_pending) > Limit
  /\ Goto(p, "sync")
  /\ UNCHANGED <<queueVars, clientVars, listVars>>
SyncWithValidationInterfaceQueue(p) ==
  /\ pc[p] = "sync" \/ (pc[p] = "idle" /\ p \notin Importer /\ MayGenerate(p))
  /\ AddToProcessQueue(p, p)
  /\ blocked' = blocked \cup {p}

MaybeScheduleProcessQueue(t) ==
  /\ pc[t] = "maybe"
  /\ IF m_are_callbacks_running \/ m_callbacks_pending = <<>>
     THEN Goto(t, Return(t)) ELSE Goto(t, "schedule")
  /\ UNCHANGED <<queueVars, clientVars, listVars>>
Schedule(t) ==
  /\ pc[t] = "schedule"
  /\ process' = process + 1
  /\ Goto(t, "notify")
  /\ UNCHANGED <<timer, repeats, stopRequested, stopWhenEmpty, clientVars, listVars>>

ProcessQueue_Concurrent(t) ==
  /\ pc[t] = "process"
  /\ IF m_callbacks_pending = <<>>
     THEN Goto(t, Return(t)) /\ UNCHANGED <<m_callbacks_pending, m_are_callbacks_running, current>>
     ELSE /\ m_are_callbacks_running' = TRUE
          /\ current' = [current EXCEPT ![t] = Head(m_callbacks_pending)]
          /\ m_callbacks_pending' = Tail(m_callbacks_pending)
          /\ Goto(t, "callback")
  /\ UNCHANGED <<queueVars, listVars, blocked, generated, finished>>
ProcessQueue(t) ==
  /\ pc[t] = "process"
  /\ IF m_are_callbacks_running \/ m_callbacks_pending = <<>>
     THEN Goto(t, Return(t)) /\ UNCHANGED <<m_callbacks_pending, m_are_callbacks_running, current>>
     ELSE /\ m_are_callbacks_running' = TRUE
          /\ current' = [current EXCEPT ![t] = Head(m_callbacks_pending)]
          /\ m_callbacks_pending' = Tail(m_callbacks_pending)
          /\ Goto(t, "callback")
  /\ UNCHANGED <<queueVars, listVars, blocked, generated, finished>>

(* ~RAIICallbacksRunning, and on to MaybeScheduleProcessQueue.             *)
CallbackDone_NoSchedule(t) ==
  /\ pc[t] = "done"
  /\ m_are_callbacks_running' = FALSE
  /\ finished' = current[t].n
  /\ current' = [current EXCEPT ![t] = NoCallback]
  /\ Goto(t, Return(t))
  /\ UNCHANGED <<queueVars, listVars, m_callbacks_pending, blocked, generated>>
CallbackDone(t) ==
  /\ pc[t] = "done"
  /\ m_are_callbacks_running' = FALSE
  /\ finished' = current[t].n
  /\ current' = [current EXCEPT ![t] = NoCallback]
  /\ Goto(t, "maybe")
  /\ UNCHANGED <<queueVars, listVars, m_callbacks_pending, blocked, generated>>

-----------------------------------------------------------------------------
(* MainSignalsImpl                                                         *)

(* Iterate, with the counts c, goes on to the first entry after e; o is    *)
(* what a callback of the queue still owes.                                *)
Visit(t, c, e, o) ==
  LET rest == {f \in Entry : f > e /\ c[f] > 0}
  IN  \/ /\ rest = {}
         /\ count' = c /\ it' = [it EXCEPT ![t] = 0] /\ owed' = o
         /\ Goto(t, IF t \in Producer THEN "idle" ELSE "done")
      \/ \E f \in rest :
           /\ \A g \in rest : f <= g
           /\ count' = [c EXCEPT ![f] = @ + 1] /\ it' = [it EXCEPT ![t] = f]
           /\ owed' = IF t \in Producer THEN o ELSE o \ {f}
           /\ Goto(t, "calling")

Registered == {e \in Entry : \E s \in Subscriber : m_map[s] = e}

(* The callback is called: it sets a promise, or iterates over m_list.     *)
Callback(t) ==
  /\ pc[t] = "callback"
  /\ \/ /\ current[t].sync # Nobody
        /\ blocked' = blocked \ {current[t].sync}
        /\ Goto(t, "done")
        /\ UNCHANGED <<count, it, owed>>
     \/ /\ current[t].sync = Nobody
        /\ Visit(t, count, 0, Registered)
        /\ UNCHANGED blocked
  /\ UNCHANGED <<queueVars, m_callbacks_pending, m_are_callbacks_running, current, generated, finished,
                 m_map, entries>>

(* BlockChecked and NewPoWValidBlock are called in the producer's thread,  *)
(* which holds cs_main.                                                    *)
SignalDirectly(p) ==
  /\ pc[p] = "idle" /\ MayGenerate(p) /\ \A q \in Producer : pc[q] # "calling"
  /\ Visit(p, count, 0, owed)
  /\ UNCHANGED <<queueVars, clientVars, m_map, entries>>

(* A subscriber's function has returned.                                   *)
Iterate(t) ==
  /\ pc[t] = "calling"
  /\ Visit(t, [count EXCEPT ![it[t]] = @ - 1], it[t], owed)
  /\ UNCHANGED <<queueVars, clientVars, m_map, entries>>

Register(s) ==
  /\ pc[Main] = "run" /\ m_map[s] = 0 /\ entries < MaxEntry
  /\ entries' = entries + 1
  /\ count' = [count EXCEPT ![entries + 1] = 1]
  /\ m_map' = [m_map EXCEPT ![s] = entries + 1]
  /\ UNCHANGED <<queueVars, clientVars, it, owed, pc>>
Unregister_Erases(s) ==
  /\ pc[Main] = "run" /\ m_map[s] # 0
  /\ count' = [count EXCEPT ![m_map[s]] = 0]
  /\ m_map' = [m_map EXCEPT ![s] = 0]
  /\ owed' = owed \ {m_map[s]}
  /\ UNCHANGED <<queueVars, clientVars, entries, it, pc>>
Unregister(s) ==
  /\ pc[Main] = "run" /\ m_map[s] # 0
  /\ count' = [count EXCEPT ![m_map[s]] = @ - 1]
  /\ m_map' = [m_map EXCEPT ![s] = 0]
  /\ owed' = owed \ {m_map[s]}
  /\ UNCHANGED <<queueVars, clientVars, entries, it, pc>>

-----------------------------------------------------------------------------
(* Shutdown                                                                *)

(* CScheduler::stop, when the RPC and network threads have been joined,    *)
(* and the StopWhenDrained of a program without an importer; each sets its *)
(* flag in a critical section and then wakes all threads.                  *)
ProducersJoined == \A p \in Producer \ Importer : pc[p] = "idle" /\ p \notin blocked
Stop ==
  /\ pc[Main] = "run" /\ ProducersJoined
  /\ stopRequested' = TRUE
  /\ Goto(Main, "notifyAll")
  /\ UNCHANGED <<process, timer, repeats, stopWhenEmpty, clientVars, listVars>>
StopWhenDrained ==
  /\ pc[Main] = "run" /\ ProducersJoined /\ Importer = {}
  /\ stopWhenEmpty' = TRUE
  /\ Goto(Main, "notifyAll")
  /\ UNCHANGED <<process, timer, repeats, stopRequested, clientVars, listVars>>
NotifyAll_Nobody ==
  /\ pc[Main] = "notifyAll"
  /\ Goto(Main, "join")
  /\ UNCHANGED <<queueVars, clientVars, listVars>>
NotifyAll ==
  /\ pc[Main] = "notifyAll"
  /\ pc' = [t \in Thread |-> IF t = Main THEN "join" ELSE Awake(pc[t])]
  /\ UNCHANGED <<queueVars, clientVars, listVars>>
Join ==
  /\ pc[Main] = "join"
  /\ \A t \in Service : pc[t] = "exited"
  /\ Goto(Main, "joinImporter")
  /\ UNCHANGED <<queueVars, clientVars, listVars>>
JoinImporter ==
  /\ pc[Main] = "joinImporter"
  /\ \A p \in Importer : pc[p] = "idle" /\ p \notin blocked
  /\ Goto(Main, "process")
  /\ UNCHANGED <<queueVars, clientVars, listVars>>

(* EmptyQueue calls ProcessQueue until nothing is pending.                 *)
EmptyQueue ==
  /\ pc[Main] = "empty"
  /\ Goto(Main, IF m_callbacks_pending # <<>> THEN "process" ELSE "clear")
  /\ UNCHANGED <<queueVars, clientVars, listVars>>

(* UnregisterAllValidationInterfaces.                                      *)
Clear ==
  /\ pc[Main] = "clear"
  /\ count' = [e \in Entry |-> IF e \in Registered THEN count[e] - 1 ELSE count[e]]
  /\ m_map' = [s \in Subscriber |-> 0]
  /\ Goto(Main, "over")
  /\ UNCHANGED <<queueVars, clientVars, entries, it, owed>>

-----------------------------------------------------------------------------
(* What a thread that runs a callback or a call of the client does.        *)
Work(t) ==
  \/ Notify(t) \/ MaybeScheduleProcessQueue(t) \/ Schedule(t)
  \/ ProcessQueue(t) \/ Callback(t) \/ Iterate(t) \/ CallbackDone(t)
ServiceStep(t) == ServiceLook(t) \/ ServiceTimeout(t) \/ Repeat(t)
MainStep == Stop \/ StopWhenDrained \/ NotifyAll \/ Join \/ JoinImporter \/ EmptyQueue \/ Clear

Next ==
  \/ \E t \in Thread : Work(t)
  \/ \E t \in Service : ServiceStep(t) \/ SpuriousWakeup(t)
  \/ \E p \in Producer : \/ Enqueue(p) \/ LimitValidationInterfaceQueue(p)
                         \/ SyncWithValidationInterfaceQueue(p) \/ SignalDirectly(p)
  \/ \E s \in Subscriber : Register(s) \/ Unregister(s)
  \/ Tick \/ MockForward \/ MainStep

Spec == Init /\ [][Next]_vars

(* Threads run, subscribers' functions return, and time passes.  Nothing   *)
(* is assumed of the producers' calls, nor that Shutdown is ever called:   *)
(* the stops are not fair.  JoinImporter is strongly fair as the importer tests  *)
(* ShutdownRequested between its calls, and so makes finitely many more.   *)
Fairness ==
  /\ \A t \in Thread : WF_vars(Work(t))
  /\ \A t \in Service : WF_vars(ServiceStep(t))
  /\ \A p \in Producer : WF_vars(pc[p] = "sync" /\ SyncWithValidationInterfaceQueue(p))
  /\ WF_vars(Tick)
  /\ WF_vars(NotifyAll \/ Join \/ EmptyQueue \/ Clear)
  /\ SF_vars(JoinImporter)
FairSpec == Spec /\ Fairness

-----------------------------------------------------------------------------
ServicePcs == {"top", "wait", "untilDue", "untilFuture", "timer", "exited", "process", "callback", "calling",
               "done", "maybe", "schedule", "notify"}
ProducerPcs == {"idle", "sync", "calling", "maybe", "schedule", "notify"}
MainPcs == {"run", "notifyAll", "join", "joinImporter", "process", "callback", "calling", "done", "maybe",
            "schedule", "notify", "empty", "clear", "over"}
ACallback == [n : Nat, sync : Producer \cup {Nobody}]

(* The types of the fields, and which part of the code a thread can be in. *)
TypeOK ==
  /\ process \in Nat /\ timer \in {"none", "future", "due"} /\ repeats \in Nat
  /\ stopRequested \in BOOLEAN /\ stopWhenEmpty \in BOOLEAN
  /\ pc \in [Thread -> ServicePcs \cup ProducerPcs \cup MainPcs]
  /\ \A t \in Service : pc[t] \in ServicePcs
  /\ \A p \in Producer : pc[p] \in ProducerPcs
  /\ pc[Main] \in MainPcs
  /\ m_callbacks_pending \in Seq(ACallback)
  /\ m_are_callbacks_running \in BOOLEAN
  /\ current \in [Thread -> ACallback]
  /\ blocked \subseteq Producer
  /\ count \in [Entry -> Nat] /\ m_map \in [Subscriber -> 0..MaxEntry] /\ it \in [Thread -> 0..MaxEntry]
  /\ entries \in 0..MaxEntry /\ owed \subseteq Entry
  /\ generated \in Nat /\ finished \in Nat

(* However many threads service the queue, callbacks run one at a time, in *)
(* the order in which they were generated: one that runs is the successor  *)
(* of the last that has finished.  In particular all callbacks generated   *)
(* before a SyncWithValidationInterfaceQueue have finished when its        *)
(* promise is set.                                                         *)
InOrder ==
  \A t \in Thread : current[t] # NoCallback =>
    /\ current[t].n = finished + 1
    /\ \A u \in Thread \ {t} : current[u] = NoCallback

(* An entry's count is the number of threads that are calling its          *)
(* subscriber, and one more while it is registered: no thread is at an     *)
(* entry that was erased, and none is left behind in m_list.               *)
One(c) == IF c THEN 1 ELSE 0
EntriesCounted ==
  \A e \in Entry :
    count[e] = Cardinality({t \in Thread : it[t] = e}) + One(e \in Registered)

(* No wakeup is lost: while callbacks are pending, one is running, or a    *)
(* ProcessQueue task is queued, or some thread is on its way to queue or   *)
(* run one.                                                                *)
WorkScheduled ==
  m_callbacks_pending # <<>> =>
    \/ m_are_callbacks_running \/ process > 0
    \/ \E t \in Thread : pc[t] \in {"maybe", "schedule", "process"}

(* A callback that has gone through m_list has called every subscriber     *)
(* that was registered from its beginning to its end, whatever was         *)
(* registered or unregistered meanwhile.                                   *)
DeliveredToAll == \A t \in Thread : pc[t] = "done" => owed = {}

(* Subscribers may come and go while m_list is iterated over without the   *)
(* lock: no iterator is left at an erased entry, and nobody is passed over.*)
SubscribersServed == EntriesCounted /\ DeliveredToAll

(* A call of SyncWithValidationInterfaceQueue returns, also if Shutdown    *)
(* begins meanwhile.                                                       *)
SyncReturns == \A p \in Producer : p \in blocked ~> p \notin blocked

(* "A clean exit happens": once the scheduler is told to stop, Shutdown    *)
(* comes to its end.                                                       *)
ShutdownCompletes == pc[Main] = "notifyAll" ~> pc[Main] = "over"
=============================================================================
