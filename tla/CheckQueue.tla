----------------------------- MODULE CheckQueue -----------------------------
(***************************************************************************)
(* CCheckQueue and CCheckQueueControl (checkqueue.h): ConnectBlock hands   *)
(* the script checks of a block to worker threads and, when it has added   *)
(* them all, becomes one of the workers until none is left.                *)
(*                                                                         *)
(* One action is one critical section of m_mutex, one notification, or one *)
(* batch of checks evaluated without the lock.  A check is a value of      *)
(* Check, and the ones in Bad return false.  The code takes batches from   *)
(* the end of a vector and says that the order does not matter: here queue *)
(* is a set and a batch any subset of the right size.                      *)
(***************************************************************************)
EXTENDS Integers, FiniteSets

CONSTANTS Worker,      \* m_worker_threads
          Master,      \* threads that create a CCheckQueueControl
          Check, Bad,
          nBatchSize,
          None

ASSUME QueueAssumption ==
  /\ IsFiniteSet(Check) /\ Bad \subseteq Check
  /\ IsFiniteSet(Worker) /\ IsFiniteSet(Master) /\ Worker \cap Master = {}
  /\ nBatchSize \in Nat \ {0}
  /\ None \notin Master

Thread == Worker \cup Master

VARIABLES
  queue, nIdle, nTotal, fAllOk, nTodo, m_request_stop,
  pc,        \* where each thread is
  vChecks,   \* the batch of each thread; its size is nNow
  fOk,       \* the local result of each thread
  owner,     \* the thread that holds m_control_mutex
  notify,    \* the notification that Add owes after its critical section
  ret,       \* what Wait returned
  stopper,   \* where StopWorkerThreads is
  added,     \* history: the checks given to this controller
  ran        \* history: those of them that were evaluated

locked == <<queue, nIdle, nTotal, fAllOk, nTodo, m_request_stop>>
history == <<added, ran>>
vars == <<locked, pc, vChecks, fOk, owner, notify, ret, stopper, history>>

(* Workers: "none", "lock", "wait", "woken", "work", "exited".  Masters:   *)
(* "none", "control", "notify", then "lock" ... "work" inside Wait, and    *)
(* "returned".                                                             *)
InLoop == {"lock", "wait", "woken", "work"}

Init ==
  /\ queue = {} /\ nIdle = 0 /\ nTotal = 0 /\ fAllOk = TRUE /\ nTodo = 0
  /\ m_request_stop = FALSE
  /\ pc = [t \in Thread |-> "none"]
  /\ vChecks = [t \in Thread |-> {}] /\ fOk = [t \in Thread |-> TRUE]
  /\ owner = None /\ notify = "none" /\ ret = TRUE /\ stopper = "stopped"
  /\ added = {} /\ ran = {}

-----------------------------------------------------------------------------
StartWorkerThreads ==
  /\ stopper = "stopped"
  /\ stopper' = "running"
  /\ nIdle' = 0 /\ nTotal' = 0 /\ fAllOk' = TRUE
  /\ pc' = [t \in Thread |-> IF t \in Worker THEN "lock" ELSE pc[t]]
  /\ UNCHANGED <<queue, nTodo, m_request_stop, vChecks, fOk, owner, notify, ret, history>>

(* The constructor of CCheckQueueControl, where ConnectBlock passes a      *)
(* queue only if it has threads.                                           *)
Control_Shared(m) ==
  /\ pc[m] = "none" /\ stopper = "running"
  /\ owner' = m
  /\ pc' = [pc EXCEPT ![m] = "control"]
  /\ UNCHANGED <<locked, vChecks, fOk, notify, ret, stopper, history>>
Control(m) ==
  /\ pc[m] = "none" /\ owner = None /\ stopper = "running"
  /\ owner' = m
  /\ pc' = [pc EXCEPT ![m] = "control"]
  /\ UNCHANGED <<locked, vChecks, fOk, notify, ret, stopper, history>>

(* Add: the critical section, and the notification after it.               *)
Add(m, S) ==
  /\ pc[m] = "control" /\ S # {} /\ S \cap added = {}
  /\ queue' = queue \cup S
  /\ nTodo' = nTodo + Cardinality(S)
  /\ added' = added \cup S
  /\ notify' = IF Cardinality(S) = 1 THEN "one" ELSE "all"
  /\ pc' = [pc EXCEPT ![m] = "notify"]
  /\ UNCHANGED <<nIdle, nTotal, fAllOk, m_request_stop, vChecks, fOk, owner, ret,
                 stopper, ran>>

(* m_worker_cv.notify_one() and notify_all().                              *)
Waiting(S) == {t \in S : pc[t] = "wait"}
Woken(S) == [t \in Thread |-> IF t \in S THEN "woken" ELSE pc[t]]
NotifyOne(S) ==
  IF Waiting(S) = {} THEN {pc} ELSE {Woken({t}) : t \in Waiting(S)}

AddNotify(m) ==
  /\ pc[m] = "notify"
  /\ \E woken \in IF notify = "one" THEN NotifyOne(Worker) ELSE {Woken(Waiting(Worker))} :
       pc' = [woken EXCEPT ![m] = "control"]
  /\ notify' = "none"
  /\ UNCHANGED <<locked, vChecks, fOk, owner, ret, stopper, history>>

(* Wait, called by ConnectBlock or by the destructor of the controller.    *)
Wait(m) ==
  /\ pc[m] = "control"
  /\ pc' = [pc EXCEPT ![m] = "lock"]
  /\ UNCHANGED <<locked, vChecks, fOk, owner, notify, ret, stopper, history>>

(* The end of the controller, and of what it knows.                        *)
Leave(m) ==
  /\ pc[m] = "returned"
  /\ owner' = None /\ ret' = TRUE /\ added' = {} /\ ran' = {}
  /\ pc' = [pc EXCEPT ![m] = "none"]
  /\ UNCHANGED <<locked, vChecks, fOk, notify, stopper>>

-----------------------------------------------------------------------------
(* Loop.  The part of a critical section from the inner while on, with the *)
(* values that fAllOk, nTodo, nTotal, nIdle and pc have by then.  fOk is   *)
(* set anew with each batch: without one it is TRUE here.                  *)

nNow(total, idle) ==
  LET share == Cardinality(queue) \div (total + idle + 1)
      most == IF share < nBatchSize THEN share ELSE nBatchSize
  IN  IF most < 1 THEN 1 ELSE most

(* The queue is empty and the master is done.                              *)
LoopReturns(t, allOk, todo, total, idle, at) ==
  /\ queue = {} /\ ~m_request_stop /\ t \in Master /\ todo = 0
  /\ nTotal' = total - 1 /\ nIdle' = idle /\ nTodo' = todo
  /\ ret' = allOk /\ fAllOk' = TRUE
  /\ pc' = [at EXCEPT ![t] = "returned"]
  /\ vChecks' = [vChecks EXCEPT ![t] = {}] /\ fOk' = [fOk EXCEPT ![t] = TRUE]
  /\ UNCHANGED queue

(* The queue is empty: the thread sleeps on its condition variable.        *)
LoopWaits(t, allOk, todo, total, idle, at) ==
  /\ queue = {} /\ ~m_request_stop /\ ~(t \in Master /\ todo = 0)
  /\ nTotal' = total /\ nIdle' = idle + 1 /\ nTodo' = todo /\ fAllOk' = allOk
  /\ pc' = [at EXCEPT ![t] = "wait"]
  /\ vChecks' = [vChecks EXCEPT ![t] = {}] /\ fOk' = [fOk EXCEPT ![t] = TRUE]
  /\ UNCHANGED <<queue, ret>>

(* The threads are being stopped.                                          *)
LoopStops(t, allOk, todo, total, idle, at) ==
  /\ m_request_stop
  /\ nTotal' = total /\ nIdle' = idle /\ nTodo' = todo /\ fAllOk' = allOk
  /\ pc' = [at EXCEPT ![t] = IF t \in Master THEN "returned" ELSE "exited"]
  /\ ret' = IF t \in Master THEN FALSE ELSE ret
  /\ vChecks' = [vChecks EXCEPT ![t] = {}] /\ fOk' = [fOk EXCEPT ![t] = TRUE]
  /\ UNCHANGED queue

(* A batch leaves the queue.                                               *)
LoopTakes(t, allOk, todo, total, idle, at) ==
  /\ queue # {} /\ ~m_request_stop
  /\ nTotal' = total /\ nIdle' = idle /\ nTodo' = todo /\ fAllOk' = allOk
  /\ \E S \in SUBSET queue :
       /\ Cardinality(S) = nNow(total, idle)
       /\ queue' = queue \ S
       /\ vChecks' = [vChecks EXCEPT ![t] = S]
  /\ fOk' = [fOk EXCEPT ![t] = allOk]
  /\ pc' = [at EXCEPT ![t] = "work"]
  /\ UNCHANGED ret

LoopBody(t, allOk, todo, total, idle, at) ==
  \/ LoopReturns(t, allOk, todo, total, idle, at)
  \/ LoopWaits(t, allOk, todo, total, idle, at)
  \/ LoopStops(t, allOk, todo, total, idle, at)
  \/ LoopTakes(t, allOk, todo, total, idle, at)

(* The top of the loop: the first iteration counts the thread, a later one *)
(* books its batch; the worker that books the last check wakes the master. *)
LastDone_Never(t, todo) == FALSE
LastDone(t, todo) == todo = 0 /\ t \in Worker
LoopTop_Forgets(t) ==
  /\ pc[t] = "lock"
  /\ IF vChecks[t] = {}
     THEN LoopBody(t, fAllOk, nTodo, nTotal + 1, nIdle, pc)
     ELSE LET todo == nTodo - Cardinality(vChecks[t]) IN
          \E at \in IF LastDone(t, todo) THEN NotifyOne(Master) ELSE {pc} :
            LoopBody(t, fOk[t], todo, nTotal, nIdle, at)
  /\ UNCHANGED <<m_request_stop, owner, notify, stopper, history>>
LoopTop(t) ==
  /\ pc[t] = "lock"
  /\ IF vChecks[t] = {}
     THEN LoopBody(t, fAllOk, nTodo, nTotal + 1, nIdle, pc)
     ELSE LET todo == nTodo - Cardinality(vChecks[t]) IN
          \E at \in IF LastDone(t, todo) THEN NotifyOne(Master) ELSE {pc} :
            LoopBody(t, fAllOk /\ fOk[t], todo, nTotal, nIdle, at)
  /\ UNCHANGED <<m_request_stop, owner, notify, stopper, history>>

(* cond.wait returns with the lock.                                        *)
LoopWakes_StaysIdle(t) ==
  /\ pc[t] = "woken"
  /\ LoopBody(t, fAllOk, nTodo, nTotal, nIdle, pc)
  /\ UNCHANGED <<m_request_stop, owner, notify, stopper, history>>
LoopWakes(t) ==
  /\ pc[t] = "woken"
  /\ LoopBody(t, fAllOk, nTodo, nTotal, nIdle - 1, pc)
  /\ UNCHANGED <<m_request_stop, owner, notify, stopper, history>>

(* A condition variable may wake a thread without a notification.          *)
SpuriousWakeup(t) ==
  /\ pc[t] = "wait"
  /\ pc' = Woken({t})
  /\ UNCHANGED <<locked, vChecks, fOk, owner, notify, ret, stopper, history>>

(* The batch is evaluated, until a check fails and not at all if one has   *)
(* failed already.                                                         *)
Work(t) ==
  /\ pc[t] = "work"
  /\ \E done \in SUBSET vChecks[t] :
       /\ IF ~fOk[t] THEN done = {}
          ELSE IF vChecks[t] \cap Bad = {} THEN done = vChecks[t]
          ELSE Cardinality(done \cap Bad) = 1
       /\ ran' = ran \cup done
       /\ fOk' = [fOk EXCEPT ![t] = @ /\ done \cap Bad = {}]
  /\ pc' = [pc EXCEPT ![t] = "lock"]
  /\ UNCHANGED <<locked, vChecks, owner, notify, ret, stopper, added>>

-----------------------------------------------------------------------------
(* StopWorkerThreads: Shutdown calls it when every thread that connects    *)
(* blocks has ended.  It sets the flag, notifies, joins, clears the flag.  *)
StopRequest ==
  /\ stopper = "running" /\ owner = None
  /\ stopper' = "requested" /\ m_request_stop' = TRUE
  /\ UNCHANGED <<queue, nIdle, nTotal, fAllOk, nTodo, pc, vChecks, fOk, owner, notify, ret,
                 history>>

StopNotify_One ==
  /\ stopper = "requested"
  /\ stopper' = "joining" /\ pc' \in NotifyOne(Worker)
  /\ UNCHANGED <<locked, vChecks, fOk, owner, notify, ret, history>>
StopNotify ==
  /\ stopper = "requested"
  /\ stopper' = "joining" /\ pc' = Woken(Waiting(Worker))
  /\ UNCHANGED <<locked, vChecks, fOk, owner, notify, ret, history>>

StopJoined ==
  /\ stopper = "joining" /\ \A t \in Worker : pc[t] = "exited"
  /\ stopper' = "stopped" /\ m_request_stop' = FALSE
  /\ pc' = [t \in Thread |-> IF t \in Worker THEN "none" ELSE pc[t]]
  /\ UNCHANGED <<queue, nIdle, nTotal, fAllOk, nTodo, vChecks, fOk, owner, notify, ret,
                 history>>

-----------------------------------------------------------------------------
Loop(t) == LoopTop(t) \/ LoopWakes(t) \/ Work(t)

Next ==
  \/ StartWorkerThreads \/ StopRequest \/ StopNotify \/ StopJoined
  \/ \E m \in Master : Control(m) \/ AddNotify(m) \/ Wait(m) \/ Leave(m)
  \/ \E m \in Master, S \in SUBSET Check : Add(m, S)
  \/ \E t \in Thread : Loop(t) \/ SpuriousWakeup(t)

Spec == Init /\ [][Next]_vars

(* Running threads are scheduled.  Nothing makes a master add checks, and  *)
(* no wakeup is assumed that was not notified.                             *)
Fairness ==
  /\ \A t \in Thread : WF_vars(Loop(t))
  /\ \A m \in Master : WF_vars(AddNotify(m)) /\ WF_vars(Leave(m))
  /\ WF_vars(StopNotify) /\ WF_vars(StopJoined)

FairSpec == Spec /\ Fairness
-----------------------------------------------------------------------------
(* Properties.                                                             *)

(* Checks that are queued or in some thread's batch.                       *)
Pending == queue \cup UNION {vChecks[t] : t \in Thread}

(* Types, and the states that the threads can be in.                       *)
TypeOK ==
  /\ queue \subseteq Check /\ nTodo \in Nat
  /\ nIdle \in Nat /\ nTotal \in Nat
  /\ fAllOk \in BOOLEAN /\ m_request_stop \in BOOLEAN /\ ret \in BOOLEAN
  /\ pc \in [Thread -> InLoop \cup {"none", "control", "notify", "returned", "exited"}]
  /\ vChecks \in [Thread -> SUBSET Check] /\ fOk \in [Thread -> BOOLEAN]
  /\ owner \in Master \cup {None} /\ notify \in {"none", "one", "all"}
  /\ stopper \in {"stopped", "running", "requested", "joining"}
  /\ added \subseteq Check /\ ran \subseteq Check

(* nTodo is exactly the number of checks that were added and are not       *)
(* booked yet, so the unsigned counter cannot wrap and reaches 0 only when *)
(* everything is done; no check is in two places.                          *)
TodoExact ==
  /\ nTodo = Cardinality(Pending)
  /\ \A t \in Thread : vChecks[t] \cap queue = {}
  /\ \A t, u \in Thread : t # u => vChecks[t] \cap vChecks[u] = {}

(* Wait returns true exactly if every check given to the controller would  *)
(* return true, and then each of them was evaluated; nothing of another    *)
(* controller's checks comes into it.                                      *)
ResultExact ==
  \A m \in Master : pc[m] = "returned" =>
    /\ ret <=> added \cap Bad = {}
    /\ ret => added \subseteq ran

(* When the controller is done no check of it is left, also after a        *)
(* failure, so the next block starts from an empty queue.                  *)
CleanHandover ==
  owner = None => queue = {} /\ nTodo = 0 /\ fAllOk /\ Pending = {}

(* No lost wakeup: if the master sleeps without having been notified, some *)
(* worker has a batch and will book it later.                              *)
MasterNotForgotten ==
  \A m \in Master : pc[m] = "wait" => queue = {} /\ \E t \in Worker : vChecks[t] # {}

(* "The number of workers (including the master) that are idle", and the   *)
(* total, from which batch sizes are computed, are exact: each thread in   *)
(* Loop is counted once, through any sequence of waits and wakeups.        *)
Idle == {t \in Thread : pc[t] \in {"wait", "woken"}}
Counted ==
  {t \in Thread : \/ pc[t] \in {"wait", "woken", "work"}
                  \/ pc[t] = "lock" /\ vChecks[t] # {}}
CountersExact ==
  /\ stopper # "stopped" => nIdle = Cardinality(Idle)
  /\ stopper = "running" => nTotal = Cardinality(Counted)

(* The three counters, from which Loop decides who sleeps, who is woken    *)
(* and how much a thread takes, agree with the queue and the threads.      *)
CountersAgree == TodoExact /\ CountersExact

(* Wait returns, however notifications and wakeups interleave.             *)
WaitReturns == \A m \in Master : pc[m] = "lock" ~> pc[m] = "returned"

(* StopWorkerThreads joins all its threads.                                *)
StopReturns == stopper = "requested" ~> stopper = "stopped"
=============================================================================
