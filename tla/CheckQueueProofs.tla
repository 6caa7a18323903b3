-------------------------- MODULE CheckQueueProofs --------------------------
(***************************************************************************)
(* The safety properties of CheckQueue, for any number of workers, masters *)
(* and checks.  Every pass through Loop ends in LoopBody, so the invariant *)
(* is shown once for LoopBody, from what Booked says of the values with    *)
(* which a thread arrives there.                                           *)
(***************************************************************************)
EXTENDS CheckQueue, FiniteSetTheorems, TLAPS

(* Where each thread may be, and who holds m_control_mutex.                *)
Places ==
  /\ \A m \in Master : pc[m] # "exited" /\ (pc[m] # "none" <=> owner = m)
  /\ \A w \in Worker : pc[w] \in InLoop \cup {"none", "exited"}
  /\ stopper # "running" => owner = None
  /\ stopper = "stopped" => \A w \in Worker : pc[w] = "none"
  /\ m_request_stop <=> stopper \in {"requested", "joining"}

(* Whose batches there are, and that they belong to the controller.        *)
Batches ==
  /\ \A t \in Thread : vChecks[t] # {} => pc[t] \in {"lock", "work"}
  /\ \A t \in Thread : pc[t] = "work" => vChecks[t] # {}
  /\ Pending \subseteq added
  /\ owner = None => added = {} /\ fAllOk
  /\ \A m \in Master : pc[m] = "returned" => Pending = {} /\ fAllOk
  /\ \A m \in Master : pc[m] = "wait" => queue = {} /\ nTodo # 0

(* What fAllOk and fOk say of the checks that are booked or evaluated.     *)
Results ==
  /\ ~fAllOk => added \cap Bad # {}
  /\ \A t \in Thread : vChecks[t] # {} /\ ~fOk[t] => added \cap Bad # {}
  /\ \A t \in Thread : pc[t] = "lock" /\ vChecks[t] # {} /\ fOk[t] =>
       vChecks[t] \cap Bad = {} /\ vChecks[t] \subseteq ran
  /\ fAllOk /\ (\A m \in Master : pc[m] # "returned") =>
       (added \ Pending) \cap Bad = {} /\ added \ Pending \subseteq ran

IInv == TypeOK /\ Places /\ Batches /\ TodoExact /\ Results /\ ResultExact /\ CountersExact

-----------------------------------------------------------------------------
(* Sets of checks and of threads are finite, and what that gives.          *)

(* Leaves that need more than first-order reasoning name SMT.               *)
USE Zenon

LEMMA ChecksFinite ==
  ASSUME NEW S \in SUBSET Check
  PROVE  IsFiniteSet(S) /\ Cardinality(S) \in Nat /\ (Cardinality(S) = 0 <=> S = {})
BY FS_Subset, FS_CardinalityType, FS_EmptySet, QueueAssumption

LEMMA ThreadsFinite ==
  ASSUME NEW S \in SUBSET Thread
  PROVE  IsFiniteSet(S) /\ Cardinality(S) \in Nat
<1>1. IsFiniteSet(Thread)
  BY FS_Union, QueueAssumption DEF Thread
<1>2. QED
  BY <1>1, FS_Subset, FS_CardinalityType

LEMMA OneThread ==
  ASSUME NEW S \in SUBSET Thread, NEW t \in Thread
  PROVE  /\ t \notin S => Cardinality(S \cup {t}) = Cardinality(S) + 1
         /\ t \in S => Cardinality(S \ {t}) = Cardinality(S) - 1
BY ThreadsFinite, FS_AddElement, FS_RemoveElement

LEMMA DisjointUnion ==
  ASSUME NEW S \in SUBSET Check, NEW T \in SUBSET Check, S \cap T = {}
  PROVE  Cardinality(S \cup T) = Cardinality(S) + Cardinality(T)
<1>1. IsFiniteSet(S) /\ IsFiniteSet(T) /\ Cardinality(S) \in Nat /\ Cardinality(T) \in Nat
  BY ChecksFinite
<1>2. Cardinality(S \cup T) = Cardinality(S) + Cardinality(T) - Cardinality(S \cap T)
  BY <1>1, FS_Union
<1>3. Cardinality(S \cap T) = 0
  BY FS_EmptySet
<1>4. QED
  BY SMT, <1>1, <1>2, <1>3

LEMMA WhatIsPending ==
  /\ \A c : c \in Pending <=> c \in queue \/ \E t \in Thread : c \in vChecks[t]
  /\ TypeOK => Pending \subseteq Check
BY DEF Pending, TypeOK

-----------------------------------------------------------------------------
(* What is pending when t has booked its batch.                            *)
Rest(t) == Pending \ vChecks[t]

Pcs == InLoop \cup {"none", "control", "notify", "returned", "exited"}

(* The values with which a thread arrives at the inner while of Loop: its  *)
(* batch is booked, it is counted and not idle, and if nothing is left to  *)
(* do no master sleeps.                                                    *)
Arrives(t, allOk, todo, total, idle, at) ==
  /\ pc[t] \in {"lock", "woken"}
  /\ allOk \in BOOLEAN
  /\ todo = Cardinality(Rest(t))
  /\ total \in Nat /\ (stopper = "running" => total = Cardinality(Counted \cup {t}))
  /\ idle = Cardinality(Idle \ {t})
  /\ at \in [Thread -> Pcs] /\ at[t] = pc[t]
  /\ \A u \in Thread : at[u] = pc[u] \/ (u \in Master /\ pc[u] = "wait" /\ at[u] = "woken")
  /\ \A m \in Master : at[m] = "wait" => queue = {} /\ todo # 0
  /\ ~allOk => added \cap Bad # {} /\ owner # None
  /\ (\E m \in Master : pc[m] = "returned") => allOk
  /\ allOk /\ (\A m \in Master : pc[m] # "returned") =>
       (added \ Rest(t)) \cap Bad = {} /\ added \ Rest(t) \subseteq ran

(* However LoopBody ends, the pending checks are then the rest: they only  *)
(* move from the queue to a batch.                                         *)
LEMMA PendingAfterBody ==
  ASSUME IInv, NEW t \in Thread, NEW allOk, NEW todo, NEW total, NEW idle, NEW at,
         LoopBody(t, allOk, todo, total, idle, at)
  PROVE  /\ Pending' = Rest(t)
         /\ vChecks' \in [Thread -> SUBSET Check] /\ queue' \subseteq Check
         /\ \A u \in Thread \ {t} : vChecks'[u] = vChecks[u]
         /\ \A u \in Thread : vChecks'[u] \cap queue' = {}
         /\ \A u, v \in Thread : u # v => vChecks'[u] \cap vChecks'[v] = {}
         /\ nTodo' = todo
<1>. USE DEF IInv, TypeOK, TodoExact
<1>1. CASE queue' = queue /\ vChecks' = [vChecks EXCEPT ![t] = {}] /\ nTodo' = todo
  <2>1. \A u \in Thread : vChecks'[u] = IF u = t THEN {} ELSE vChecks[u]
    BY <1>1
  <2>2. \A c : c \in Pending' <=> c \in queue \/ \E u \in Thread \ {t} : c \in vChecks[u]
    BY <1>1, <2>1 DEF Pending
  <2>3. Pending' = Rest(t)
    BY <2>2, WhatIsPending DEF Rest
  <2>4. QED
    BY <1>1, <2>1, <2>3
<1>2. CASE LoopTakes(t, allOk, todo, total, idle, at)
  <2>1. PICK S \in SUBSET queue : queue' = queue \ S /\ vChecks' = [vChecks EXCEPT ![t] = S]
    BY <1>2 DEF LoopTakes
  <2>2. \A u \in Thread : vChecks'[u] = IF u = t THEN S ELSE vChecks[u]
    BY <2>1
  <2>3. \A c : c \in Pending' <=> c \in queue \/ \E u \in Thread \ {t} : c \in vChecks[u]
    BY <2>1, <2>2 DEF Pending
  <2>4. Pending' = Rest(t)
    BY <2>3, WhatIsPending DEF Rest
  <2>5. QED
    BY <1>2, <2>1, <2>2, <2>4 DEF LoopTakes
<1>3. QED
  BY <1>1, <1>2 DEF LoopBody, LoopReturns, LoopWaits, LoopStops

(* The part of the invariant that does not depend on how LoopBody ends,    *)
(* from where the threads are then.                                        *)
LEMMA BodyKeepsTypes ==
  ASSUME IInv, NEW t \in Thread, NEW allOk, NEW todo, NEW total, NEW idle, NEW at,
         Arrives(t, allOk, todo, total, idle, at),
         LoopBody(t, allOk, todo, total, idle, at),
         UNCHANGED <<m_request_stop, owner, notify, stopper, history>>
  PROVE  TypeOK' /\ Places' /\ TodoExact'
<1>. USE DEF IInv
<1>1. /\ idle \in Nat /\ todo \in Nat
      /\ Cardinality(Counted \cup {t}) \in Nat /\ Cardinality(Counted \cup {t}) # 0
  <2>1. Idle \ {t} \subseteq Thread /\ Counted \cup {t} \subseteq Thread
    BY DEF Idle, Counted
  <2>2. Rest(t) \subseteq Check
    BY WhatIsPending DEF Rest
  <2>3. Cardinality(Counted \cup {t}) # 0
    BY <2>1, ThreadsFinite, FS_EmptySet
  <2>4. QED
    BY <2>1, <2>2, <2>3, ThreadsFinite, ChecksFinite DEF Arrives
<1>2. stopper # "stopped" /\ (t \in Master => owner = t /\ stopper = "running" /\ ~m_request_stop)
  BY QueueAssumption DEF Arrives, Places, Thread, TypeOK
<1>3. TypeOK'
  <2>1. /\ pc' \in [Thread -> Pcs] /\ fOk' \in [Thread -> BOOLEAN]
        /\ fAllOk' \in BOOLEAN /\ ret' \in BOOLEAN
    BY DEF TypeOK, Arrives, LoopBody, LoopReturns, LoopWaits, LoopStops, LoopTakes, Pcs, InLoop
  <2>2. nIdle' \in Nat /\ nTotal' \in Nat /\ nTodo' \in Nat
    <3>1. total \in Nat /\ (t \in Master => total # 0)
      BY <1>1, <1>2 DEF Arrives
    <3>2. /\ nTotal' = total \/ (t \in Master /\ nTotal' = total - 1)
          /\ nIdle' = idle \/ nIdle' = idle + 1
          /\ nTodo' = todo
      BY DEF LoopBody, LoopReturns, LoopWaits, LoopStops, LoopTakes
    <3>3. QED
      BY SMT, <1>1, <3>1, <3>2
  <2>3. QED
    BY <2>1, <2>2, PendingAfterBody DEF TypeOK, Pcs, history
<1>4. Places'
  <2>1. \A u \in Thread \ {t} : pc'[u] = at[u]
    BY DEF Arrives, LoopBody, LoopReturns, LoopWaits, LoopStops, LoopTakes
  <2>2. /\ t \in Master => pc'[t] \in {"returned", "wait", "work"}
        /\ t \in Worker => pc'[t] \in {"wait", "work", "exited"}
    BY <1>2, QueueAssumption DEF Arrives, LoopBody, LoopReturns, LoopWaits, LoopStops, LoopTakes
  <2>3. QED
    BY <1>2, <2>1, <2>2, QueueAssumption DEF Places, Arrives, Thread, InLoop
<1>5. TodoExact'
  BY PendingAfterBody DEF TodoExact, Arrives
<1>6. QED
  BY <1>3, <1>4, <1>5

(* Batches and Results after LoopBody.                                     *)
LEMMA BodyKeepsResults ==
  ASSUME IInv, NEW t \in Thread, NEW allOk, NEW todo, NEW total, NEW idle, NEW at,
         Arrives(t, allOk, todo, total, idle, at),
         LoopBody(t, allOk, todo, total, idle, at),
         UNCHANGED <<m_request_stop, owner, notify, stopper, history>>
  PROVE  Batches' /\ Results' /\ ResultExact'
<1>. USE DEF IInv
<1>1. /\ Pending' = Rest(t) /\ nTodo' = todo
      /\ \A u \in Thread \ {t} : vChecks'[u] = vChecks[u]
  BY PendingAfterBody
<1>2. /\ \A u \in Thread \ {t} : pc'[u] = at[u] /\ fOk'[u] = fOk[u]
      /\ added' = added /\ ran' = ran /\ owner' = owner
  BY DEF TypeOK, Arrives, LoopBody, LoopReturns, LoopWaits, LoopStops, LoopTakes, history
<1>3. Rest(t) \subseteq Check /\ (todo = 0 <=> Rest(t) = {}) /\ Rest(t) \subseteq added
  BY WhatIsPending, ChecksFinite DEF Rest, Arrives, Batches
<1>4. t \in Master => owner = t /\ ~m_request_stop /\ \A m \in Master \ {t} : pc[m] = "none"
  BY QueueAssumption DEF Arrives, Places, TypeOK
<1>5. \A u \in Thread \ {t} : \/ pc'[u] = pc[u]
                              \/ u \in Master /\ pc[u] = "wait" /\ pc'[u] = "woken"
  BY <1>2 DEF Arrives
<1>6. CASE LoopReturns(t, allOk, todo, total, idle, at)
  <2>1. /\ t \in Master /\ queue' = {} /\ Rest(t) = {}
        /\ ret' = allOk /\ fAllOk' = TRUE /\ vChecks'[t] = {} /\ pc'[t] = "returned"
    BY <1>3, <1>6 DEF LoopReturns, TypeOK, Arrives
  <2>2. Batches'
    BY <1>1, <1>2, <1>4, <1>5, <2>1 DEF Batches, Thread
  <2>3. Results'
    BY <1>1, <1>2, <1>5, <2>1 DEF Results, Thread
  <2>4. ResultExact'
    BY <1>2, <1>4, <1>5, <2>1 DEF Arrives, Thread, ResultExact
  <2>5. QED
    BY <2>2, <2>3, <2>4
<1>7. CASE /\ LoopWaits(t, allOk, todo, total, idle, at) \/ LoopStops(t, allOk, todo, total, idle, at)
  <2>1. /\ fAllOk' = allOk /\ vChecks'[t] = {} /\ queue' = queue
        /\ pc'[t] \in {"wait", "exited"}
        /\ t \in Master => pc'[t] = "wait" /\ queue = {} /\ todo # 0
        /\ t \in Worker => ret' = ret
    BY <1>4, <1>7, QueueAssumption DEF LoopWaits, LoopStops, TypeOK, Arrives
  <2>2. Batches'
    <3>1. \A m \in Master : pc'[m] = "returned" => Pending' = {} /\ fAllOk'
      BY <1>1, <1>4, <1>5, <2>1 DEF Batches, Thread, Arrives, Rest
    <3>2. QED
      BY SMT, <1>1, <1>2, <1>3, <1>4, <1>5, <2>1, <3>1 DEF Batches, Thread, Arrives
  <2>3. Results'
    BY SMT, <1>1, <1>2, <1>3, <1>4, <1>5, <2>1 DEF Results, Thread, Arrives
  <2>4. ResultExact'
    BY SMT, <1>2, <1>4, <1>5, <2>1 DEF Arrives, Thread, ResultExact
  <2>5. QED
    BY <2>2, <2>3, <2>4
<1>8. CASE LoopTakes(t, allOk, todo, total, idle, at)
  <2>1. /\ fAllOk' = allOk /\ fOk'[t] = allOk /\ pc'[t] = "work" /\ ret' = ret /\ queue # {}
    BY <1>8 DEF LoopTakes, TypeOK, Arrives
  <2>2. vChecks'[t] # {}
    <3>1. PICK S \in SUBSET queue : Cardinality(S) = nNow(total, idle) /\ vChecks'[t] = S
      BY <1>8 DEF LoopTakes, TypeOK
    <3>2. nNow(total, idle) # 0
      BY SMT DEF nNow
    <3>3. QED
      BY <3>1, <3>2, FS_EmptySet
  <2>3. \A m \in Master : pc[m] # "returned"
    BY <2>1, WhatIsPending DEF Batches
  <2>4. Batches'
    BY SMT, <1>1, <1>2, <1>3, <1>4, <1>5, <2>1, <2>2, <2>3 DEF Batches, Thread, Arrives
  <2>5. Results'
    BY <1>1, <1>2, <1>3, <1>4, <1>5, <2>1, <2>2, <2>3 DEF Results, Thread, Arrives
  <2>6. ResultExact'
    BY <1>2, <1>4, <1>5, <2>1 DEF Arrives, Thread, ResultExact
  <2>7. QED
    BY <2>4, <2>5, <2>6
<1>9. QED
  BY <1>6, <1>7, <1>8 DEF LoopBody

(* Each thread stays counted once.                                         *)
LEMMA BodyKeepsCounters ==
  ASSUME IInv, NEW t \in Thread, NEW allOk, NEW todo, NEW total, NEW idle, NEW at,
         Arrives(t, allOk, todo, total, idle, at),
         LoopBody(t, allOk, todo, total, idle, at),
         UNCHANGED <<m_request_stop, owner, notify, stopper, history>>
  PROVE  CountersExact'
<1>. USE DEF IInv
<1>1. /\ Idle \ {t} \subseteq Thread /\ Counted \cup {t} \subseteq Thread
      /\ stopper' = stopper /\ (stopper = "running" => ~m_request_stop)
  BY DEF Idle, Counted, Places
<1>2. /\ \A u \in Thread \ {t} : u \in Idle' <=> u \in Idle \ {t}
      /\ \A u \in Thread \ {t} : u \in Counted' <=> u \in Counted \cup {t}
  <2>1. \A u \in Thread \ {t} : vChecks'[u] = vChecks[u]
    BY PendingAfterBody
  <2>2. \A u \in Thread \ {t} : pc'[u] = pc[u] \/ (pc[u] = "wait" /\ pc'[u] = "woken")
    BY DEF Arrives, LoopBody, LoopReturns, LoopWaits, LoopStops, LoopTakes
  <2>3. QED
    BY <2>1, <2>2 DEF Idle, Counted
<1>3. CASE LoopReturns(t, allOk, todo, total, idle, at)
  <2>1. pc'[t] = "returned" /\ nIdle' = idle /\ nTotal' = total - 1
    BY <1>3 DEF LoopReturns, Arrives
  <2>2. Idle' = Idle \ {t} /\ Counted' = (Counted \cup {t}) \ {t}
    BY <1>2, <2>1 DEF Idle, Counted
  <2>3. QED
    BY <1>1, <2>1, <2>2, OneThread DEF CountersExact, Arrives
<1>4. CASE LoopWaits(t, allOk, todo, total, idle, at)
  <2>1. pc'[t] = "wait" /\ nIdle' = idle + 1 /\ nTotal' = total
    BY <1>4 DEF LoopWaits, Arrives
  <2>2. Idle' = (Idle \ {t}) \cup {t} /\ Counted' = Counted \cup {t}
    BY <1>2, <2>1 DEF Idle, Counted
  <2>3. QED
    BY <1>1, <2>1, <2>2, OneThread DEF CountersExact, Arrives
<1>5. CASE LoopStops(t, allOk, todo, total, idle, at)
  <2>1. pc'[t] \in {"returned", "exited"} /\ nIdle' = idle
    BY <1>5 DEF LoopStops, Arrives
  <2>2. Idle' = Idle \ {t}
    BY <1>2, <2>1 DEF Idle
  <2>3. QED
    BY <1>1, <1>5, <2>1, <2>2 DEF CountersExact, Arrives, LoopStops
<1>6. CASE LoopTakes(t, allOk, todo, total, idle, at)
  <2>1. pc'[t] = "work" /\ nIdle' = idle /\ nTotal' = total
    BY <1>6 DEF LoopTakes, Arrives
  <2>2. Idle' = Idle \ {t} /\ Counted' = Counted \cup {t}
    BY <1>2, <2>1 DEF Idle, Counted
  <2>3. QED
    BY <1>1, <2>1, <2>2 DEF CountersExact, Arrives
<1>7. QED
  BY <1>3, <1>4, <1>5, <1>6 DEF LoopBody

LEMMA BodyKeepsInvariant ==
  ASSUME IInv, NEW t \in Thread, NEW allOk, NEW todo, NEW total, NEW idle, NEW at,
         Arrives(t, allOk, todo, total, idle, at),
         LoopBody(t, allOk, todo, total, idle, at),
         UNCHANGED <<m_request_stop, owner, notify, stopper, history>>
  PROVE  IInv'
BY BodyKeepsTypes, BodyKeepsResults, BodyKeepsCounters DEF IInv

(* A thread that wakes up has no batch and was idle.                       *)
LEMMA WakesKeepsInvariant ==
  ASSUME IInv, NEW t \in Thread, LoopWakes(t)
  PROVE  IInv'
<1>. USE DEF IInv
<1>1. vChecks[t] = {} /\ Rest(t) = Pending /\ pc[t] = "woken" /\ stopper # "stopped"
  BY QueueAssumption DEF LoopWakes, Batches, Rest, Places, Thread
<1>2. t \in Idle /\ t \in Counted /\ Idle \subseteq Thread /\ Counted \cup {t} = Counted
  BY <1>1 DEF Idle, Counted
<1>3. Arrives(t, fAllOk, nTodo, nTotal, nIdle - 1, pc)
  <2>1. nIdle - 1 = Cardinality(Idle \ {t})
    BY <1>1, <1>2, OneThread DEF CountersExact
  <2>2. QED
    BY <1>1, <1>2, <2>1 DEF Arrives, TypeOK, TodoExact, CountersExact, Batches, Results, Pcs
<1>4. PICK allOk, todo, total, idle, at :
        allOk = fAllOk /\ todo = nTodo /\ total = nTotal /\ idle = nIdle - 1 /\ at = pc
  OBVIOUS
<1>5. LoopBody(t, allOk, todo, total, idle, at)
  BY <1>4 DEF LoopWakes, LoopBody, LoopReturns, LoopWaits, LoopStops, LoopTakes, nNow
<1>6. Arrives(t, allOk, todo, total, idle, at)
  BY <1>3, <1>4 DEF Arrives
<1>7. QED
  BY <1>5, <1>6, BodyKeepsInvariant DEF LoopWakes

(* A thread at the top of the loop is counted, or books its batch.         *)
LEMMA TopKeepsInvariant ==
  ASSUME IInv, NEW t \in Thread, LoopTop(t)
  PROVE  IInv'
<1>. USE DEF IInv
<1>1. pc[t] = "lock" /\ stopper # "stopped" /\ t \notin Idle /\ Idle \ {t} = Idle
  BY QueueAssumption DEF LoopTop, Places, Thread, Idle
<1>2. CASE vChecks[t] = {}
  <2>1. Rest(t) = Pending /\ t \notin Counted /\ Counted \subseteq Thread
    BY <1>1, <1>2 DEF Rest, Counted
  <2>2. Arrives(t, fAllOk, nTodo, nTotal + 1, nIdle, pc)
    <3>1. stopper = "running" => nTotal + 1 = Cardinality(Counted \cup {t})
      BY <2>1, OneThread DEF CountersExact
    <3>2. /\ nTodo = Cardinality(Rest(t)) /\ nIdle = Cardinality(Idle \ {t})
          /\ pc \in [Thread -> Pcs] /\ fAllOk \in BOOLEAN
      BY <1>1, <2>1, Zenon DEF TypeOK, TodoExact, CountersExact, Pcs
    <3>2a. nTotal + 1 \in Nat
      BY SMT DEF TypeOK
    <3>3. /\ ~fAllOk => added \cap Bad # {} /\ owner # None
          /\ (\E m \in Master : pc[m] = "returned") => fAllOk
          /\ fAllOk /\ (\A m \in Master : pc[m] # "returned") =>
               (added \ Rest(t)) \cap Bad = {} /\ added \ Rest(t) \subseteq ran
      BY <2>1 DEF Batches, Results
    <3>4. QED
      BY <1>1, <3>1, <3>2, <3>2a, <3>3 DEF Arrives, Batches
  <2>3. PICK allOk, todo, total, idle, at :
          allOk = fAllOk /\ todo = nTodo /\ total = nTotal + 1 /\ idle = nIdle /\ at = pc
    OBVIOUS
  <2>4. LoopBody(t, allOk, todo, total, idle, at)
    BY <1>2, <2>3
       DEF LoopTop, LoopBody, LoopReturns, LoopWaits, LoopStops, LoopTakes, nNow
  <2>5. Arrives(t, allOk, todo, total, idle, at)
    BY <2>2, <2>3 DEF Arrives
  <2>6. QED
    BY <2>4, <2>5, BodyKeepsInvariant DEF LoopTop
<1>3. CASE vChecks[t] # {}
  <2>. DEFINE left == nTodo - Cardinality(vChecks[t])
  <2>1. left = Cardinality(Rest(t)) /\ left \in Nat
    <3>1. Rest(t) \subseteq Check /\ vChecks[t] \subseteq Check /\ Rest(t) \cap vChecks[t] = {}
          /\ Rest(t) \cup vChecks[t] = Pending
      BY WhatIsPending DEF Rest, TypeOK
    <3>2. Cardinality(Pending) = Cardinality(Rest(t)) + Cardinality(vChecks[t])
      BY <3>1, DisjointUnion
    <3>3. QED
      BY SMT, <3>1, <3>2, ChecksFinite DEF TodoExact
  <2>2. PICK at \in IF LastDone(t, left) THEN NotifyOne(Master) ELSE {pc} :
          LoopBody(t, fAllOk /\ fOk[t], left, nTotal, nIdle, at)
    BY <1>3 DEF LoopTop
  <2>3. /\ at \in [Thread -> Pcs] /\ at[t] = pc[t]
        /\ \A u \in Thread : at[u] = pc[u] \/ (u \in Master /\ pc[u] = "wait" /\ at[u] = "woken")
        /\ LastDone(t, left) => \A m \in Master : at[m] # "wait"
    <3>1. CASE at = pc /\ (LastDone(t, left) => Waiting(Master) = {})
      BY <3>1 DEF TypeOK, Pcs, Waiting
    <3>2. CASE LastDone(t, left) /\ \E m \in Waiting(Master) : at = Woken({m})
      <4>1. PICK m \in Master : pc[m] = "wait" /\ at = Woken({m})
        BY <3>2 DEF Waiting
      <4>2. owner = m
        BY <4>1 DEF Places
      <4>3. \A n \in Master \ {m} : pc[n] = "none"
        BY <4>2 DEF Places
      <4>4. t # m
        BY <1>1, <4>1
      <4>5. QED
        BY <4>1, <4>3, <4>4 DEF Woken, TypeOK, Pcs, InLoop, Thread
    <3>3. QED
      BY <2>2, <3>1, <3>2 DEF NotifyOne
  <2>4. owner # None /\ vChecks[t] \subseteq added /\ \A m \in Master : pc[m] # "returned"
    BY <1>3, WhatIsPending DEF Batches
  <2>5. \A m \in Master : at[m] = "wait" => queue = {} /\ left # 0
    <3>1. SUFFICES ASSUME NEW m \in Master, at[m] = "wait" PROVE queue = {} /\ left # 0
      OBVIOUS
    <3>2. pc[m] = "wait" /\ queue = {} /\ ~LastDone(t, left)
      BY <2>3, <3>1 DEF Batches, Thread
    <3>3. t \in Worker
      BY <1>1, <3>2 DEF Places, Thread
    <3>4. QED
      BY <3>2, <3>3 DEF LastDone
  <2>6. Arrives(t, fAllOk /\ fOk[t], left, nTotal, nIdle, at)
    <3>1. t \in Counted /\ Counted \cup {t} = Counted
      BY <1>1, <1>3 DEF Counted
    <3>2. fAllOk /\ fOk[t] =>
            (added \ Rest(t)) \cap Bad = {} /\ added \ Rest(t) \subseteq ran
      BY <1>1, <1>3, <2>4 DEF Results, Rest
    <3>3. ~(fAllOk /\ fOk[t]) => added \cap Bad # {} /\ owner # None
      BY <1>3, <2>4 DEF Results
    <3>4. (fAllOk /\ fOk[t]) \in BOOLEAN
      OBVIOUS
    <3>5. QED
      BY <1>1, <2>1, <2>3, <2>4, <2>5, <3>1, <3>2, <3>3, <3>4 DEF Arrives, TypeOK, CountersExact
  <2>7. PICK allOk, todo, total, idle :
          allOk = (fAllOk /\ fOk[t]) /\ todo = left /\ total = nTotal /\ idle = nIdle
    OBVIOUS
  <2>8. LoopBody(t, allOk, todo, total, idle, at)
    BY <2>2, <2>7 DEF LoopBody, LoopReturns, LoopWaits, LoopStops, LoopTakes, nNow
  <2>9. Arrives(t, allOk, todo, total, idle, at)
    BY <2>6, <2>7 DEF Arrives
  <2>10. QED
    BY <2>8, <2>9, BodyKeepsInvariant DEF LoopTop
<1>4. QED
  BY <1>2, <1>3

(* Evaluating a batch changes only what is known of its checks.            *)
LEMMA WorkKeepsInvariant ==
  ASSUME IInv, NEW t \in Thread, Work(t)
  PROVE  IInv'
<1>. USE DEF IInv
<1>1. PICK done \in SUBSET vChecks[t] :
        /\ IF ~fOk[t] THEN done = {}
           ELSE IF vChecks[t] \cap Bad = {} THEN done = vChecks[t]
           ELSE Cardinality(done \cap Bad) = 1
        /\ ran' = ran \cup done
        /\ fOk' = [fOk EXCEPT ![t] = @ /\ done \cap Bad = {}]
  BY DEF Work
<1>2. /\ pc[t] = "work" /\ pc' = [pc EXCEPT ![t] = "lock"] /\ vChecks[t] # {}
      /\ UNCHANGED <<queue, nIdle, nTotal, fAllOk, nTodo, m_request_stop, vChecks, owner,
                     notify, ret, stopper, added>>
  BY DEF Work, Batches, locked
<1>3. /\ \A u \in Thread \ {t} : pc'[u] = pc[u] /\ fOk'[u] = fOk[u]
      /\ pc'[t] = "lock" /\ Pending' = Pending
      /\ fOk'[t] <=> fOk[t] /\ done \cap Bad = {}
  BY <1>1, <1>2 DEF TypeOK, Pending
<1>4. vChecks[t] \subseteq added /\ vChecks[t] \subseteq Check
  BY WhatIsPending DEF Batches, TypeOK
<1>5. /\ fOk'[t] => vChecks[t] \cap Bad = {} /\ vChecks[t] \subseteq ran'
      /\ ~fOk'[t] => added \cap Bad # {}
  <2>1. Cardinality(done \cap Bad) = 1 => done \cap Bad # {}
    BY SMT, FS_EmptySet
  <2>2. QED
    BY <1>1, <1>2, <1>3, <1>4, <2>1 DEF Results
<1>6. TypeOK'
  BY <1>1, <1>2, <1>4 DEF TypeOK, InLoop
<1>7. Places'
  BY <1>2, <1>3, QueueAssumption DEF Places, Thread, InLoop
<1>8. Batches'
  BY <1>2, <1>3 DEF Batches, Thread
<1>9. TodoExact'
  BY <1>2, <1>3 DEF TodoExact
<1>10. Results'
  BY <1>1, <1>2, <1>3, <1>5 DEF Results, Thread
<1>11. ResultExact'
  BY <1>1, <1>2, <1>3 DEF ResultExact, Thread
<1>12. CountersExact'
  <2>1. Idle' = Idle /\ Counted' = Counted
    BY <1>2, <1>3 DEF Idle, Counted
  <2>2. QED
    BY <1>2, <2>1 DEF CountersExact
<1>13. QED
  BY <1>6, <1>7, <1>8, <1>9, <1>10, <1>11, <1>12

(* Notifications move sleeping workers, and the thread that notifies.      *)
LEMMA NotifiesKeepInvariant ==
  ASSUME IInv, NEW W \in SUBSET {t \in Worker : pc[t] = "wait"},
         \A t \in Thread : \/ t \in W /\ pc'[t] = "woken"
                           \/ t \notin W /\ pc'[t] = pc[t]
                           \/ t \in Master /\ pc[t] = "notify" /\ pc'[t] = "control",
         pc' \in [Thread -> Pcs],
         UNCHANGED <<locked, vChecks, fOk, owner, ret, history>>,
         stopper' = stopper \/ (stopper = "requested" /\ stopper' = "joining"),
         notify' \in {"none", "one", "all"}
  PROVE  IInv'
<1>. USE DEF IInv, locked, history
<1>1. TypeOK'
  BY DEF TypeOK, Pcs
<1>2. Places'
  BY QueueAssumption DEF Places, Thread, InLoop
<1>3. Pending' = Pending
  BY DEF Pending
<1>4. Batches'
  BY <1>3, QueueAssumption DEF Batches, Thread
<1>5. TodoExact'
  BY <1>3 DEF TodoExact
<1>6. Results'
  BY <1>3, QueueAssumption DEF Results, Thread
<1>7. ResultExact'
  BY QueueAssumption DEF ResultExact, Thread
<1>8. CountersExact'
  <2>1. Idle' = Idle /\ Counted' = Counted
    BY QueueAssumption DEF Idle, Counted, Thread
  <2>2. QED
    BY <2>1 DEF CountersExact
<1>9. QED
  BY <1>1, <1>2, <1>4, <1>5, <1>6, <1>7, <1>8

LEMMA NotifyKeepsInvariant ==
  ASSUME IInv, StopNotify \/ \E m \in Master : AddNotify(m)
  PROVE  IInv'
<1>. USE DEF IInv
<1>1. CASE StopNotify
  <2>. DEFINE W == {t \in Worker : pc[t] = "wait"}
  <2>1. /\ \A t \in Thread : \/ t \in W /\ pc'[t] = "woken"
                             \/ t \notin W /\ pc'[t] = pc[t]
        /\ pc' \in [Thread -> Pcs]
    BY <1>1 DEF StopNotify, Woken, Waiting, TypeOK, Pcs, InLoop, Thread
  <2>2. QED
    BY <1>1, <2>1, NotifiesKeepInvariant DEF StopNotify, TypeOK
<1>2. ASSUME NEW m \in Master, AddNotify(m) PROVE IInv'
  <2>1. PICK woken \in IF notify = "one" THEN NotifyOne(Worker) ELSE {Woken(Waiting(Worker))} :
          pc' = [woken EXCEPT ![m] = "control"]
    BY <1>2 DEF AddNotify
  <2>2. PICK W \in SUBSET {t \in Worker : pc[t] = "wait"} : woken = Woken(W)
    <3>1. CASE woken = pc
      <4>1. pc = Woken({})
        BY DEF Woken, TypeOK
      <4>2. QED
        BY <3>1, <4>1
    <3>2. CASE \E t \in Waiting(Worker) : woken = Woken({t})
      BY <3>2 DEF Waiting
    <3>3. CASE woken = Woken(Waiting(Worker))
      BY <3>3 DEF Waiting
    <3>4. QED
      BY <2>1, <3>1, <3>2, <3>3 DEF NotifyOne
  <2>3. /\ \A t \in Thread : \/ t \in W /\ pc'[t] = "woken"
                             \/ t \notin W /\ pc'[t] = pc[t]
                             \/ t \in Master /\ pc[t] = "notify" /\ pc'[t] = "control"
        /\ pc' \in [Thread -> Pcs]
    BY <1>2, <2>1, <2>2, QueueAssumption DEF AddNotify, Woken, TypeOK, Pcs, InLoop, Thread
  <2>4. QED
    BY <1>2, <2>3, NotifiesKeepInvariant DEF AddNotify
<1>3. QED
  BY <1>1, <1>2

LEMMA SpuriousKeepsInvariant ==
  ASSUME IInv, NEW t \in Thread, SpuriousWakeup(t)
  PROVE  IInv'
<1>. USE DEF IInv, SpuriousWakeup, locked, history
<1>1. /\ pc' \in [Thread -> Pcs] /\ pc'[t] = "woken"
      /\ \A u \in Thread \ {t} : pc'[u] = pc[u]
  BY DEF Woken, TypeOK, Pcs, InLoop
<1>2. TypeOK'
  BY <1>1 DEF TypeOK, Pcs
<1>3. Places'
  BY <1>1, QueueAssumption DEF Places, Thread, InLoop
<1>4. Pending' = Pending
  BY DEF Pending
<1>5. Batches'
  BY <1>1, <1>4 DEF Batches, Thread
<1>6. TodoExact'
  BY <1>4 DEF TodoExact
<1>7. Results' /\ ResultExact'
  BY <1>1, <1>4 DEF Results, ResultExact, Thread
<1>8. CountersExact'
  <2>1. Idle' = Idle /\ Counted' = Counted
    BY <1>1 DEF Idle, Counted
  <2>2. QED
    BY <2>1 DEF CountersExact
<1>9. QED
  BY <1>2, <1>3, <1>5, <1>6, <1>7, <1>8

(* A controller is made and gone while nothing is pending.                 *)
LEMMA ControlKeepsInvariant ==
  ASSUME IInv, NEW m \in Master, Control(m) \/ Wait(m) \/ Leave(m)
  PROVE  IInv'
<1>. USE DEF IInv, Control, Wait, Leave, locked, history
<1>1. /\ m \in Thread /\ m \notin Worker /\ pc' = [pc EXCEPT ![m] = pc'[m]]
      /\ pc[m] \notin {"lock", "wait", "woken", "work"} /\ vChecks[m] = {}
      /\ UNCHANGED <<locked, vChecks, fOk, notify, stopper>>
  BY QueueAssumption DEF Thread, TypeOK, Batches
<1>2. \A u \in Thread \ {m} : pc'[u] = pc[u]
  BY <1>1 DEF TypeOK
<1>3. /\ Control(m) => /\ pc'[m] = "control" /\ owner = None /\ owner' = m /\ pc[m] = "none"
                       /\ UNCHANGED <<ret, added, ran>>
      /\ Wait(m) => /\ pc'[m] = "lock" /\ owner = m /\ owner' = m /\ pc[m] = "control"
                    /\ UNCHANGED <<ret, added, ran>>
      /\ Leave(m) => /\ pc'[m] = "none" /\ owner = m /\ owner' = None /\ pc[m] = "returned"
                     /\ Pending = {} /\ fAllOk /\ added' = {} /\ ran' = {} /\ ret' = TRUE
  BY <1>1 DEF TypeOK, Places, Batches
<1>4. Pending' = Pending
  BY <1>1 DEF Pending
<1>5. TypeOK'
  BY <1>1, <1>3 DEF TypeOK, InLoop
<1>6. \A n \in Master \ {m} : owner # n /\ pc[n] = "none"
  BY <1>3, QueueAssumption DEF Places
<1>7. Places'
  <2>1. \A n \in Master : pc'[n] # "exited" /\ (pc'[n] # "none" <=> owner' = n)
    BY <1>1, <1>2, <1>3, <1>6, QueueAssumption DEF Places, Thread
  <2>2. \A w \in Worker : pc'[w] = pc[w]
    BY <1>1, <1>2 DEF Thread
  <2>3. stopper' # "running" => owner' = None
    BY <1>1, <1>3 DEF Places
  <2>4. QED
    BY <1>1, <2>1, <2>2, <2>3 DEF Places
<1>8. Batches'
  BY <1>1, <1>2, <1>3, <1>4, <1>6 DEF Batches, Thread
<1>9. TodoExact'
  BY <1>1, <1>4 DEF TodoExact
<1>10. Results'
  <2>1. CASE Leave(m)
    <3>1. \A u \in Thread : vChecks[u] = {}
      BY <1>3, <2>1, WhatIsPending
    <3>2. QED
      BY SMT, <1>1, <1>3, <2>1, <3>1 DEF Results
  <2>2. CASE Control(m) \/ Wait(m)
    BY <1>1, <1>2, <1>3, <1>4, <1>6, <2>2 DEF Results, Thread
  <2>3. QED
    BY <2>1, <2>2
<1>11. ResultExact'
  BY <1>2, <1>3, <1>6 DEF ResultExact, Thread
<1>12. CountersExact'
  <2>1. Idle' = Idle /\ Counted' = Counted
    BY <1>1, <1>2, <1>3 DEF Idle, Counted
  <2>2. QED
    BY <1>1, <2>1 DEF CountersExact
<1>13. QED
  BY <1>5, <1>7, <1>8, <1>9, <1>10, <1>11, <1>12

LEMMA AddKeepsInvariant ==
  ASSUME IInv, NEW m \in Master, NEW S \in SUBSET Check, Add(m, S)
  PROVE  IInv'
<1>. USE DEF IInv
<1>1. /\ m \in Thread /\ m \notin Worker /\ pc[m] = "control" /\ pc' = [pc EXCEPT ![m] = "notify"]
      /\ owner = m /\ vChecks[m] = {} /\ S \cap added = {} /\ S \cap Pending = {}
      /\ queue' = queue \cup S /\ nTodo' = nTodo + Cardinality(S) /\ added' = added \cup S
      /\ notify' \in {"one", "all"}
      /\ UNCHANGED <<nIdle, nTotal, fAllOk, m_request_stop, vChecks, fOk, owner, ret, stopper, ran>>
  BY QueueAssumption DEF Add, Thread, Batches, Places
<1>2. pc'[m] = "notify" /\ \A u \in Thread \ {m} : pc'[u] = pc[u]
  BY <1>1 DEF TypeOK
<1>3. \A n \in Master \ {m} : owner # n /\ pc[n] = "none"
  BY <1>1 DEF Places
<1>4. Pending' = Pending \cup S
  BY SMT, <1>1 DEF Pending
<1>5. nTodo' = Cardinality(Pending') /\ nTodo' \in Nat
  <2>1. Pending \subseteq Check /\ Cardinality(S) \in Nat
    BY WhatIsPending, ChecksFinite
  <2>2. QED
    BY SMT, <1>1, <1>4, <2>1, DisjointUnion DEF TodoExact, TypeOK
<1>6. TypeOK'
  BY <1>1, <1>5 DEF TypeOK
<1>7. Places'
  BY <1>1, <1>2, <1>3, QueueAssumption DEF Places, Thread, InLoop
<1>8. Batches'
  BY <1>1, <1>2, <1>3, <1>4, QueueAssumption DEF Batches, Thread
<1>9. TodoExact'
  <2>1. \A t \in Thread : vChecks[t] \subseteq Pending
    BY WhatIsPending
  <2>2. QED
    BY <1>1, <1>5, <2>1 DEF TodoExact
<1>10. Results'
  BY <1>1, <1>2, <1>3, <1>4 DEF Results, Thread
<1>11. ResultExact'
  BY <1>1, <1>2, <1>3 DEF ResultExact, Thread
<1>12. CountersExact'
  <2>1. Idle' = Idle /\ Counted' = Counted
    BY <1>1, <1>2 DEF Idle, Counted
  <2>2. QED
    BY <1>1, <2>1 DEF CountersExact
<1>13. QED
  BY <1>6, <1>7, <1>8, <1>9, <1>10, <1>11, <1>12

(* Workers are started and stopped while there is no controller, so no     *)
(* check is pending and no thread has a batch.                             *)
LEMMA StartStopKeepsInvariant ==
  ASSUME IInv, StartWorkerThreads \/ StopRequest \/ StopJoined
  PROVE  IInv'
<1>. USE DEF IInv, StartWorkerThreads, StopRequest, StopJoined
<1>1. /\ UNCHANGED <<queue, nTodo, vChecks, fOk, owner, notify, ret, added, ran>>
      /\ owner = None /\ added = {} /\ \A m \in Master : pc[m] = "none" /\ pc'[m] = "none"
  BY QueueAssumption DEF Places, Batches, history, Thread
<1>2. Pending = {} /\ Pending' = {} /\ \A t \in Thread : vChecks[t] = {}
  BY SMT, <1>1, WhatIsPending DEF Pending, Batches
<1>3. TypeOK'
  <2>1. pc' \in [Thread -> Pcs]
    BY DEF TypeOK, InLoop, Pcs
  <2>2. fAllOk' \in BOOLEAN /\ m_request_stop' \in BOOLEAN
    BY Zenon DEF TypeOK
  <2>3. nIdle' \in Nat /\ nTotal' \in Nat
    BY SMT DEF TypeOK
  <2>4. stopper' \in {"stopped", "running", "requested", "joining"}
    OBVIOUS
  <2>5. QED
    BY <1>1, <2>1, <2>2, <2>3, <2>4 DEF TypeOK, Pcs
<1>4. Places'
  BY SMT, <1>1, QueueAssumption DEF Places, InLoop, Thread
<1>5. Batches' /\ TodoExact' /\ Results' /\ ResultExact'
  <2>1. fAllOk' /\ fAllOk
    BY <1>1 DEF Batches
  <2>2. \A t \in Thread : pc'[t] # "work"
    BY <1>1, <1>2, QueueAssumption DEF Batches, TypeOK, Thread
  <2>3. QED
    BY <1>1, <1>2, <2>1, <2>2, QueueAssumption DEF Batches, TodoExact, Results, ResultExact, Thread
<1>6. CountersExact'
  <2>1. CASE StartWorkerThreads
    <3>1. Idle' = {} /\ Counted' = {}
      BY <1>1, <1>2, <2>1 DEF Idle, Counted, Thread
    <3>2. QED
      BY <2>1, <3>1, FS_EmptySet DEF CountersExact
  <2>2. CASE StopRequest
    BY <2>2 DEF CountersExact, Idle
  <2>3. CASE StopJoined
    BY <2>3 DEF CountersExact
  <2>4. QED
    BY <2>1, <2>2, <2>3
<1>7. QED
  BY <1>3, <1>4, <1>5, <1>6

-----------------------------------------------------------------------------
LEMMA InitInvariant == Init => IInv
<1>. SUFFICES ASSUME Init PROVE IInv
  OBVIOUS
<1>1. Pending = {}
  BY DEF Init, Pending
<1>2. TypeOK
  BY DEF Init, TypeOK
<1>3. Places
  BY QueueAssumption DEF Init, Places, Thread
<1>4. Batches /\ Results /\ ResultExact
  BY <1>1 DEF Init, Batches, Results, ResultExact, Thread
<1>5. TodoExact
  BY <1>1, FS_EmptySet DEF Init, TodoExact
<1>6. CountersExact
  BY DEF Init, CountersExact
<1>7. QED
  BY <1>2, <1>3, <1>4, <1>5, <1>6 DEF IInv

LEMMA NextInvariant == IInv /\ [Next]_vars => IInv'
<1>. SUFFICES ASSUME IInv, [Next]_vars PROVE IInv'
  OBVIOUS
<1>1. CASE UNCHANGED vars
  <2>. USE <1>1 DEF vars, locked, history, IInv
  <2>1. TypeOK' /\ Places'
    BY DEF TypeOK, Places
  <2>2. Pending' = Pending /\ Idle' = Idle /\ Counted' = Counted
    BY DEF Pending, Idle, Counted
  <2>3. Batches' /\ Results' /\ ResultExact'
    BY <2>2 DEF Batches, Results, ResultExact
  <2>4. TodoExact' /\ CountersExact'
    BY <2>2 DEF TodoExact, CountersExact
  <2>5. QED
    BY <2>1, <2>3, <2>4
<1>2. CASE StartWorkerThreads \/ StopRequest \/ StopJoined
  BY <1>2, StartStopKeepsInvariant
<1>3. CASE StopNotify \/ \E m \in Master : AddNotify(m)
  BY <1>3, NotifyKeepsInvariant
<1>4. CASE \E m \in Master : Control(m) \/ Wait(m) \/ Leave(m)
  BY <1>4, ControlKeepsInvariant
<1>5. CASE \E m \in Master, S \in SUBSET Check : Add(m, S)
  BY <1>5, AddKeepsInvariant
<1>6. CASE \E t \in Thread : Loop(t)
  BY <1>6, TopKeepsInvariant, WakesKeepsInvariant, WorkKeepsInvariant DEF Loop
<1>7. CASE \E t \in Thread : SpuriousWakeup(t)
  BY <1>7, SpuriousKeepsInvariant
<1>8. QED
  BY <1>1, <1>2, <1>3, <1>4, <1>5, <1>6, <1>7 DEF Next

LEMMA Invariance == Spec => []IInv
BY InitInvariant, NextInvariant, PTL DEF Spec

(* Every variable of the queue keeps its type; nTodo, nIdle and nTotal     *)
(* never go below zero.                                                    *)
THEOREM TypeCorrect == Spec => []TypeOK
<1>1. IInv => TypeOK
  BY DEF IInv
<1>2. QED
  BY <1>1, Invariance, PTL

(* CCheckQueue::Wait returns true exactly if all checks of its controller  *)
(* are good, and then all of them ran.                                     *)
THEOREM WaitIsExact == Spec => []ResultExact
<1>1. IInv => ResultExact
  BY DEF IInv
<1>2. QED
  BY <1>1, Invariance, PTL

(* ~CCheckQueueControl leaves nothing behind for the next controller.      *)
THEOREM HandoverIsClean == Spec => []CleanHandover
<1>1. IInv => CleanHandover
  <2>1. SUFFICES ASSUME IInv, owner = None
                 PROVE  queue = {} /\ nTodo = 0 /\ fAllOk /\ Pending = {}
    BY DEF CleanHandover
  <2>2. Pending = {} /\ fAllOk
    BY <2>1 DEF IInv, Batches
  <2>3. QED
    BY <2>1, <2>2, WhatIsPending, FS_EmptySet DEF IInv, TodoExact
<1>2. QED
  BY <1>1, Invariance, PTL

(* A master that sleeps on m_master_cv and was not notified is waiting for *)
(* a worker that has a batch.                                              *)
THEOREM NoLostWakeup == Spec => []MasterNotForgotten
<1>1. IInv => MasterNotForgotten
  <2>1. SUFFICES ASSUME IInv, NEW m \in Master, pc[m] = "wait"
                 PROVE  queue = {} /\ \E t \in Worker : vChecks[t] # {}
    BY DEF MasterNotForgotten
  <2>2. queue = {} /\ Pending # {}
    BY <2>1, FS_EmptySet DEF IInv, Batches, TodoExact
  <2>3. PICK t \in Thread : vChecks[t] # {}
    BY <2>2, WhatIsPending
  <2>4. t \notin Master
    BY <2>1, <2>3 DEF IInv, Batches, Places, Thread
  <2>5. QED
    BY <2>2, <2>3, <2>4 DEF Thread
<1>2. QED
  BY <1>1, Invariance, PTL

(* nTodo counts the checks that are queued or in a batch, nIdle and nTotal *)
(* the threads, for any number of workers and controllers.                 *)
THEOREM CountersAreExact == Spec => []CountersAgree
<1>1. IInv => CountersAgree
  BY DEF IInv, CountersAgree
<1>2. QED
  BY <1>1, Invariance, PTL
=============================================================================
