----------------------- MODULE ValidationSignalsProofs -----------------------
(***************************************************************************)
(* The safety properties of ValidationSignals, for any number of service   *)
(* threads, producers and subscribers and any bounds.  Most steps neither  *)
(* begin nor end a callback and leave the client and the list alone: they  *)
(* are Quiet, and are treated together.                                    *)
(***************************************************************************)
EXTENDS ValidationSignals, FiniteSetTheorems, TLAPS

Runner == Thread \ Producer
Running == {"callback", "calling", "done"}

(* The callback that runs is the one after the last finished, and those    *)
(* pending are the ones that follow, without a gap.                        *)
Serial ==
  /\ \A t \in Runner : pc[t] \in Running =>
       m_are_callbacks_running /\ current[t].n = finished + 1
  /\ \A t \in Thread : ~(t \in Runner /\ pc[t] \in Running) => current[t] = NoCallback
  /\ \A t, u \in Runner : pc[t] \in Running /\ pc[u] \in Running => t = u
  /\ generated = finished + Len(m_callbacks_pending) + One(m_are_callbacks_running)
  /\ \A i \in 1..Len(m_callbacks_pending) :
       m_callbacks_pending[i].n = finished + i + One(m_are_callbacks_running)

(* Iterators are at entries that were made, and entries belong to one      *)
(* subscriber.                                                             *)
Placed ==
  /\ \A t \in Thread : pc[t] = "calling" <=> it[t] # 0
  /\ \A t \in Thread : it[t] <= entries
  /\ \A s \in Subscriber : m_map[s] <= entries
  /\ \A r, s \in Subscriber : m_map[r] = m_map[s] /\ m_map[r] # 0 => r = s

(* What is owed lies ahead of the iterator.                                *)
Ahead ==
  /\ owed \subseteq Registered
  /\ owed # {} => \E t \in Runner : pc[t] = "calling"
  /\ \A t \in Runner : pc[t] = "calling" => \A e \in owed : e > it[t]

(* Once Shutdown has joined the service threads they do nothing more.      *)
Late == MainPcs \ {"run", "notifyAll", "join"}
Stopped == pc[Main] \in Late => \A t \in Service : pc[t] = "exited"

IInv == TypeOK /\ Serial /\ WorkScheduled /\ Placed /\ EntriesCounted /\ Ahead /\ Stopped

-----------------------------------------------------------------------------
(* Threads and where they go.                                              *)

Pcs == ServicePcs \cup ProducerPcs \cup MainPcs

(* Leaves that need more than first-order reasoning name SMT.               *)
USE Zenon

(* What the provers need to know of sequences.                             *)
LEMMA LenProperties == \A S : \A s \in Seq(S) : Len(s) \in Nat /\ (s # <<>> => Len(s) # 0)
BY SMT

LEMMA EmptySeq == \A S : <<>> \in Seq(S) /\ Len(<<>>) = 0
BY SMT

LEMMA HeadTailProperties ==
  ASSUME NEW S, NEW s \in Seq(S), s # <<>>
  PROVE  /\ Head(s) \in S /\ Tail(s) \in Seq(S) /\ Len(Tail(s)) = Len(s) - 1
         /\ \A i \in 1..(Len(s) - 1) : Tail(s)[i] = s[i + 1]
BY SMT

LEMMA Kinds ==
  /\ Thread = Service \cup Producer \cup {Main}
  /\ Main \in Thread /\ Main \notin Service /\ Main \notin Producer
  /\ \A t \in Service : t \in Thread /\ t \notin Producer /\ t # Main
  /\ \A p \in Producer : p \in Thread /\ p \notin Service /\ p # Main
  /\ Runner = Service \cup {Main}
BY ThreadAssumption DEF Thread, Runner

(* Another thread is not touched, or it waits and goes on waiting or wakes. *)
Waits == {"wait", "untilDue", "untilFuture"}
Left(old, new) ==
  old = new \/ (old \in Waits /\ new \in {"top", "untilDue"})
Others(t) == \A u \in Thread \ {t} : Left(pc[u], pc'[u])

Places(p) ==
  /\ p \in [Thread -> Pcs]
  /\ \A t \in Service : p[t] \in ServicePcs
  /\ \A t \in Producer : p[t] \in ProducerPcs
  /\ p[Main] \in MainPcs

PlacesOf(t) == IF t \in Service THEN ServicePcs ELSE IF t = Main THEN MainPcs ELSE ProducerPcs

LEMMA WokenThreads ==
  ASSUME NEW p, Places(p), NEW q \in WokenOne(p)
  PROVE  Places(q) /\ \A u \in Thread : Left(p[u], q[u])
<1>1. CASE Waiting(p) = {}
  BY <1>1 DEF WokenOne, Left
<1>2. CASE Waiting(p) # {}
  <2>1. PICK t \in Waiting(p) : q = [p EXCEPT ![t] = Awake(p[t])]
    BY <1>2 DEF WokenOne
  <2>2. t \in Service /\ t \in Thread /\ p[t] \in Waits /\ Awake(p[t]) \in {"top", "untilDue"}
    BY Kinds DEF Waiting, Awake, Waits
  <2>3. Awake(p[t]) \in Pcs /\ Awake(p[t]) \in ServicePcs
    BY <2>2 DEF Pcs, ServicePcs
  <2>4. \A u \in Thread : q[u] = IF u = t THEN Awake(p[t]) ELSE p[u]
    BY <2>1, <2>2 DEF Places
  <2>5. q \in [Thread -> Pcs]
    BY <2>1, <2>3 DEF Places
  <2>6. Places(q)
    BY <2>2, <2>3, <2>4, <2>5, Kinds DEF Places
  <2>7. QED
    BY <2>2, <2>4, <2>6 DEF Left
<1>3. QED
  BY <1>1, <1>2

LEMMA GoneThread ==
  ASSUME Places(pc), NEW t \in Thread, NEW l \in PlacesOf(t), Goto(t, l)
  PROVE  Places(pc') /\ pc'[t] = l /\ Others(t)
<1>1. l \in Pcs
  BY DEF PlacesOf, Pcs
<1>2. pc' \in [Thread -> Pcs] /\ \A u \in Thread : pc'[u] = IF u = t THEN l ELSE pc[u]
  BY <1>1 DEF Places, Goto
<1>3. QED
  BY <1>2, Kinds DEF Places, PlacesOf, Others, Left

LEMMA WokenAfter ==
  ASSUME Places(pc), NEW t \in Thread, NEW l \in PlacesOf(t) \ Waits,
         pc' \in WokenOne([pc EXCEPT ![t] = l])
  PROVE  Places(pc') /\ pc'[t] = l /\ Others(t)
<1> DEFINE p == [pc EXCEPT ![t] = l]
<1>1. l \in Pcs
  BY DEF PlacesOf, Pcs
<1>2. p \in [Thread -> Pcs] /\ \A u \in Thread : p[u] = IF u = t THEN l ELSE pc[u]
  BY <1>1 DEF Places
<1>3. Places(p)
  BY <1>2, Kinds DEF Places, PlacesOf
<1>4. Places(pc') /\ \A u \in Thread : Left(p[u], pc'[u])
  BY <1>3, WokenThreads
<1>5. QED
  BY <1>2, <1>4 DEF Others, Left

-----------------------------------------------------------------------------
(* The parts of TypeOK.                                                    *)
QueueTypes ==
  /\ process \in Nat /\ timer \in {"none", "future", "due"} /\ repeats \in Nat
  /\ stopRequested \in BOOLEAN /\ stopWhenEmpty \in BOOLEAN
ClientTypes ==
  /\ m_callbacks_pending \in Seq(ACallback)
  /\ m_are_callbacks_running \in BOOLEAN
  /\ current \in [Thread -> ACallback]
  /\ blocked \subseteq Producer
  /\ generated \in Nat /\ finished \in Nat
ListTypes ==
  /\ count \in [Entry -> Nat] /\ m_map \in [Subscriber -> 0..MaxEntry] /\ it \in [Thread -> 0..MaxEntry]
  /\ entries \in 0..MaxEntry /\ owed \subseteq Entry

LEMMA TypeParts == TypeOK <=> QueueTypes /\ Places(pc) /\ ClientTypes /\ ListTypes
BY DEF TypeOK, QueueTypes, Places, Pcs, ClientTypes, ListTypes

LEMMA TypePartsPrimed == TypeOK' <=> QueueTypes' /\ Places(pc') /\ ClientTypes' /\ ListTypes'
BY DEF TypeOK, QueueTypes, Places, Pcs, ClientTypes, ListTypes

(* A thread moves, and neither begins nor ends a callback.                 *)
Quiet(t) ==
  /\ UNCHANGED <<clientVars, listVars>>
  /\ QueueTypes' /\ Places(pc')
  /\ pc'[t] = pc[t] \/ (pc[t] \notin Running /\ pc'[t] \notin Running)
  /\ Others(t)

(* So do the steps of the scheduler.                                       *)
LEMMA LookMoves ==
  ASSUME Places(pc), NEW t \in Service, Look(t)
  PROVE  Places(pc') /\ pc'[t] \notin Running /\ Others(t)
<1>1. t \in Thread /\ PlacesOf(t) = ServicePcs
  BY Kinds DEF PlacesOf
<1>2. CASE ShouldStop
  <2>1. "exited" \in PlacesOf(t) \ Waits
    BY <1>1 DEF ServicePcs, Waits
  <2>2. QED
    BY <1>1, <1>2, <2>1, WokenAfter DEF Look, Running
<1>3. CASE ~ShouldStop
  <2>1. PICK l \in Waits : Goto(t, l)
    BY <1>3 DEF Look, Waits
  <2>2. l \in PlacesOf(t) /\ l \notin Running
    BY <1>1 DEF Waits, ServicePcs, Running
  <2>3. QED
    BY <1>1, <2>1, <2>2, GoneThread
<1>4. QED
  BY <1>2, <1>3

LEMMA ServiceQuiet ==
  ASSUME TypeOK, NEW t \in Service, ServiceStep(t) \/ SpuriousWakeup(t)
  PROVE  Quiet(t)
<1>1. t \in Thread /\ PlacesOf(t) = ServicePcs /\ Places(pc) /\ QueueTypes
  BY Kinds, TypeParts DEF PlacesOf
<1>2. CASE ServiceLook(t)
  <2>1. QueueTypes' /\ UNCHANGED <<clientVars, listVars>> /\ pc[t] \notin Running /\ Look(t)
    BY <1>1, <1>2 DEF ServiceLook, QueueTypes, queueVars, Running
  <2>2. QED
    BY <1>1, <2>1, LookMoves DEF Quiet
<1>3. CASE ServiceTimeout(t)
  <2>1. UNCHANGED <<clientVars, listVars>> /\ pc[t] \notin Running
    BY <1>3 DEF ServiceTimeout, Running
  <2>2. QueueTypes'
    BY SMT, <1>1, <1>3 DEF ServiceTimeout, QueueTypes
  <2>3. Look(t) \/ \E l \in {"process", "timer"} : Goto(t, l)
    BY <1>3 DEF ServiceTimeout
  <2>4. {"process", "timer"} \subseteq PlacesOf(t) \ Running
    BY <1>1 DEF ServicePcs, Running
  <2>5. Places(pc') /\ pc'[t] \notin Running /\ Others(t)
    BY <1>1, <2>3, <2>4, LookMoves, GoneThread
  <2>6. QED
    BY <2>1, <2>2, <2>5 DEF Quiet
<1>4. CASE Repeat(t) \/ SpuriousWakeup(t)
  <2>1. UNCHANGED <<clientVars, listVars>> /\ pc[t] \notin Running
    BY <1>4 DEF Repeat, SpuriousWakeup, Running
  <2>2. QueueTypes'
    BY SMT, <1>1, <1>4 DEF Repeat, SpuriousWakeup, QueueTypes, queueVars
  <2>3. PICK l \in {"notify", "top"} : Goto(t, l)
    BY <1>4 DEF Repeat, SpuriousWakeup
  <2>4. l \in PlacesOf(t) /\ l \notin Running
    BY <1>1 DEF ServicePcs, Running
  <2>5. QED
    BY <1>1, <2>1, <2>2, <2>3, <2>4, GoneThread DEF Quiet
<1>5. QED
  BY <1>2, <1>3, <1>4 DEF ServiceStep

LEMMA ReturnPlace ==
  ASSUME NEW t \in Thread
  PROVE  Return(t) \in PlacesOf(t) /\ Return(t) \notin Waits /\ Return(t) \notin Running
BY Kinds DEF Return, PlacesOf, ServicePcs, MainPcs, ProducerPcs, Waits, Running

LEMMA WorkQuiet ==
  ASSUME TypeOK, NEW t \in Thread,
         Notify(t) \/ MaybeScheduleProcessQueue(t) \/ Schedule(t)
  PROVE  Quiet(t)
<1>1. Places(pc) /\ QueueTypes
  BY TypeParts
<1>2. UNCHANGED <<clientVars, listVars>> /\ pc[t] \notin Running
  BY DEF Notify, MaybeScheduleProcessQueue, Schedule, Running
<1>3. QueueTypes'
  BY SMT, <1>1 DEF Notify, MaybeScheduleProcessQueue, Schedule, QueueTypes, queueVars
<1>4. CASE Notify(t)
  <2>1. Return(t) \in PlacesOf(t) \ Waits
    BY ReturnPlace
  <2>2. Places(pc') /\ pc'[t] = Return(t) /\ Others(t)
    BY <1>1, <1>4, <2>1, WokenAfter DEF Notify
  <2>3. QED
    BY <1>2, <1>3, <2>2, ReturnPlace DEF Quiet
<1>5. CASE MaybeScheduleProcessQueue(t) \/ Schedule(t)
  <2>1. PICK l \in {Return(t), "schedule", "notify"} : Goto(t, l)
    BY <1>5 DEF MaybeScheduleProcessQueue, Schedule
  <2>2. l \in PlacesOf(t) /\ l \notin Running
    BY ReturnPlace DEF PlacesOf, ServicePcs, MainPcs, ProducerPcs, Running
  <2>3. QED
    BY <1>1, <1>2, <1>3, <2>1, <2>2, GoneThread DEF Quiet
<1>6. QED
  BY <1>4, <1>5

LEMMA MainQuiet ==
  ASSUME TypeOK,
         \/ Stop \/ StopWhenDrained \/ NotifyAll \/ Join \/ JoinImporter \/ EmptyQueue
         \/ Tick \/ MockForward
  PROVE  Quiet(Main)
<1>1. Places(pc) /\ QueueTypes /\ Main \in Thread /\ PlacesOf(Main) = MainPcs
  BY TypeParts, Kinds DEF PlacesOf
<1>2. UNCHANGED <<clientVars, listVars>>
  BY DEF Stop, StopWhenDrained, NotifyAll, Join, JoinImporter, EmptyQueue, Tick, MockForward
<1>3. QueueTypes'
  BY <1>1 DEF Stop, StopWhenDrained, NotifyAll, Join, JoinImporter, EmptyQueue, Tick, MockForward,
              QueueTypes, queueVars
<1>4. CASE Stop \/ StopWhenDrained \/ Join \/ JoinImporter \/ EmptyQueue
  <2>1. PICK l \in {"notifyAll", "joinImporter", "process", "clear"} : Goto(Main, l)
    BY <1>4 DEF Stop, StopWhenDrained, Join, JoinImporter, EmptyQueue
  <2>2. l \in PlacesOf(Main) /\ l \notin Running
    BY <1>1 DEF MainPcs, Running
  <2>3. pc[Main] \notin Running
    BY <1>4 DEF Stop, StopWhenDrained, Join, JoinImporter, EmptyQueue, Running
  <2>4. QED
    BY <1>1, <1>2, <1>3, <2>1, <2>2, <2>3, GoneThread DEF Quiet
<1>5. CASE NotifyAll
  <2>1. \A l \in Pcs : Awake(l) \in Pcs /\ Left(l, Awake(l))
    BY DEF Awake, Left, Waits, Pcs, ServicePcs
  <2>2. \A u \in Thread : pc'[u] = IF u = Main THEN "join" ELSE Awake(pc[u])
    BY <1>5 DEF NotifyAll
  <2>3. pc' \in [Thread -> Pcs]
    BY <1>1, <1>5, <2>1 DEF NotifyAll, Places, Pcs, MainPcs
  <2>4. Others(Main)
    BY <1>1, <2>1, <2>2 DEF Others, Places
  <2>5. \A l \in ServicePcs : Awake(l) \in ServicePcs
    BY DEF Awake, ServicePcs
  <2>6. \A l \in ProducerPcs : Awake(l) = l
    BY DEF Awake, ProducerPcs
  <2>7. Places(pc')
    BY SMT, <1>1, <2>2, <2>3, <2>5, <2>6, Kinds DEF Places, MainPcs
  <2>8. pc[Main] \notin Running /\ pc'[Main] \notin Running
    BY <1>1, <1>5, <2>2 DEF NotifyAll, Running
  <2>9. QED
    BY <1>2, <1>3, <2>4, <2>7, <2>8 DEF Quiet
<1>6. CASE Tick \/ MockForward
  <2>1. Places(pc') /\ \A u \in Thread : Left(pc[u], pc'[u])
    <3>1. CASE MockForward
      BY <1>1, <3>1, WokenThreads DEF MockForward
    <3>2. CASE Tick
      <4>1. \A u \in Thread : pc'[u] = IF pc[u] = "untilFuture" THEN "untilDue" ELSE pc[u]
        BY <3>2 DEF Tick
      <4>2. pc' \in [Thread -> Pcs]
        BY <1>1, <3>2 DEF Tick, Places, Pcs, ServicePcs
      <4>3. QED
        BY <1>1, <4>1, <4>2, Kinds DEF Places, ServicePcs, ProducerPcs, MainPcs, Left, Waits
    <3>3. QED
      BY <1>6, <3>1, <3>2
  <2>2. Others(Main)
    BY <2>1 DEF Others
  <2>3. pc'[Main] = pc[Main]
    BY <1>1, <2>1 DEF Places, MainPcs, Left, Waits
  <2>4. QED
    BY <1>2, <1>3, <2>1, <2>2, <2>3 DEF Quiet
<1>7. QED
  BY <1>4, <1>5, <1>6

LEMMA LimitQuiet ==
  ASSUME TypeOK, NEW p \in Producer, LimitValidationInterfaceQueue(p)
  PROVE  Quiet(p)
<1>1. Places(pc) /\ QueueTypes /\ p \in Thread /\ "sync" \in PlacesOf(p)
  BY TypeParts, Kinds DEF PlacesOf, ProducerPcs
<1>2. UNCHANGED <<clientVars, listVars>> /\ QueueTypes'
  BY <1>1 DEF LimitValidationInterfaceQueue, QueueTypes, queueVars
<1>3. Places(pc') /\ pc'[p] = "sync" /\ Others(p)
  BY <1>1, GoneThread DEF LimitValidationInterfaceQueue
<1>4. QED
  BY <1>2, <1>3 DEF Quiet, LimitValidationInterfaceQueue, Running

(* A quiet step keeps all that does not speak of the queue.                *)
LEMMA SameRunners ==
  ASSUME NEW t \in Thread, Quiet(t)
  PROVE  \A u \in Thread : /\ pc'[u] \in Running <=> pc[u] \in Running
                           /\ pc[u] \in Running => pc'[u] = pc[u]
<1>1. SUFFICES ASSUME NEW u \in Thread
               PROVE  /\ pc'[u] \in Running <=> pc[u] \in Running
                      /\ pc[u] \in Running => pc'[u] = pc[u]
  OBVIOUS
<1>2. CASE pc'[u] = pc[u]
  BY <1>2
<1>3. CASE pc'[u] # pc[u]
  <2>1. CASE u = t
    BY <1>3, <2>1 DEF Quiet
  <2>2. CASE u # t
    <3>1. pc[u] \in Waits /\ pc'[u] \in {"top", "untilDue"}
      BY <1>3, <2>2 DEF Quiet, Others, Left
    <3>2. QED
      BY <3>1 DEF Waits, Running
  <2>3. QED
    BY <2>1, <2>2
<1>4. QED
  BY <1>2, <1>3

LEMMA QuietKeeps ==
  ASSUME IInv, NEW t \in Thread, Quiet(t)
  PROVE  TypeOK' /\ Serial' /\ Placed' /\ EntriesCounted' /\ Ahead'
<1>1. UNCHANGED <<m_callbacks_pending, m_are_callbacks_running, current, blocked, generated, finished>>
  BY DEF Quiet, clientVars
<1>2. UNCHANGED <<count, m_map, entries, it, owed>>
  BY DEF Quiet, listVars
<1>3. TypeOK'
  BY <1>1, <1>2, TypeParts, TypePartsPrimed DEF IInv, Quiet, ClientTypes, ListTypes
<1>4. Registered' = Registered
  BY <1>2 DEF Registered
<1>5. \A u \in Thread : (pc'[u] \in Running <=> pc[u] \in Running)
                         /\ (pc'[u] = "calling" <=> pc[u] = "calling")
  BY SameRunners DEF Running
<1>6. Serial'
  <2>1. \A u \in Runner : pc'[u] \in Running <=> pc[u] \in Running
    BY <1>5 DEF Runner
  <2>2. QED
    BY <1>1, <1>5, <2>1 DEF IInv, Serial
<1>7. Placed'
  BY <1>2, <1>5 DEF IInv, Placed
<1>8. EntriesCounted'
  BY <1>2, <1>4 DEF IInv, EntriesCounted
<1>9. Ahead'
  <2>1. \A u \in Runner : pc'[u] = "calling" <=> pc[u] = "calling"
    BY <1>5 DEF Runner
  <2>2. QED
    BY <1>2, <1>4, <2>1 DEF IInv, Ahead
<1>10. QED
  BY <1>3, <1>6, <1>7, <1>8, <1>9

-----------------------------------------------------------------------------
(* The steps of the client.                                                *)

LEMMA ListKeeps ==
  ASSUME IInv, UNCHANGED listVars,
         \A u \in Thread : pc'[u] = "calling" <=> pc[u] = "calling"
  PROVE  ListTypes' /\ Placed' /\ EntriesCounted' /\ Ahead'
<1>1. UNCHANGED <<count, m_map, entries, it, owed>>
  BY DEF listVars
<1>2. Registered' = Registered
  BY <1>1 DEF Registered
<1>3. ListTypes'
  BY <1>1, TypeParts DEF IInv, ListTypes
<1>4. Placed'
  BY <1>1 DEF IInv, Placed
<1>5. EntriesCounted'
  BY <1>1, <1>2 DEF IInv, EntriesCounted
<1>6. Ahead'
  <2>1. \A u \in Runner : pc'[u] = "calling" <=> pc[u] = "calling"
    BY DEF Runner
  <2>2. QED
    BY <1>1, <1>2, <2>1 DEF IInv, Ahead
<1>7. QED
  BY <1>3, <1>4, <1>5, <1>6

LEMMA AddKeeps ==
  ASSUME IInv, NEW p \in Producer, Enqueue(p) \/ SyncWithValidationInterfaceQueue(p)
  PROVE  TypeOK' /\ Serial' /\ Placed' /\ EntriesCounted' /\ Ahead'
<1>1. /\ QueueTypes /\ Places(pc) /\ ClientTypes /\ Serial
      /\ p \in Thread /\ p \notin Runner /\ "maybe" \in PlacesOf(p)
  BY TypeParts, Kinds DEF IInv, Runner, PlacesOf, ProducerPcs
<1>2. PICK sync \in Producer \cup {Nobody} : AddToProcessQueue(p, sync)
  BY DEF Enqueue, SyncWithValidationInterfaceQueue
<1>3. /\ UNCHANGED <<m_are_callbacks_running, current, finished>>
      /\ UNCHANGED queueVars /\ UNCHANGED listVars
      /\ generated' = generated + 1
      /\ m_callbacks_pending' = Append(m_callbacks_pending, [n |-> generated + 1, sync |-> sync])
  BY <1>2 DEF AddToProcessQueue
<1>4. Places(pc') /\ pc'[p] = "maybe" /\ \A u \in Thread \ {p} : pc'[u] = pc[u]
  BY <1>1, <1>2, GoneThread DEF AddToProcessQueue, Goto, Places
<1>5. pc[p] \in {"idle", "sync"}
  BY DEF Enqueue, SyncWithValidationInterfaceQueue
<1>6. ListTypes' /\ Placed' /\ EntriesCounted' /\ Ahead'
  <2>1. \A u \in Thread : pc'[u] = "calling" <=> pc[u] = "calling"
    BY <1>4, <1>5
  <2>2. QED
    BY <1>3, <2>1, ListKeeps
<1>7. QueueTypes'
  BY <1>1, <1>3 DEF QueueTypes, queueVars
<1>8. [n |-> generated + 1, sync |-> sync] \in ACallback
  BY SMT, <1>1 DEF ClientTypes, ACallback
<1>9. /\ m_callbacks_pending' \in Seq(ACallback)
      /\ Len(m_callbacks_pending') = Len(m_callbacks_pending) + 1
      /\ \A i \in 1..Len(m_callbacks_pending) : m_callbacks_pending'[i] = m_callbacks_pending[i]
      /\ m_callbacks_pending'[Len(m_callbacks_pending) + 1].n = generated + 1
  BY SMT, <1>1, <1>3, <1>8 DEF ClientTypes
<1>10. ClientTypes'
  <2>1. blocked' \subseteq Producer
    BY <1>1 DEF ClientTypes, Enqueue, SyncWithValidationInterfaceQueue
  <2>2. QED
    BY SMT, <1>1, <1>3, <1>9, <2>1 DEF ClientTypes
<1>11. Serial'
  <2>1. \A u \in Runner : pc'[u] = pc[u] /\ u \in Thread
    BY <1>1, <1>4 DEF Runner
  <2>2. /\ \A t \in Runner : pc'[t] \in Running =>
             m_are_callbacks_running' /\ current'[t].n = finished' + 1
        /\ \A t \in Thread : ~(t \in Runner /\ pc'[t] \in Running) => current'[t] = NoCallback
        /\ \A t, u \in Runner : pc'[t] \in Running /\ pc'[u] \in Running => t = u
    BY <1>1, <1>3, <2>1 DEF Serial
  <2>3. One(m_are_callbacks_running) \in Nat /\ Len(m_callbacks_pending) \in Nat
        /\ generated \in Nat /\ finished \in Nat
    BY <1>1, LenProperties DEF One, ClientTypes
  <2>4. generated' = finished' + Len(m_callbacks_pending') + One(m_are_callbacks_running')
    BY SMT, <1>1, <1>3, <1>9, <2>3 DEF Serial
  <2>5. ASSUME NEW i \in 1..Len(m_callbacks_pending')
        PROVE  m_callbacks_pending'[i].n = finished' + i + One(m_are_callbacks_running')
    <3>1. CASE i \in 1..Len(m_callbacks_pending)
      BY <1>1, <1>3, <1>9, <3>1 DEF Serial
    <3>2. CASE i = Len(m_callbacks_pending) + 1
      BY SMT, <1>1, <1>3, <1>9, <2>3, <3>2 DEF Serial
    <3>3. QED
      BY SMT, <1>9, <2>3, <3>1, <3>2
  <2>6. QED
    BY <2>2, <2>4, <2>5 DEF Serial
<1>12. QED
  BY <1>4, <1>6, <1>7, <1>10, <1>11, TypePartsPrimed

LEMMA ProcessKeeps ==
  ASSUME IInv, NEW t \in Thread, ProcessQueue(t)
  PROVE  TypeOK' /\ Serial' /\ Placed' /\ EntriesCounted' /\ Ahead'
<1>1. /\ QueueTypes /\ Places(pc) /\ ClientTypes /\ Serial /\ pc[t] = "process"
      /\ UNCHANGED <<queueVars, listVars, blocked, generated, finished>>
  BY TypeParts DEF IInv, ProcessQueue
<1>2. t \in Runner /\ "callback" \in PlacesOf(t)
  BY <1>1, Kinds DEF Places, ProducerPcs, Runner, PlacesOf, ServicePcs, MainPcs
<1>3. QueueTypes'
  BY <1>1 DEF QueueTypes, queueVars
<1>4. CASE m_are_callbacks_running \/ m_callbacks_pending = <<>>
  <2>1. UNCHANGED <<clientVars, listVars>> /\ Goto(t, Return(t))
    BY <1>1, <1>4 DEF ProcessQueue, clientVars
  <2>2. Places(pc') /\ pc'[t] = Return(t) /\ Others(t)
    BY <1>1, <2>1, ReturnPlace, GoneThread
  <2>3. Quiet(t)
    BY <1>1, <1>3, <2>1, <2>2, ReturnPlace DEF Quiet, Running
  <2>4. QED
    BY <2>3, QuietKeeps
<1>5. CASE ~m_are_callbacks_running /\ m_callbacks_pending # <<>>
  <2>1. /\ m_are_callbacks_running' = TRUE
        /\ current' = [current EXCEPT ![t] = Head(m_callbacks_pending)]
        /\ m_callbacks_pending' = Tail(m_callbacks_pending)
        /\ Goto(t, "callback")
    BY <1>5 DEF ProcessQueue
  <2>2. Places(pc') /\ pc'[t] = "callback" /\ \A u \in Thread \ {t} : pc'[u] = pc[u]
    BY <1>1, <1>2, <2>1, GoneThread DEF Goto, Places
  <2>3. ListTypes' /\ Placed' /\ EntriesCounted' /\ Ahead'
    <3>1. \A u \in Thread : pc'[u] = "calling" <=> pc[u] = "calling"
      BY <1>1, <2>2
    <3>2. QED
      BY <1>1, <3>1, ListKeeps
  <2> DEFINE n == Len(m_callbacks_pending)
  <2>4. /\ n \in Nat \ {0}
        /\ Head(m_callbacks_pending) = m_callbacks_pending[1]
        /\ Head(m_callbacks_pending) \in ACallback
        /\ m_callbacks_pending' \in Seq(ACallback)
        /\ Len(m_callbacks_pending') = n - 1
        /\ \A i \in 1..(n - 1) : m_callbacks_pending'[i] = m_callbacks_pending[i + 1]
    <3>1. m_callbacks_pending \in Seq(ACallback)
      BY <1>1 DEF ClientTypes
    <3>2. n \in Nat \ {0}
      BY <1>5, <3>1, LenProperties, EmptySeq
    <3>3. /\ Head(m_callbacks_pending) \in ACallback
          /\ m_callbacks_pending' \in Seq(ACallback)
          /\ Len(m_callbacks_pending') = n - 1
          /\ \A i \in 1..(n - 1) : m_callbacks_pending'[i] = m_callbacks_pending[i + 1]
      BY <1>5, <2>1, <3>1, <3>2, HeadTailProperties
    <3>4. Head(m_callbacks_pending) = m_callbacks_pending[1]
      BY SMT, <3>1, <3>2
    <3>5. QED
      BY <3>2, <3>3, <3>4
  <2>5. ClientTypes'
    BY <1>1, <2>1, <2>4 DEF ClientTypes
  <2>6. One(m_are_callbacks_running) = 0 /\ One(m_are_callbacks_running') = 1
    BY <1>5, <2>1 DEF One
  <2>7. \A u \in Runner : pc[u] \notin Running
    BY <1>1, <1>5 DEF Serial
  <2>8. Serial'
    <3>1. Head(m_callbacks_pending).n = finished + 1
      BY SMT, <1>1, <2>4, <2>6 DEF Serial, ClientTypes
    <3>2. \A u \in Runner : pc'[u] \in Running => u = t
      BY <2>2, <2>7 DEF Runner
    <3>3. current'[t].n = finished' + 1
      BY <1>1, <2>1, <3>1 DEF ClientTypes
    <3>4. \A u \in Thread : ~(u \in Runner /\ pc'[u] \in Running) => current'[u] = NoCallback
      <4>1. SUFFICES ASSUME NEW u \in Thread, ~(u \in Runner /\ pc'[u] \in Running)
                     PROVE  current'[u] = NoCallback
        OBVIOUS
      <4>2. u # t
        BY <1>2, <2>2, <4>1 DEF Running
      <4>3. current'[u] = current[u] /\ pc'[u] = pc[u]
        BY <1>1, <2>1, <2>2, <4>2 DEF ClientTypes
      <4>4. QED
        BY <1>1, <4>1, <4>3 DEF Serial
    <3>5. generated' = finished' + Len(m_callbacks_pending') + One(m_are_callbacks_running')
      BY SMT, <1>1, <2>4, <2>6 DEF Serial, ClientTypes
    <3>6. \A i \in 1..Len(m_callbacks_pending') :
            m_callbacks_pending'[i].n = finished' + i + One(m_are_callbacks_running')
      BY SMT, <1>1, <2>4, <2>6 DEF Serial, ClientTypes
    <3>7. QED
      BY <2>1, <3>2, <3>3, <3>4, <3>5, <3>6 DEF Serial
  <2>9. QED
    BY <1>3, <2>2, <2>3, <2>5, <2>8, TypePartsPrimed
<1>6. QED
  BY <1>4, <1>5

LEMMA DoneKeeps ==
  ASSUME IInv, NEW t \in Thread, CallbackDone(t)
  PROVE  TypeOK' /\ Serial' /\ Placed' /\ EntriesCounted' /\ Ahead'
<1>1. /\ QueueTypes /\ Places(pc) /\ ClientTypes /\ Serial /\ pc[t] = "done"
      /\ m_are_callbacks_running' = FALSE /\ finished' = current[t].n
      /\ current' = [current EXCEPT ![t] = NoCallback] /\ Goto(t, "maybe")
      /\ UNCHANGED <<queueVars, listVars, m_callbacks_pending, blocked, generated>>
  BY TypeParts DEF IInv, CallbackDone
<1>2. t \in Runner /\ "maybe" \in PlacesOf(t)
  BY <1>1, Kinds DEF Places, ProducerPcs, Runner, PlacesOf, ServicePcs, MainPcs
<1>3. Places(pc') /\ pc'[t] = "maybe" /\ \A u \in Thread \ {t} : pc'[u] = pc[u]
  BY <1>1, <1>2, GoneThread DEF Goto, Places
<1>4. ListTypes' /\ Placed' /\ EntriesCounted' /\ Ahead'
  <2>1. \A u \in Thread : pc'[u] = "calling" <=> pc[u] = "calling"
    BY <1>1, <1>3
  <2>2. QED
    BY <1>1, <2>1, ListKeeps
<1>5. finished' = finished + 1
  BY <1>1, <1>2 DEF Serial, Running
<1>5a. m_are_callbacks_running
  BY <1>1, <1>2 DEF Serial, Running
<1>6. NoCallback \in ACallback
  BY DEF NoCallback, ACallback
<1>7. /\ finished \in Nat /\ generated \in Nat /\ Len(m_callbacks_pending) \in Nat
      /\ m_callbacks_pending' = m_callbacks_pending /\ generated' = generated
      /\ generated = finished + Len(m_callbacks_pending) + One(m_are_callbacks_running)
      /\ \A i \in 1..Len(m_callbacks_pending) :
           m_callbacks_pending[i].n = finished + i + One(m_are_callbacks_running)
  BY <1>1, LenProperties DEF ClientTypes, Serial
<1>8. \A u \in Runner : pc'[u] \notin Running
  <2>1. SUFFICES ASSUME NEW u \in Runner, u # t PROVE pc[u] \notin Running
    BY <1>3 DEF Runner, Running
  <2>2. QED
    BY <1>1, <1>2, <2>1 DEF Serial, Running
<1>9. \A u \in Thread : current'[u] = NoCallback
  BY <1>1, <1>3, <1>8 DEF Serial, ClientTypes, Runner
<1>10. One(m_are_callbacks_running) = 1 /\ One(m_are_callbacks_running') = 0
  BY <1>1, <1>5a DEF One
<1>11. ClientTypes' /\ QueueTypes'
  <2>1. QueueTypes'
    BY <1>1 DEF QueueTypes, queueVars
  <2>2. current' \in [Thread -> ACallback]
    BY <1>1, <1>6 DEF ClientTypes
  <2>3. blocked' \subseteq Producer /\ m_callbacks_pending' \in Seq(ACallback)
    BY <1>1 DEF ClientTypes
  <2>4. finished' \in Nat /\ generated' \in Nat
    BY SMT, <1>5, <1>7
  <2>5. m_are_callbacks_running' \in BOOLEAN
    BY <1>1
  <2>6. QED
    BY <2>1, <2>2, <2>3, <2>4, <2>5 DEF ClientTypes
<1>12. generated' = finished' + Len(m_callbacks_pending') + One(m_are_callbacks_running')
  BY SMT, <1>5, <1>7, <1>10
<1>13. \A i \in 1..Len(m_callbacks_pending') :
         m_callbacks_pending'[i].n = finished' + i + One(m_are_callbacks_running')
  BY SMT, <1>5, <1>7, <1>10
<1>14. Serial'
  BY <1>8, <1>9, <1>12, <1>13 DEF Serial
<1>15. QED
  BY <1>3, <1>4, <1>11, <1>14, TypePartsPrimed

-----------------------------------------------------------------------------
(* That work is scheduled, and that threads that have exited stay so, does *)
(* not depend on the rest: it is enough what the thread that moves does.   *)

OnItsWay == {"maybe", "schedule", "process"}
Carries(t) ==
  \/ m_callbacks_pending' = <<>> \/ m_are_callbacks_running' \/ process' > 0
  \/ pc'[t] \in OnItsWay
  \/ /\ pc[t] \notin OnItsWay /\ m_callbacks_pending # <<>>
     /\ ~m_are_callbacks_running /\ ~(process > 0)
Stays(t) ==
  /\ t \in Service => pc[t] # "exited"
  /\ t = Main /\ pc'[Main] \in Late => pc[Main] \in Late \/ \A u \in Service : pc[u] = "exited"
Moves(t) == Others(t) /\ Carries(t) /\ Stays(t)

LEMMA MovesKeeps ==
  ASSUME TypeOK, WorkScheduled, Stopped, NEW t \in Thread, Moves(t)
  PROVE  WorkScheduled' /\ Stopped'
<1>1. WorkScheduled'
  <2>1. CASE \/ m_callbacks_pending' = <<>> \/ m_are_callbacks_running' \/ process' > 0
             \/ pc'[t] \in OnItsWay
    BY <2>1 DEF WorkScheduled, OnItsWay
  <2>2. CASE /\ pc[t] \notin OnItsWay /\ m_callbacks_pending # <<>>
             /\ ~m_are_callbacks_running /\ ~(process > 0)
    <3>1. PICK u \in Thread : pc[u] \in OnItsWay
      BY <2>2 DEF WorkScheduled, OnItsWay
    <3>2. pc'[u] = pc[u]
      BY <2>2, <3>1 DEF Moves, Others, Left, Waits, OnItsWay
    <3>3. QED
      BY <3>1, <3>2 DEF WorkScheduled, OnItsWay
  <2>3. QED
    BY <2>1, <2>2 DEF Moves, Carries
<1>2. Stopped'
  <2>1. SUFFICES ASSUME pc'[Main] \in Late PROVE \A u \in Service : pc'[u] = "exited"
    BY DEF Stopped
  <2>2. pc[Main] \in Late \/ \A u \in Service : pc[u] = "exited"
    <3>1. CASE t = Main
      BY <2>1, <3>1 DEF Moves, Stays
    <3>2. CASE t # Main
      BY <2>1, <3>2, Kinds DEF Moves, Others, Left, Late, MainPcs
    <3>3. QED
      BY <3>1, <3>2
  <2>3. \A u \in Service : pc[u] = "exited"
    BY <2>2 DEF Stopped
  <2>4. QED
    BY <2>3, Kinds DEF Moves, Others, Stays, Left, Waits
<1>3. QED
  BY <1>1, <1>2

LEMMA ServiceMoves ==
  ASSUME TypeOK, NEW t \in Service, ServiceStep(t) \/ SpuriousWakeup(t)
  PROVE  Moves(t)
<1>1. Others(t) /\ t # Main /\ t \in Thread
  BY ServiceQuiet, Kinds DEF Quiet
<1>2. Stays(t)
  BY <1>1 DEF Stays, ServiceStep, ServiceLook, ServiceTimeout, Repeat, SpuriousWakeup
<1>3. pc[t] \notin OnItsWay
  BY DEF OnItsWay, ServiceStep, ServiceLook, ServiceTimeout, Repeat, SpuriousWakeup
<1>4. UNCHANGED <<m_callbacks_pending, m_are_callbacks_running>>
  BY DEF ServiceStep, ServiceLook, ServiceTimeout, Repeat, SpuriousWakeup, clientVars
<1>5. process' = process \/ pc'[t] = "process"
  BY <1>1, TypeParts DEF ServiceStep, ServiceLook, ServiceTimeout, Repeat, SpuriousWakeup, queueVars,
                         Goto, Places
<1>6. Carries(t)
  <2>1. CASE pc'[t] = "process"
    BY <2>1 DEF Carries, OnItsWay
  <2>2. CASE process' = process
    BY <1>3, <1>4, <2>2 DEF Carries
  <2>3. QED
    BY <1>5, <2>1, <2>2
<1>7. QED
  BY <1>1, <1>2, <1>6 DEF Moves

LEMMA GotoOthers ==
  ASSUME TypeOK, NEW t \in Thread, NEW l, Goto(t, l)
  PROVE  Others(t) /\ pc'[t] = l
BY DEF TypeOK, Goto, Others, Left

LEMMA WorkMoves ==
  ASSUME TypeOK, NEW t \in Thread, Work(t)
  PROVE  Moves(t)
<1>1. pc[t] \in {"notify", "maybe", "schedule", "process", "callback", "calling", "done"}
  BY DEF Work, Notify, MaybeScheduleProcessQueue, Schedule, ProcessQueue, Callback, Iterate, CallbackDone
<1>2. Stays(t)
  BY <1>1 DEF Stays, Late, MainPcs
<1>3. CASE Notify(t)
  <2>1. Others(t)
    BY <1>3, WorkQuiet DEF Quiet
  <2>2. Carries(t)
    BY <1>3 DEF Notify, Carries, OnItsWay, clientVars, queueVars
  <2>3. QED
    BY <1>2, <2>1, <2>2 DEF Moves
<1>4. CASE MaybeScheduleProcessQueue(t)
  <2>1. PICK l : Goto(t, l) /\ (m_are_callbacks_running \/ m_callbacks_pending = <<>> \/ l = "schedule")
    BY <1>4 DEF MaybeScheduleProcessQueue
  <2>2. Others(t) /\ pc'[t] = l
    BY <2>1, GotoOthers
  <2>3. Carries(t)
    BY <1>4, <2>1, <2>2 DEF MaybeScheduleProcessQueue, Carries, OnItsWay, clientVars
  <2>4. QED
    BY <1>2, <2>2, <2>3 DEF Moves
<1>5. CASE Schedule(t)
  <2>1. Others(t)
    BY <1>5, GotoOthers DEF Schedule
  <2>2. process' > 0
    BY SMT, <1>5, TypeParts DEF Schedule, QueueTypes
  <2>3. QED
    BY <1>2, <2>1, <2>2 DEF Moves, Carries
<1>6. CASE ProcessQueue(t)
  <2>1. Others(t)
    BY <1>6, GotoOthers DEF ProcessQueue
  <2>2. Carries(t)
    BY SMT, <1>6 DEF ProcessQueue, Carries
  <2>3. QED
    BY <1>2, <2>1, <2>2 DEF Moves
<1>7. CASE Callback(t) \/ Iterate(t)
  <2>1. \E l : Goto(t, l)
    BY <1>7 DEF Callback, Iterate, Visit
  <2>2. Others(t)
    BY <2>1, GotoOthers
  <2>3. pc[t] \notin OnItsWay /\ UNCHANGED <<m_callbacks_pending, m_are_callbacks_running, process>>
    BY <1>7 DEF Callback, Iterate, OnItsWay, clientVars, queueVars
  <2>4. Carries(t)
    BY <2>3 DEF Carries
  <2>5. QED
    BY <1>2, <2>2, <2>4 DEF Moves
<1>8. CASE CallbackDone(t)
  <2>1. Others(t) /\ pc'[t] = "maybe"
    BY <1>8, GotoOthers DEF CallbackDone
  <2>2. QED
    BY <1>2, <2>1 DEF Moves, Carries, OnItsWay
<1>9. QED
  BY <1>3, <1>4, <1>5, <1>6, <1>7, <1>8 DEF Work

LEMMA ProducerMoves ==
  ASSUME TypeOK, NEW p \in Producer,
         \/ Enqueue(p) \/ LimitValidationInterfaceQueue(p)
         \/ SyncWithValidationInterfaceQueue(p) \/ SignalDirectly(p)
  PROVE  Moves(p)
<1>1. p \in Thread /\ Stays(p)
  BY Kinds DEF Stays
<1>2. CASE Enqueue(p) \/ SyncWithValidationInterfaceQueue(p)
  <2>1. Goto(p, "maybe")
    BY <1>2 DEF Enqueue, SyncWithValidationInterfaceQueue, AddToProcessQueue
  <2>2. QED
    BY <1>1, <2>1, GotoOthers DEF Moves, Carries, OnItsWay
<1>3. CASE LimitValidationInterfaceQueue(p) \/ SignalDirectly(p)
  <2>1. \E l : Goto(p, l)
    BY <1>3 DEF LimitValidationInterfaceQueue, SignalDirectly, Visit
  <2>2. Others(p)
    BY <1>1, <2>1, GotoOthers
  <2>3. pc[p] \notin OnItsWay /\ UNCHANGED <<m_callbacks_pending, m_are_callbacks_running, process>>
    BY <1>3 DEF LimitValidationInterfaceQueue, SignalDirectly, OnItsWay, clientVars, queueVars
  <2>4. Carries(p)
    BY <2>3 DEF Carries
  <2>5. QED
    BY <1>1, <2>2, <2>4 DEF Moves
<1>4. QED
  BY <1>2, <1>3

LEMMA MainMoves ==
  ASSUME TypeOK,
         MainStep \/ Tick \/ MockForward \/ \E s \in Subscriber : Register(s) \/ Unregister(s)
  PROVE  Moves(Main)
<1>1. Main \in Thread /\ Main \notin Service /\ Places(pc)
  BY Kinds, TypeParts
<1>2. UNCHANGED <<m_callbacks_pending, m_are_callbacks_running, process>>
  BY DEF MainStep, Stop, StopWhenDrained, NotifyAll, Join, JoinImporter, EmptyQueue, Clear, Tick,
         MockForward, Register, Unregister, clientVars, queueVars
<1>3. CASE Stop \/ StopWhenDrained \/ Join \/ JoinImporter \/ EmptyQueue \/ Clear
  <2>1. PICK l : Goto(Main, l) /\ (l \in Late => pc[Main] \in Late \/ \A u \in Service : pc[u] = "exited")
    <3>1. CASE Stop \/ StopWhenDrained
      BY <3>1 DEF Stop, StopWhenDrained, Late
    <3>2. CASE Join
      BY <3>2 DEF Join
    <3>3. CASE JoinImporter \/ EmptyQueue \/ Clear
      <4>1. pc[Main] \in Late
        BY <3>3 DEF JoinImporter, EmptyQueue, Clear, Late, MainPcs
      <4>2. QED
        BY <3>3, <4>1 DEF JoinImporter, EmptyQueue, Clear
    <3>4. QED
      BY <1>3, <3>1, <3>2, <3>3
  <2>2. Others(Main) /\ pc'[Main] = l
    BY <1>1, <2>1, GotoOthers
  <2>3. Stays(Main)
    BY <1>1, <2>1, <2>2 DEF Stays
  <2>4. pc[Main] \notin OnItsWay
    BY <1>3 DEF Stop, StopWhenDrained, Join, JoinImporter, EmptyQueue, Clear, OnItsWay
  <2>5. QED
    BY <1>2, <2>2, <2>3, <2>4 DEF Moves, Carries
<1>4. CASE NotifyAll
  <2>1. Others(Main)
    BY <1>4, MainQuiet DEF Quiet
  <2>2. pc[Main] \notin OnItsWay /\ pc'[Main] \notin Late
    BY <1>1, <1>4 DEF NotifyAll, OnItsWay, Late
  <2>3. QED
    BY <1>1, <1>2, <2>1, <2>2 DEF Moves, Carries, Stays
<1>5. CASE Tick \/ MockForward \/ \E s \in Subscriber : Register(s) \/ Unregister(s)
  <2>1. Others(Main) /\ pc'[Main] = pc[Main]
    <3>1. CASE Tick
      BY <1>1, <3>1, MainQuiet DEF Quiet, Tick, Places, MainPcs
    <3>2. CASE MockForward
      BY <1>1, <3>2, MainQuiet, WokenThreads DEF Quiet, MockForward, Left, Waits
    <3>3. CASE \E s \in Subscriber : Register(s) \/ Unregister(s)
      BY <3>3 DEF Register, Unregister, Others, Left
    <3>4. QED
      BY <1>5, <3>1, <3>2, <3>3
  <2>2. Stays(Main)
    BY <1>1, <2>1 DEF Stays
  <2>3. Carries(Main)
    BY <1>2, <2>1 DEF Carries
  <2>4. QED
    BY <2>1, <2>2, <2>3 DEF Moves
<1>6. QED
  BY <1>3, <1>4, <1>5 DEF MainStep
-----------------------------------------------------------------------------
(* The steps of the list.                                                  *)

At(e) == {t \in Thread : it[t] = e}

LEMMA AtFinite ==
  /\ IsFiniteSet(Thread)
  /\ \A S \in SUBSET Thread : IsFiniteSet(S) /\ Cardinality(S) \in Nat
<1>1. IsFiniteSet(Service \cup Producer)
  BY ThreadAssumption, FS_Union
<1>2. IsFiniteSet(Thread)
  BY <1>1, FS_AddElement DEF Thread
<1>3. QED
  BY <1>2, FS_Subset, FS_CardinalityType

(* An entry with a count is one that was made.                             *)
LEMMA CountedMade ==
  ASSUME IInv, NEW t \in Thread, NEW f \in Entry,
         Cardinality(At(f) \ {t}) + One(f \in Registered) > 0
  PROVE  f <= entries
<1>1. CASE f \in Registered
  BY <1>1 DEF IInv, Placed, Registered
<1>2. CASE f \notin Registered
  <2>1. Cardinality(At(f) \ {t}) > 0
    <3>1. One(f \in Registered) = 0 /\ Cardinality(At(f) \ {t}) \in Nat
      BY <1>2, AtFinite DEF One, At
    <3>2. QED
      BY SMT, <3>1
  <2>2. At(f) \ {t} # {}
    BY SMT, <2>1, FS_EmptySet
  <2>3. QED
    BY <2>2 DEF At, IInv, Placed
<1>3. QED
  BY <1>1, <1>2

(* What remains to be counted at an entry when one thread has moved.       *)
LEMMA MovedAt ==
  ASSUME IInv, NEW t \in Thread, NEW g \in 0..MaxEntry, it' = [it EXCEPT ![t] = g], NEW e \in Entry
  PROVE  /\ e # g => {u \in Thread : it'[u] = e} = At(e) \ {t}
         /\ e = g => Cardinality({u \in Thread : it'[u] = e}) = Cardinality(At(e) \ {t}) + 1
<1>1. \A u \in Thread : it'[u] = IF u = t THEN g ELSE it[u]
  BY TypeParts DEF IInv, ListTypes
<1>2. ASSUME e # g PROVE {u \in Thread : it'[u] = e} = At(e) \ {t}
  BY <1>1, <1>2 DEF At
<1>3. ASSUME e = g
      PROVE  Cardinality({u \in Thread : it'[u] = e}) = Cardinality(At(e) \ {t}) + 1
  <2>1. {u \in Thread : it'[u] = e} = (At(e) \ {t}) \cup {t}
    BY <1>1, <1>3 DEF At
  <2>2. IsFiniteSet(At(e) \ {t})
    BY AtFinite DEF At
  <2>3. QED
    BY <2>1, <2>2, FS_AddElement
<1>4. QED
  BY <1>2, <1>3

(* The count of an entry without that of the thread that leaves it.        *)
LEMMA LeftAt ==
  ASSUME IInv, NEW t \in Thread, NEW e \in Entry
  PROVE  count[e] = Cardinality(At(e) \ {t}) + One(e \in Registered) + One(it[t] = e)
<1>1. count[e] = Cardinality(At(e)) + One(e \in Registered)
  BY DEF IInv, EntriesCounted, At
<1>2. IsFiniteSet(At(e)) /\ Cardinality(At(e)) \in Nat /\ Cardinality(At(e) \ {t}) \in Nat
  BY AtFinite DEF At
<1>3. One(e \in Registered) \in Nat
  BY DEF One
<1>4. CASE it[t] = e
  <2>1. t \in At(e)
    BY <1>4 DEF At
  <2>2. Cardinality(At(e) \ {t}) = Cardinality(At(e)) - 1
    BY <1>2, <2>1, FS_RemoveElement
  <2>3. QED
    BY SMT, <1>1, <1>2, <1>3, <1>4, <2>2 DEF One
<1>5. CASE it[t] # e
  <2>1. At(e) \ {t} = At(e)
    BY <1>5 DEF At
  <2>2. QED
    BY SMT, <1>1, <1>2, <1>3, <1>5, <2>1 DEF One
<1>6. QED
  BY <1>4, <1>5

(* Iterate goes on: the counts stay exact, and it passes over nothing that *)
(* is owed.                                                                *)
LEMMA VisitKeeps ==
  ASSUME IInv, NEW t \in Thread, NEW c \in [Entry -> Nat], NEW e \in 0..MaxEntry,
         NEW o, o \subseteq Registered,
         \A f \in Entry : c[f] = Cardinality(At(f) \ {t}) + One(f \in Registered),
         t \in Runner => \A f \in o : f > e,
         Visit(t, c, e, o), UNCHANGED <<m_map, entries>>
  PROVE  /\ ListTypes' /\ Placed' /\ EntriesCounted' /\ owed' \subseteq o
         /\ Places(pc') /\ \A u \in Thread \ {t} : pc'[u] = pc[u] /\ it'[u] = it[u]
         /\ t \in Producer => owed' = o /\ pc'[t] \in {"idle", "calling"}
         /\ t \in Runner => \/ pc'[t] = "done" /\ owed' = {}
                            \/ pc'[t] = "calling" /\ \A f \in owed' : f > it'[t]
<1> DEFINE rest == {f \in Entry : f > e /\ c[f] > 0}
<1>1. /\ Places(pc) /\ ListTypes /\ Registered' = Registered /\ Registered \subseteq Entry
      /\ (t \in Runner <=> t \notin Producer)
  BY TypeParts DEF IInv, Registered, Runner
<1>2. \A f \in Entry : Cardinality(At(f) \ {t}) \in Nat /\ One(f \in Registered) \in Nat
  BY AtFinite DEF At, One
<1>3. t \in Runner => o \subseteq rest
  <2>1. ASSUME NEW f \in Registered PROVE f \in Entry /\ c[f] > 0
    <3>1. f \in Entry /\ One(f \in Registered) = 1
      BY <1>1 DEF One
    <3>2. c[f] = Cardinality(At(f) \ {t}) + 1 /\ Cardinality(At(f) \ {t}) \in Nat
      BY <1>2, <3>1
    <3>3. QED
      BY SMT, <3>1, <3>2
  <2>2. QED
    BY <2>1
<1>4. CASE rest = {} /\ count' = c /\ it' = [it EXCEPT ![t] = 0] /\ owed' = o
           /\ Goto(t, IF t \in Producer THEN "idle" ELSE "done")
  <2>1. PICK l \in {"idle", "done"} : Goto(t, l) /\ l = IF t \in Producer THEN "idle" ELSE "done"
    BY <1>4
  <2>2. l \in PlacesOf(t)
    BY <2>1, Kinds DEF PlacesOf, ServicePcs, MainPcs, ProducerPcs
  <2>3. Places(pc') /\ pc'[t] = l /\ \A u \in Thread \ {t} : pc'[u] = pc[u]
    BY <1>1, <2>1, <2>2, GoneThread DEF Goto, Places
  <2>4. \A u \in Thread : it'[u] = IF u = t THEN 0 ELSE it[u]
    BY <1>1, <1>4 DEF ListTypes
  <2>5. ListTypes'
    BY SMT, <1>1, <1>4, BoundAssumption DEF ListTypes
  <2>6. EntriesCounted'
    <3>1. \A f \in Entry : {u \in Thread : it'[u] = f} = At(f) \ {t}
      BY SMT, <2>4 DEF At, Entry
    <3>2. QED
      BY <1>1, <1>4, <3>1 DEF EntriesCounted
  <2>7. Placed'
    <3>1. \A u \in Thread : pc'[u] = "calling" <=> it'[u] # 0
      BY <2>1, <2>3, <2>4 DEF IInv, Placed
    <3>2. \A u \in Thread : it'[u] <= entries
      BY SMT, <1>1, <2>4 DEF IInv, Placed, ListTypes
    <3>3. QED
      BY <3>1, <3>2 DEF IInv, Placed
  <2>8. QED
    BY <1>1, <1>3, <1>4, <2>1, <2>3, <2>4, <2>5, <2>6, <2>7
<1>5. ASSUME NEW f \in rest, \A g \in rest : f <= g,
             count' = [c EXCEPT ![f] = @ + 1], it' = [it EXCEPT ![t] = f],
             owed' = IF t \in Producer THEN o ELSE o \ {f},
             Goto(t, "calling")
      PROVE  /\ ListTypes' /\ Placed' /\ EntriesCounted' /\ owed' \subseteq o
             /\ Places(pc') /\ \A u \in Thread \ {t} : pc'[u] = pc[u] /\ it'[u] = it[u]
             /\ pc'[t] = "calling" /\ (t \in Producer => owed' = o)
             /\ t \in Runner => \A g \in owed' : g > it'[t]
  <2>1. "calling" \in PlacesOf(t)
    BY Kinds DEF PlacesOf, ServicePcs, MainPcs, ProducerPcs
  <2>2. Places(pc') /\ pc'[t] = "calling" /\ \A u \in Thread \ {t} : pc'[u] = pc[u]
    BY <1>1, <1>5, <2>1, GoneThread DEF Goto, Places
  <2>3. f \in Entry /\ f \in 0..MaxEntry /\ f # 0 /\ c[f] > 0 /\ f <= entries
    <3>1. f \in Entry /\ c[f] > 0
      OBVIOUS
    <3>2. f <= entries
      BY <3>1, CountedMade
    <3>3. QED
      BY SMT, <3>1, <3>2, BoundAssumption DEF Entry
  <2>4. \A u \in Thread : it'[u] = IF u = t THEN f ELSE it[u]
    BY <1>1, <1>5 DEF ListTypes
  <2>5. owed' \subseteq o
    BY <1>5
  <2>6. ListTypes'
    <3>1. count' \in [Entry -> Nat]
      BY SMT, <1>5, <2>3
    <3>2. it' \in [Thread -> 0..MaxEntry]
      BY <1>1, <1>5, <2>3 DEF ListTypes
    <3>3. QED
      BY <1>1, <2>5, <3>1, <3>2 DEF ListTypes
  <2>7. EntriesCounted'
    <3>1. SUFFICES ASSUME NEW g \in Entry
                   PROVE  count'[g] = Cardinality({u \in Thread : it'[u] = g}) + One(g \in Registered)
      BY <1>1 DEF EntriesCounted
    <3>2. CASE g # f
      <4>1. count'[g] = c[g] /\ {u \in Thread : it'[u] = g} = At(g) \ {t}
        BY <1>5, <2>3, <3>2, MovedAt
      <4>2. QED
        BY <4>1
    <3>3. CASE g = f
      <4>1. count'[f] = c[f] + 1
        BY <1>5, <2>3
      <4>2. Cardinality({u \in Thread : it'[u] = f}) = Cardinality(At(f) \ {t}) + 1
        BY <1>5, <2>3, MovedAt
      <4>3. QED
        BY SMT, <1>2, <2>3, <3>3, <4>1, <4>2
    <3>4. QED
      BY <3>2, <3>3
  <2>8. Placed'
    <3>1. \A u \in Thread : pc'[u] = "calling" <=> it'[u] # 0
      BY <2>2, <2>3, <2>4 DEF IInv, Placed
    <3>2. \A u \in Thread : it'[u] <= entries
      BY <2>3, <2>4 DEF IInv, Placed
    <3>3. QED
      BY <3>1, <3>2 DEF IInv, Placed
  <2>9. t \in Runner => \A g \in owed' : g > it'[t]
    <3>1. SUFFICES ASSUME t \in Runner, NEW g \in o, g # f PROVE g > f
      BY <1>1, <1>5, <2>4
    <3>2. g \in rest
      BY <1>3, <3>1
    <3>3. QED
      BY SMT, <1>5, <2>3, <3>1, <3>2 DEF Entry
  <2>10. QED
    BY <1>5, <2>2, <2>4, <2>5, <2>6, <2>7, <2>8, <2>9
<1>6. QED
  BY <1>1, <1>4, <1>5 DEF Visit

(* A callback is called, goes on or ends.                                  *)
LEMMA IterationKeeps ==
  ASSUME IInv, NEW t \in Thread, NEW c \in [Entry -> Nat], NEW e \in 0..MaxEntry,
         NEW o, o \subseteq Registered,
         \A f \in Entry : c[f] = Cardinality(At(f) \ {t}) + One(f \in Registered),
         t \in Runner => pc[t] \in Running /\ \A f \in o : f > e,
         t \in Producer => o = owed,
         Visit(t, c, e, o), UNCHANGED <<queueVars, clientVars, m_map, entries>>
  PROVE  TypeOK' /\ Serial' /\ Placed' /\ EntriesCounted' /\ Ahead'
<1>1. /\ QueueTypes /\ Places(pc) /\ ClientTypes /\ ListTypes /\ Serial /\ Ahead
      /\ Registered' = Registered /\ (t \in Runner <=> t \notin Producer) /\ Runner \subseteq Thread
  BY TypeParts DEF IInv, Registered, Runner
<1>2. /\ ListTypes' /\ Placed' /\ EntriesCounted' /\ owed' \subseteq o
      /\ Places(pc') /\ \A u \in Thread \ {t} : pc'[u] = pc[u] /\ it'[u] = it[u]
      /\ t \in Producer => owed' = o /\ pc'[t] \in {"idle", "calling"}
      /\ t \in Runner => \/ pc'[t] = "done" /\ owed' = {}
                         \/ pc'[t] = "calling" /\ \A f \in owed' : f > it'[t]
  BY VisitKeeps
<1>3. UNCHANGED <<m_callbacks_pending, m_are_callbacks_running, current, blocked, generated, finished>>
  BY DEF clientVars
<1>4. TypeOK'
  <2>1. QueueTypes' /\ ClientTypes'
    BY <1>1, <1>3 DEF QueueTypes, queueVars, ClientTypes
  <2>2. QED
    BY <1>2, <2>1, TypePartsPrimed
<1>5. \A u \in Runner : pc'[u] \in Running <=> pc[u] \in Running
  <2>1. SUFFICES ASSUME t \in Runner PROVE pc'[t] \in Running
    BY <1>1, <1>2
  <2>2. QED
    BY <1>2, <2>1 DEF Running
<1>6. Serial'
  BY <1>1, <1>3, <1>5 DEF Serial
<1>7. Ahead'
  <2>1. CASE t \in Producer
    <3>1. owed' = owed /\ \A u \in Runner : pc'[u] = pc[u] /\ it'[u] = it[u]
      BY <1>1, <1>2, <2>1
    <3>2. QED
      BY <1>1, <3>1 DEF Ahead
  <2>2. CASE t \in Runner
    <3>1. \A u \in Runner : pc'[u] = "calling" => u = t
      BY <1>1, <1>5, <2>2 DEF Serial, Running
    <3>2. QED
      BY <1>1, <1>2, <2>2, <3>1 DEF Ahead
  <2>3. QED
    BY <1>1, <2>1, <2>2
<1>8. QED
  BY <1>2, <1>4, <1>6, <1>7

LEMMA FreshCounts ==
  ASSUME IInv, NEW t \in Thread, pc[t] # "calling"
  PROVE  \A f \in Entry : count[f] = Cardinality(At(f) \ {t}) + One(f \in Registered)
<1>1. it[t] = 0
  BY DEF IInv, Placed
<1>2. SUFFICES ASSUME NEW f \in Entry
               PROVE  count[f] = Cardinality(At(f) \ {t}) + One(f \in Registered)
  OBVIOUS
<1>3. At(f) \ {t} = At(f)
  BY SMT, <1>1 DEF At, Entry
<1>4. QED
  BY <1>3 DEF IInv, EntriesCounted, At

LEMMA DirectKeeps ==
  ASSUME IInv, NEW p \in Producer, SignalDirectly(p)
  PROVE  TypeOK' /\ Serial' /\ Placed' /\ EntriesCounted' /\ Ahead'
<1>1. p \in Thread /\ p \notin Runner /\ pc[p] # "calling" /\ count \in [Entry -> Nat]
      /\ owed \subseteq Registered /\ 0 \in 0..MaxEntry
  BY SMT, Kinds, TypeParts, BoundAssumption DEF IInv, Ahead, Runner, SignalDirectly, ListTypes
<1>2. Visit(p, count, 0, owed) /\ UNCHANGED <<queueVars, clientVars, m_map, entries>>
  BY DEF SignalDirectly
<1>3. QED
  BY <1>1, <1>2, FreshCounts, IterationKeeps

LEMMA IterateKeeps ==
  ASSUME IInv, NEW t \in Thread, Iterate(t)
  PROVE  TypeOK' /\ Serial' /\ Placed' /\ EntriesCounted' /\ Ahead'
<1> DEFINE c == [count EXCEPT ![it[t]] = @ - 1]
<1>1. pc[t] = "calling" /\ it[t] # 0 /\ count \in [Entry -> Nat] /\ it[t] \in 0..MaxEntry
      /\ owed \subseteq Registered
  BY TypeParts DEF IInv, Placed, Ahead, Iterate, ListTypes
<1>2. it[t] \in Entry
  BY SMT, <1>1, BoundAssumption DEF Entry
<1>3. \A f \in Entry : Cardinality(At(f) \ {t}) \in Nat /\ One(f \in Registered) \in Nat
  BY AtFinite DEF At, One
<1>4. ASSUME NEW f \in Entry
      PROVE  c[f] = Cardinality(At(f) \ {t}) + One(f \in Registered)
  <2>1. count[f] = Cardinality(At(f) \ {t}) + One(f \in Registered) + One(it[t] = f)
    BY LeftAt
  <2>2. CASE f = it[t]
    <3>1. c[f] = count[f] - 1 /\ One(it[t] = f) = 1
      BY <1>1, <1>2, <2>2 DEF One
    <3>2. QED
      BY SMT, <1>3, <2>1, <3>1
  <2>3. CASE f # it[t]
    <3>1. c[f] = count[f] /\ One(it[t] = f) = 0
      BY <1>1, <1>2, <2>3 DEF One
    <3>2. QED
      BY SMT, <1>3, <2>1, <3>1
  <2>4. QED
    BY <2>2, <2>3
<1>5. c \in [Entry -> Nat]
  <2>1. count[it[t]] - 1 \in Nat
    <3>1. c[it[t]] = count[it[t]] - 1
      BY <1>1, <1>2
    <3>2. c[it[t]] \in Nat
      <4> HIDE DEF c
      <4>1. c[it[t]] = Cardinality(At(it[t]) \ {t}) + One(it[t] \in Registered)
        BY <1>2, <1>4
      <4>2. QED
        BY SMT, <1>2, <1>3, <4>1
    <3>3. QED
      BY <3>1, <3>2
  <2>2. QED
    BY <1>1, <1>2, <2>1
<1>6. t \in Runner => pc[t] \in Running /\ \A f \in owed : f > it[t]
  BY <1>1 DEF IInv, Ahead, Running
<1>7. Visit(t, c, it[t], owed) /\ UNCHANGED <<queueVars, clientVars, m_map, entries>>
  BY DEF Iterate
<1>8. QED
  BY <1>1, <1>4, <1>5, <1>6, <1>7, IterationKeeps

LEMMA CallbackKeeps ==
  ASSUME IInv, NEW t \in Thread, Callback(t)
  PROVE  TypeOK' /\ Serial' /\ Placed' /\ EntriesCounted' /\ Ahead'
<1>1. /\ QueueTypes /\ Places(pc) /\ ClientTypes /\ ListTypes /\ Serial /\ pc[t] = "callback"
      /\ Registered \subseteq Entry
      /\ UNCHANGED <<queueVars, m_callbacks_pending, m_are_callbacks_running, current, generated, finished,
                     m_map, entries>>
  BY TypeParts DEF IInv, Registered, Callback
<1>2. t \in Runner /\ t \notin Producer /\ "done" \in PlacesOf(t)
  BY <1>1, Kinds DEF Places, ProducerPcs, Runner, PlacesOf, ServicePcs, MainPcs
<1>3. CASE blocked' = blocked \ {current[t].sync} /\ Goto(t, "done") /\ UNCHANGED <<count, it, owed>>
  <2>1. Places(pc') /\ pc'[t] = "done" /\ \A u \in Thread \ {t} : pc'[u] = pc[u]
    BY <1>1, <1>2, <1>3, GoneThread DEF Goto, Places
  <2>2. ListTypes' /\ Placed' /\ EntriesCounted' /\ Ahead'
    <3>1. \A u \in Thread : pc'[u] = "calling" <=> pc[u] = "calling"
      BY <1>1, <2>1
    <3>2. UNCHANGED listVars
      BY <1>1, <1>3 DEF listVars
    <3>3. QED
      BY <3>1, <3>2, ListKeeps
  <2>3. QueueTypes' /\ ClientTypes'
    BY <1>1, <1>3 DEF QueueTypes, queueVars, ClientTypes
  <2>4. \A u \in Runner : pc'[u] \in Running <=> pc[u] \in Running
    BY <1>1, <2>1 DEF Runner, Running
  <2>5. Serial'
    BY <1>1, <2>4 DEF Serial
  <2>6. QED
    BY <2>1, <2>2, <2>3, <2>5, TypePartsPrimed
<1>4. CASE Visit(t, count, 0, Registered) /\ UNCHANGED blocked
  <2>1. UNCHANGED <<queueVars, clientVars, m_map, entries>>
    BY <1>1, <1>4 DEF clientVars
  <2>2. count \in [Entry -> Nat] /\ 0 \in 0..MaxEntry /\ pc[t] \in Running /\ pc[t] # "calling"
    BY SMT, <1>1, BoundAssumption DEF ListTypes, Running
  <2>3. \A f \in Registered : f > 0
    BY SMT, <1>1 DEF Entry
  <2>4. QED
    BY <1>2, <1>4, <2>1, <2>2, <2>3, FreshCounts, IterationKeeps
<1>5. QED
  BY <1>3, <1>4 DEF Callback

(* Subscribers come and go.                                                *)
LEMMA SamePlaces ==
  ASSUME IInv, UNCHANGED <<queueVars, clientVars, it, pc>>
  PROVE  QueueTypes' /\ Places(pc') /\ ClientTypes' /\ Serial'
<1>1. UNCHANGED <<m_callbacks_pending, m_are_callbacks_running, current, blocked, generated, finished>>
  BY DEF clientVars
<1>2. QueueTypes' /\ Places(pc') /\ ClientTypes'
  BY <1>1, TypeParts DEF IInv, QueueTypes, queueVars, ClientTypes
<1>3. Serial'
  BY <1>1 DEF IInv, Serial
<1>4. QED
  BY <1>2, <1>3

LEMMA RegisterKeeps ==
  ASSUME IInv, NEW s \in Subscriber, Register(s)
  PROVE  TypeOK' /\ Serial' /\ Placed' /\ EntriesCounted' /\ Ahead'
<1> DEFINE n == entries + 1
<1>1. /\ ListTypes /\ Placed /\ EntriesCounted /\ Ahead
      /\ m_map[s] = 0 /\ entries < MaxEntry /\ entries' = n
      /\ count' = [count EXCEPT ![n] = 1] /\ m_map' = [m_map EXCEPT ![s] = n]
      /\ UNCHANGED <<it, owed, pc>> /\ UNCHANGED <<queueVars, clientVars, it, pc>>
  BY TypeParts DEF IInv, Register
<1>2. n \in Entry /\ n \in 0..MaxEntry /\ n # 0
  BY SMT, <1>1, BoundAssumption DEF ListTypes, Entry
<1>3. QueueTypes' /\ Places(pc') /\ ClientTypes' /\ Serial'
  BY <1>1, SamePlaces
<1>4. ListTypes'
  <2>1. count' \in [Entry -> Nat] /\ m_map' \in [Subscriber -> 0..MaxEntry]
    BY <1>1, <1>2 DEF ListTypes
  <2>2. QED
    BY <1>1, <1>2, <2>1 DEF ListTypes
<1>5. \A r \in Subscriber : m_map'[r] = IF r = s THEN n ELSE m_map[r]
  BY <1>1 DEF ListTypes
<1>6. (\A r \in Subscriber : m_map[r] # n) /\ \A t \in Thread : it[t] # n
  BY SMT, <1>1 DEF Placed, ListTypes
<1>7. Registered' = Registered \cup {n} /\ n \notin Registered
  <2>1. n \notin Registered
    BY <1>6 DEF Registered
  <2>2. ASSUME NEW e \in Entry PROVE e \in Registered' <=> e \in Registered \/ e = n
    <3>1. CASE e = n
      BY <1>5, <3>1 DEF Registered
    <3>2. CASE e # n
      BY SMT, <1>1, <1>2, <1>5, <3>2 DEF Registered, Entry
    <3>3. QED
      BY <3>1, <3>2
  <2>3. QED
    BY <1>2, <2>1, <2>2 DEF Registered
<1>8. Placed'
  <2>1. \A t \in Thread : it'[t] <= entries'
    BY SMT, <1>1 DEF Placed, ListTypes
  <2>2. \A r \in Subscriber : m_map'[r] <= entries'
    BY SMT, <1>1, <1>5 DEF Placed, ListTypes
  <2>3. \A q, r \in Subscriber : m_map'[q] = m_map'[r] /\ m_map'[q] # 0 => q = r
    BY SMT, <1>1, <1>5, <1>6 DEF Placed
  <2>4. QED
    BY <1>1, <2>1, <2>2, <2>3 DEF Placed
<1>9. EntriesCounted'
  <2>1. SUFFICES ASSUME NEW e \in Entry
                 PROVE  count'[e] = Cardinality({t \in Thread : it[t] = e}) + One(e \in Registered')
    BY <1>1 DEF EntriesCounted
  <2>2. CASE e = n
    <3>1. {t \in Thread : it[t] = e} = {}
      BY <1>6, <2>2
    <3>2. Cardinality({t \in Thread : it[t] = e}) = 0
      BY <3>1, FS_EmptySet
    <3>3. One(e \in Registered') = 1 /\ count'[e] = 1
      BY <1>1, <1>2, <1>7, <2>2 DEF One, ListTypes
    <3>4. QED
      BY SMT, <3>2, <3>3
  <2>3. CASE e # n
    <3>1. One(e \in Registered') = One(e \in Registered) /\ count'[e] = count[e]
      BY <1>1, <1>2, <1>7, <2>3 DEF One, ListTypes
    <3>2. QED
      BY <1>1, <3>1 DEF EntriesCounted
  <2>4. QED
    BY <2>2, <2>3
<1>10. Ahead'
  BY <1>1, <1>7 DEF Ahead
<1>11. QED
  BY <1>3, <1>4, <1>8, <1>9, <1>10, TypePartsPrimed

LEMMA UnregisterKeeps ==
  ASSUME IInv, NEW s \in Subscriber, Unregister(s)
  PROVE  TypeOK' /\ Serial' /\ Placed' /\ EntriesCounted' /\ Ahead'
<1> DEFINE n == m_map[s]
<1>1. /\ ListTypes /\ Placed /\ EntriesCounted /\ Ahead /\ n # 0
      /\ count' = [count EXCEPT ![n] = @ - 1] /\ m_map' = [m_map EXCEPT ![s] = 0]
      /\ owed' = owed \ {n} /\ UNCHANGED <<entries, it, pc>>
      /\ UNCHANGED <<queueVars, clientVars, it, pc>>
  BY TypeParts DEF IInv, Unregister
<1>2. n \in Entry /\ n \in Registered
  BY SMT, <1>1, BoundAssumption DEF ListTypes, Entry, Registered
<1>3. QueueTypes' /\ Places(pc') /\ ClientTypes' /\ Serial'
  BY <1>1, SamePlaces
<1>4. \A r \in Subscriber : m_map'[r] = IF r = s THEN 0 ELSE m_map[r]
  BY <1>1 DEF ListTypes
<1>5. Registered' = Registered \ {n}
  <2>1. ASSUME NEW e \in Entry PROVE e \in Registered' <=> e \in Registered /\ e # n
    <3>1. e # 0
      BY SMT DEF Entry
    <3>2. CASE e = n
      BY <1>1, <1>4, <3>1, <3>2 DEF Registered, Placed
    <3>3. CASE e # n
      BY <1>4, <3>1, <3>3 DEF Registered
    <3>4. QED
      BY <3>2, <3>3
  <2>2. QED
    BY <2>1 DEF Registered
<1>6. Cardinality({t \in Thread : it[t] = n}) \in Nat
  BY AtFinite
<1>7. count[n] = Cardinality({t \in Thread : it[t] = n}) + 1
  <2>1. One(n \in Registered) = 1
    BY <1>2 DEF One
  <2>2. QED
    BY <1>1, <1>2, <2>1 DEF EntriesCounted
<1>8. count[n] - 1 \in Nat /\ count[n] - 1 = Cardinality({t \in Thread : it[t] = n})
  BY SMT, <1>6, <1>7
<1>9. ListTypes'
  <2>1. count' \in [Entry -> Nat]
    BY <1>1, <1>2, <1>8 DEF ListTypes
  <2>2. m_map' \in [Subscriber -> 0..MaxEntry]
    BY SMT, <1>1, BoundAssumption DEF ListTypes
  <2>3. QED
    BY <1>1, <2>1, <2>2 DEF ListTypes
<1>10. Placed'
  <2>1. \A r \in Subscriber : m_map'[r] <= entries'
    BY SMT, <1>1, <1>4 DEF Placed, ListTypes
  <2>2. QED
    BY SMT, <1>1, <1>4, <2>1 DEF Placed
<1>11. EntriesCounted'
  <2>1. SUFFICES ASSUME NEW e \in Entry
                 PROVE  count'[e] = Cardinality({t \in Thread : it[t] = e}) + One(e \in Registered')
    BY <1>1 DEF EntriesCounted
  <2>2. CASE e = n
    <3>1. One(e \in Registered') = 0 /\ count'[e] = count[n] - 1
      BY <1>1, <1>2, <1>5, <2>2 DEF One, ListTypes
    <3>2. QED
      BY SMT, <1>6, <1>8, <2>2, <3>1
  <2>3. CASE e # n
    <3>1. One(e \in Registered') = One(e \in Registered) /\ count'[e] = count[e]
      BY <1>1, <1>2, <1>5, <2>3 DEF One, ListTypes
    <3>2. QED
      BY <1>1, <3>1 DEF EntriesCounted
  <2>4. QED
    BY <2>2, <2>3
<1>12. Ahead'
  BY <1>1, <1>5 DEF Ahead
<1>13. QED
  BY <1>3, <1>9, <1>10, <1>11, <1>12, TypePartsPrimed

LEMMA ClearKeeps ==
  ASSUME IInv, Clear
  PROVE  TypeOK' /\ Serial' /\ Placed' /\ EntriesCounted' /\ Ahead'
<1>1. /\ QueueTypes /\ Places(pc) /\ ClientTypes /\ ListTypes /\ Serial
      /\ Placed /\ EntriesCounted /\ Ahead /\ Stopped
      /\ pc[Main] = "clear" /\ Goto(Main, "over")
      /\ count' = [e \in Entry |-> IF e \in Registered THEN count[e] - 1 ELSE count[e]]
      /\ m_map' = [r \in Subscriber |-> 0]
      /\ UNCHANGED <<entries, it, owed>> /\ UNCHANGED <<queueVars, clientVars>>
  BY TypeParts DEF IInv, Clear
<1>2. UNCHANGED <<m_callbacks_pending, m_are_callbacks_running, current, blocked, generated, finished>>
  BY <1>1 DEF clientVars
<1>3. Main \in Thread /\ "over" \in PlacesOf(Main)
  BY Kinds DEF PlacesOf, MainPcs
<1>4. Places(pc') /\ pc'[Main] = "over" /\ \A u \in Thread \ {Main} : pc'[u] = pc[u]
  BY <1>1, <1>3, GoneThread DEF Goto, Places
<1>5. \A u \in Runner : pc[u] \notin Running /\ pc'[u] \notin Running
  <2>1. \A u \in Service : pc[u] = "exited"
    BY <1>1 DEF Stopped, Late, MainPcs
  <2>2. QED
    BY <1>1, <1>4, <2>1, Kinds DEF Running
<1>6. owed = {} /\ owed' = {}
  BY <1>1, <1>5 DEF Ahead, Running
<1>7. Registered' = {}
  BY SMT, <1>1 DEF Registered, Entry
<1>8. \A e \in Entry : count'[e] = Cardinality({t \in Thread : it[t] = e})
  <2>1. SUFFICES ASSUME NEW e \in Entry PROVE count'[e] = Cardinality({t \in Thread : it[t] = e})
    OBVIOUS
  <2>2. count[e] = Cardinality({t \in Thread : it[t] = e}) + One(e \in Registered)
    BY <1>1 DEF EntriesCounted
  <2>3. Cardinality({t \in Thread : it[t] = e}) \in Nat
    BY AtFinite
  <2>4. count'[e] = count[e] - One(e \in Registered) /\ One(e \in Registered) \in {0, 1}
    BY SMT, <1>1 DEF One, ListTypes
  <2>5. QED
    BY SMT, <2>2, <2>3, <2>4
<1>9. ListTypes'
  <2>1. count' \in [Entry -> Nat]
    <3>1. \A e \in Entry : Cardinality({t \in Thread : it[t] = e}) \in Nat
      BY AtFinite
    <3>2. \A e \in Entry : (IF e \in Registered THEN count[e] - 1 ELSE count[e]) \in Nat
      BY <1>1, <1>8, <3>1
    <3>3. QED
      BY <1>1, <3>2
  <2>2. QED
    BY SMT, <1>1, <2>1, BoundAssumption DEF ListTypes
<1>10. QueueTypes' /\ ClientTypes'
  BY <1>1, <1>2 DEF QueueTypes, queueVars, ClientTypes
<1>11. Serial'
  BY <1>1, <1>2, <1>5 DEF Serial
<1>12. Placed'
  <2>1. \A u \in Thread : pc'[u] = "calling" <=> it'[u] # 0
    BY <1>1, <1>4 DEF Placed
  <2>2. QED
    BY SMT, <1>1, <2>1 DEF Placed, ListTypes
<1>13. EntriesCounted'
  <2>1. \A e \in Entry : One(e \in Registered') = 0 /\ Cardinality({t \in Thread : it[t] = e}) \in Nat
    BY <1>7, AtFinite DEF One
  <2>2. QED
    BY SMT, <1>1, <1>8, <2>1 DEF EntriesCounted
<1>14. Ahead'
  <2>1. \A u \in Runner : pc'[u] # "calling"
    BY <1>5 DEF Running
  <2>2. QED
    BY <1>6, <2>1 DEF Ahead
<1>15. QED
  BY <1>4, <1>9, <1>10, <1>11, <1>12, <1>13, <1>14, TypePartsPrimed

-----------------------------------------------------------------------------
LEMMA InitInvariant == Init => IInv
<1>1. SUFFICES ASSUME Init PROVE IInv
  OBVIOUS
<1>2. \A t \in Thread : pc[t] \in {"top", "run", "idle"} /\ it[t] = 0 /\ current[t] = NoCallback
  BY <1>1 DEF Init
<1>3. TypeOK
  <2>1. Places(pc)
    BY <1>1, Kinds DEF Init, Places, Pcs, ServicePcs, ProducerPcs, MainPcs
  <2>2. QueueTypes
    BY <1>1 DEF Init, QueueTypes
  <2>3. NoCallback \in ACallback
    BY DEF NoCallback, ACallback
  <2>4. ClientTypes
    BY <1>1, <2>3, EmptySeq DEF Init, ClientTypes
  <2>5. ListTypes
    BY SMT, <1>1, BoundAssumption DEF Init, ListTypes, Entry
  <2>6. QED
    BY <2>1, <2>2, <2>4, <2>5, TypeParts
<1>4. \A t \in Thread : pc[t] \notin Running
  BY <1>2 DEF Running
<1>5. Serial
  BY SMT, <1>1, <1>2, <1>4, EmptySeq DEF Init, Serial, Runner, One
<1>6. WorkScheduled
  BY <1>1 DEF Init, WorkScheduled
<1>7. Placed
  BY SMT, <1>1, <1>2 DEF Init, Placed
<1>8. EntriesCounted
  <2>1. Registered = {}
    BY SMT, <1>1 DEF Init, Registered, Entry
  <2>2. \A e \in Entry : {t \in Thread : it[t] = e} = {}
    BY SMT, <1>2 DEF Entry
  <2>3. \A e \in Entry : Cardinality({t \in Thread : it[t] = e}) = 0 /\ One(e \in Registered) = 0
    BY <2>1, <2>2, FS_EmptySet DEF One
  <2>4. \A e \in Entry : count[e] = 0
    BY <1>1 DEF Init
  <2>5. QED
    BY SMT, <2>3, <2>4 DEF EntriesCounted
<1>9. Ahead
  BY <1>1, <1>4 DEF Init, Ahead, Runner, Running
<1>10. Stopped
  BY <1>2, Kinds DEF Stopped, Late, MainPcs
<1>11. QED
  BY <1>3, <1>5, <1>6, <1>7, <1>8, <1>9, <1>10 DEF IInv

LEMMA NextInvariant == IInv /\ [Next]_vars => IInv'
<1>1. SUFFICES ASSUME IInv, [Next]_vars PROVE IInv'
  OBVIOUS
<1>2. TypeOK /\ WorkScheduled /\ Stopped /\ Main \in Thread
  BY <1>1, Kinds DEF IInv
<1>3. ASSUME NEW t \in Thread, Work(t) PROVE IInv'
  <2>1. TypeOK' /\ Serial' /\ Placed' /\ EntriesCounted' /\ Ahead'
    <3>1. CASE Notify(t) \/ MaybeScheduleProcessQueue(t) \/ Schedule(t)
      BY <1>1, <1>2, <3>1, WorkQuiet, QuietKeeps
    <3>2. CASE ProcessQueue(t) \/ Callback(t)
      BY <1>1, <3>2, ProcessKeeps, CallbackKeeps
    <3>3. CASE Iterate(t) \/ CallbackDone(t)
      BY <1>1, <3>3, IterateKeeps, DoneKeeps
    <3>4. QED
      BY <1>3, <3>1, <3>2, <3>3 DEF Work
  <2>2. QED
    BY <1>2, <1>3, <2>1, WorkMoves, MovesKeeps DEF IInv
<1>4. ASSUME NEW t \in Service, ServiceStep(t) \/ SpuriousWakeup(t) PROVE IInv'
  <2>1. t \in Thread
    BY Kinds
  <2>2. TypeOK' /\ Serial' /\ Placed' /\ EntriesCounted' /\ Ahead'
    BY <1>1, <1>2, <1>4, <2>1, ServiceQuiet, QuietKeeps
  <2>3. QED
    BY <1>2, <1>4, <2>1, <2>2, ServiceMoves, MovesKeeps DEF IInv
<1>5. ASSUME NEW p \in Producer,
             \/ Enqueue(p) \/ LimitValidationInterfaceQueue(p)
             \/ SyncWithValidationInterfaceQueue(p) \/ SignalDirectly(p)
      PROVE  IInv'
  <2>1. p \in Thread
    BY Kinds
  <2>2. TypeOK' /\ Serial' /\ Placed' /\ EntriesCounted' /\ Ahead'
    BY <1>1, <1>2, <1>5, <2>1, LimitQuiet, QuietKeeps, AddKeeps, DirectKeeps
  <2>3. QED
    BY <1>2, <1>5, <2>1, <2>2, ProducerMoves, MovesKeeps DEF IInv
<1>6. ASSUME MainStep \/ Tick \/ MockForward \/ \E s \in Subscriber : Register(s) \/ Unregister(s)
      PROVE  IInv'
  <2>1. TypeOK' /\ Serial' /\ Placed' /\ EntriesCounted' /\ Ahead'
    <3>1. CASE Clear
      BY <1>1, <3>1, ClearKeeps
    <3>2. CASE \E s \in Subscriber : Register(s) \/ Unregister(s)
      BY <1>1, <3>2, RegisterKeeps, UnregisterKeeps
    <3>3. CASE \/ Stop \/ StopWhenDrained \/ NotifyAll \/ Join \/ JoinImporter \/ EmptyQueue
               \/ Tick \/ MockForward
      <4>1. Quiet(Main)
        BY <1>2, <3>3, MainQuiet
      <4>2. QED
        BY <1>1, <1>2, <4>1, QuietKeeps
    <3>4. QED
      BY <1>6, <3>1, <3>2, <3>3 DEF MainStep
  <2>2. QED
    BY <1>2, <1>6, <2>1, MainMoves, MovesKeeps DEF IInv
<1>7. CASE UNCHANGED vars
  <2>1. Quiet(Main) /\ Moves(Main)
    <3>1. UNCHANGED <<queueVars, clientVars, listVars, pc>>
      BY <1>7 DEF vars
    <3>2. Others(Main)
      BY <3>1 DEF Others, Left
    <3>3. Quiet(Main)
      BY <1>2, <3>1, <3>2, TypeParts DEF Quiet, QueueTypes, queueVars
    <3>4. UNCHANGED <<m_callbacks_pending, m_are_callbacks_running, process>>
      BY <3>1 DEF queueVars, clientVars
    <3>5. Carries(Main)
      BY <3>1, <3>4 DEF Carries
    <3>6. Stays(Main)
      BY <3>1, Kinds DEF Stays
    <3>7. QED
      BY <3>2, <3>3, <3>5, <3>6 DEF Moves
  <2>2. TypeOK' /\ Serial' /\ Placed' /\ EntriesCounted' /\ Ahead'
    BY <1>1, <1>2, <2>1, QuietKeeps
  <2>3. QED
    BY <1>2, <2>1, <2>2, MovesKeeps DEF IInv
<1>8. QED
  BY <1>1, <1>3, <1>4, <1>5, <1>6, <1>7 DEF Next

LEMMA Invariant == Spec => []IInv
BY InitInvariant, NextInvariant, PTL DEF Spec

(* Every field keeps its type, and every thread is in code it can run.     *)
THEOREM TypeCorrect == Spec => []TypeOK
BY Invariant, PTL DEF IInv

(* For any number of service threads: ProcessQueue runs one callback at a  *)
(* time, in the order of AddToProcessQueue.                                *)
THEOREM CallbacksInOrder == Spec => []InOrder
<1>1. IInv => InOrder
  BY DEF IInv, Serial, InOrder, Runner
<1>2. QED
  BY <1>1, Invariant, PTL

(* MaybeScheduleProcessQueue and ~RAIICallbacksRunning lose no callback.   *)
THEOREM NoLostWork == Spec => []WorkScheduled
BY Invariant, PTL DEF IInv

(* For any number of threads in Iterate: the reference counts of m_list    *)
(* are exact, so that no thread is at an erased entry, and no subscriber   *)
(* that stays registered is skipped.                                       *)
THEOREM SubscribersAreServed == Spec => []SubscribersServed
<1>1. IInv => DeliveredToAll
  <2>1. SUFFICES ASSUME IInv, NEW t \in Thread, pc[t] = "done" PROVE owed = {}
    BY DEF DeliveredToAll
  <2>2. t \in Runner
    BY <2>1, TypeParts, Kinds DEF IInv, Places, ProducerPcs, Runner
  <2>3. QED
    BY <2>1, <2>2 DEF IInv, Serial, Ahead, Running
<1>2. IInv => SubscribersServed
  BY <1>1 DEF IInv, SubscribersServed
<1>3. QED
  BY <1>2, Invariant, PTL
=============================================================================
