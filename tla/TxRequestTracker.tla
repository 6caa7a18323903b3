-------------------------- MODULE TxRequestTracker --------------------------
(***************************************************************************)
(* TxRequestTracker::Impl (txrequest.cpp).  m_index holds at most one      *)
(* announcement per peer and txhash; CANDIDATE is split into DELAYED,      *)
(* READY and BEST so that the peer to ask next is always marked.  The      *)
(* three orders of m_index are what the code walks along: here the element *)
(* it would find in an order is described by the key it has there.         *)
(*                                                                         *)
(* A tracker is a record [m_index |-> , m_peerinfo |-> ] and an operation  *)
(* maps one to the next.                                                   *)
(***************************************************************************)
EXTENDS TxAnnouncements

VARIABLES tracker, answer, asked
vars == <<tracker, answer, asked>>

Candidate == {"CANDIDATE_DELAYED", "CANDIDATE_READY", "CANDIDATE_BEST"}

IsSelected(a) == a.state \in {"CANDIDATE_BEST", "REQUESTED"}
IsWaiting(a) == a.state \in {"CANDIDATE_DELAYED", "REQUESTED"}
IsSelectable(a) == a.state \in {"CANDIDATE_READY", "CANDIDATE_BEST"}

(* PriorityComputer, as an order: k goes before l.                         *)
Priority(s, k, l) ==
  LET a == s.m_index[k].preferred
      b == s.m_index[l].preferred
  IN  (a /\ ~b) \/ (a = b /\ Hash[k] > Hash[l])

(* The announcements of the txhash of k that are in a state.               *)
Same(s, k, state) == {l \in Key : l[2] = k[2] /\ s.m_index[l].state = state}

-----------------------------------------------------------------------------
(* Erase and Modify keep m_peerinfo up to date.                            *)
One(condition) == IF condition THEN 1 ELSE 0
Modify(s, k, a) ==
  LET old == s.m_index[k]
  IN  [s EXCEPT !.m_index[k] = a,
                !.m_peerinfo[k[1]].m_total = @ - One(old.state # "NONE") + One(a.state # "NONE"),
                !.m_peerinfo[k[1]].m_completed =
                   @ - One(old.state = "COMPLETED") + One(a.state = "COMPLETED"),
                !.m_peerinfo[k[1]].m_requested =
                   @ - One(old.state = "REQUESTED") + One(a.state = "REQUESTED")]
Erase(s, k) == Modify(s, k, NoAnnouncement)
SetState(s, k, state) == Modify(s, k, [s.m_index[k] EXCEPT !.state = state])

RECURSIVE EraseAll(_, _)
EraseAll(s, K) ==
  IF K = {} THEN s ELSE LET k == CHOOSE k \in K : TRUE IN EraseAll(Erase(s, k), K \ {k})

(* In ByTxHash the READY announcements of a txhash are sorted by priority  *)
(* and are followed by the BEST or REQUESTED one.                          *)
BestReady(s, k) ==
  {l \in Same(s, k, "CANDIDATE_READY") :
     \A m \in Same(s, k, "CANDIDATE_READY") \ {l} : Priority(s, l, m)}

PromoteCandidateReady(s, k) ==
  LET r == SetState(s, k, "CANDIDATE_READY")
      best == Same(r, k, "CANDIDATE_BEST")
  IN  IF k \notin BestReady(r, k) \/ Same(r, k, "REQUESTED") # {} THEN r
      ELSE IF best = {} THEN SetState(r, k, "CANDIDATE_BEST")
      ELSE LET old == CHOOSE l \in best : TRUE
           IN  IF Priority(r, k, old)
               THEN SetState(SetState(r, old, "CANDIDATE_READY"), k, "CANDIDATE_BEST")
               ELSE r

ChangeAndReselect_NoReselect(s, k, state) == SetState(s, k, state)
ChangeAndReselect(s, k, state) ==
  LET next == BestReady(s, k)
  IN  IF IsSelected(s.m_index[k]) /\ next # {}
      THEN SetState(SetState(s, CHOOSE l \in next : TRUE, "CANDIDATE_BEST"), k, state)
      ELSE SetState(s, k, state)

IsOnlyNonCompleted(s, k) ==
  \A l \in Key \ {k} : l[2] = k[2] => s.m_index[l].state \in {"NONE", "COMPLETED"}

MakeCompleted(s, k) ==
  IF s.m_index[k].state = "COMPLETED" THEN s
  ELSE IF IsOnlyNonCompleted(s, k)
       THEN EraseAll(s, {l \in Key : l[2] = k[2] /\ s.m_index[l].state # "NONE"})
  ELSE ChangeAndReselect(s, k, "COMPLETED")

(* SetTimePoint: the two loops, which take announcements in the order of   *)
(* time from the past on, and from the future back.                        *)
Waiting(s) == {k \in Key : IsWaiting(s.m_index[k])}
Selectable(s) == {k \in Key : IsSelectable(s.m_index[k])}
Due(s, now) == {k \in Waiting(s) : s.m_index[k].time <= now}
Early(s, now) == {k \in Selectable(s) : s.m_index[k].time > now}

RECURSIVE PassDue(_, _)
PassDue(s, now) ==
  IF Due(s, now) = {} THEN s
  ELSE LET k == CHOOSE k \in Due(s, now) : \A l \in Due(s, now) : s.m_index[k].time <= s.m_index[l].time
       IN  PassDue(IF s.m_index[k].state = "REQUESTED" THEN MakeCompleted(s, k)
                   ELSE PromoteCandidateReady(s, k), now)
RECURSIVE DelayEarly(_, _)
DelayEarly(s, now) ==
  IF Early(s, now) = {} THEN s
  ELSE LET k == CHOOSE k \in Early(s, now) : \A l \in Early(s, now) : s.m_index[k].time >= s.m_index[l].time
       IN  DelayEarly(ChangeAndReselect(s, k, "CANDIDATE_DELAYED"), now)
SetTimePoint_Forward(s, now) == PassDue(s, now)
SetTimePoint(s, now) == DelayEarly(PassDue(s, now), now)
RECURSIVE DisconnectAll(_, _)
DisconnectAll(s, K) ==
  IF K = {} THEN s
  ELSE LET k == CHOOSE k \in K : TRUE
           c == MakeCompleted(s, k)
       IN  DisconnectAll(IF c.m_index[k].state = "NONE" THEN c ELSE Erase(c, k), K \ {k})

-----------------------------------------------------------------------------
Init ==
  /\ tracker = [m_index    |-> [k \in Key |-> NoAnnouncement],
                m_peerinfo |-> [p \in Peer |-> [m_total |-> 0, m_completed |-> 0, m_requested |-> 0]]]
  /\ answer = NoAnswer
  /\ asked = {}

State(k) == tracker.m_index[k].state
Becomes(s) == tracker' = s /\ asked' = {k \in asked : s.m_index[k].state # "NONE"}

(* The unique ByPeer index refuses a second announcement of a key.         *)
ReceivedInv(k, preferred, reqtime) ==
  /\ Becomes(IF State(k) # "NONE" THEN tracker
             ELSE Modify(tracker, k, [state |-> "CANDIDATE_DELAYED", time |-> reqtime,
                                      preferred |-> preferred]))
  /\ answer' = NoAnswer

DisconnectedPeer(p) ==
  /\ Becomes(DisconnectAll(tracker, {k \in Key : k[1] = p /\ State(k) # "NONE"}))
  /\ answer' = NoAnswer

ForgetTxHash(t) ==
  /\ Becomes(EraseAll(tracker, {k \in Key : k[2] = t /\ State(k) # "NONE"}))
  /\ answer' = NoAnswer

GetRequestable(p, now) ==
  LET s == SetTimePoint(tracker, now)
  IN  /\ Becomes(s)
      /\ answer' = [peer |-> {p},
                    requestable |-> {k \in Key : k[1] = p /\ s.m_index[k].state = "CANDIDATE_BEST"},
                    expired |-> {k \in Due(tracker, now) : State(k) = "REQUESTED"}]

(* A call for a candidate that is not BEST displaces the one that is       *)
(* selected.                                                               *)
Displaced(k) ==
  LET best == Same(tracker, k, "CANDIDATE_BEST")
      requested == Same(tracker, k, "REQUESTED")
  IN  IF State(k) = "CANDIDATE_BEST" THEN tracker
      ELSE IF best # {} THEN SetState(tracker, CHOOSE l \in best : TRUE, "CANDIDATE_READY")
      ELSE IF requested # {} THEN SetState(tracker, CHOOSE l \in requested : TRUE, "COMPLETED")
      ELSE tracker
RequestedTx(k, expiry) ==
  /\ IF State(k) \notin Candidate THEN UNCHANGED <<tracker, asked>>
     ELSE /\ tracker' = Modify(Displaced(k), k, [tracker.m_index[k] EXCEPT !.state = "REQUESTED",
                                                                         !.time = expiry])
          /\ asked' = asked \cup {k}
  /\ answer' = NoAnswer

ReceivedResponse(k) ==
  /\ Becomes(IF State(k) = "NONE" THEN tracker ELSE MakeCompleted(tracker, k))
  /\ answer' = NoAnswer

Next ==
  \/ \E k \in Key, preferred \in BOOLEAN, reqtime \in Time :
       <<k, preferred>> \in Announces /\ ReceivedInv(k, preferred, reqtime)
  \/ \E p \in Peer : DisconnectedPeer(p)
  \/ \E t \in TxHash : ForgetTxHash(t)
  \/ \E p \in Peer, now \in Time : GetRequestable(p, now)
  \/ \E k \in Announced, expiry \in Time : RequestedTx(k, expiry)
  \/ \E k \in Announced : ReceivedResponse(k)

Spec == Init /\ [][Next]_vars

-----------------------------------------------------------------------------
Count(p, S) == Cardinality({k \in Key : k[1] = p /\ State(k) \in S})

(* The per-peer statistics, which CountInFlight and CountCandidates answer *)
(* from and net_processing limits requests by, are those of m_index.       *)
PeerInfoExact ==
  \A p \in Peer :
    tracker.m_peerinfo[p] = [m_total     |-> Count(p, Candidate \cup {"REQUESTED", "COMPLETED"}),
                             m_completed |-> Count(p, {"COMPLETED"}),
                             m_requested |-> Count(p, {"REQUESTED"})]

(* A tracked txhash has a candidate or a request; at most one announcement *)
(* is selected, exactly one if any is READY; and the BEST one is better    *)
(* than every READY one.                                                   *)
TxHashInfoSane ==
  \A k \in Key : State(k) # "NONE" =>
    LET selected == Same(tracker, k, "CANDIDATE_BEST") \cup Same(tracker, k, "REQUESTED")
        ready == Same(tracker, k, "CANDIDATE_READY")
    IN  /\ selected \cup ready \cup Same(tracker, k, "CANDIDATE_DELAYED") # {}
        /\ Cardinality(selected) <= 1
        /\ ready # {} => selected # {}
        /\ \A b \in Same(tracker, k, "CANDIDATE_BEST"), r \in ready : Priority(tracker, b, r)

(* SanityCheck of the code, which recomputes both from the index: whatever *)
(* the seven operations maintain step by step is what a recount gives.     *)
SanityCheck == PeerInfoExact /\ TxHashInfoSane

(* After any sequence of calls, with the clock running forward or back,    *)
(* the tracker gives the answers of TxRequest and keeps what it promises.  *)
Promise == INSTANCE TxRequest WITH
  ann <- [k \in Key |-> IF State(k) \in Candidate
                        THEN [tracker.m_index[k] EXCEPT !.state = "CANDIDATE"]
                        ELSE tracker.m_index[k]]
KeepsPromise == Promise!Spec
=============================================================================
