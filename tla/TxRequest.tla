------------------------------ MODULE TxRequest ------------------------------
(***************************************************************************)
(* What TxRequestTracker promises its caller (the operations of            *)
(* txrequest.h), without the sub-states and indexes by which it is         *)
(* implemented: which transaction may be requested from which peer, when.  *)
(* TxRequestTracker.tla models the implementation and implements this.     *)
(*                                                                         *)
(* A key is a pair of a peer and a txhash.  GetRequestable is told the     *)
(* time, which may go back.  The order in which it lists transactions (by  *)
(* sequence number) and the txid/wtxid flag are left out.                  *)
(***************************************************************************)
EXTENDS TxAnnouncements

(* PriorityComputer: the top bit is the preferred flag.                    *)
Better(k, a, l, b) ==
  \/ a.preferred /\ ~b.preferred
  \/ a.preferred = b.preferred /\ Hash[k] > Hash[l]

VARIABLES
  ann,      \* the announcement of each key
  answer,   \* what GetRequestable returned, if that was the last call
  asked     \* history: the keys requested since they were last announced

vars == <<ann, answer, asked>>

State(k) == ann[k].state

(* Only COMPLETED announcements are left for the txhash of k.              *)
Finished(A, k) == \A p \in Peer : A[<<p, k[2]>>].state \in {"NONE", "COMPLETED"}
Forgotten(A) == [k \in Key |-> IF Finished(A, k) THEN NoAnnouncement ELSE A[k]]

Becomes(A) == ann' = A /\ asked' = {k \in asked : A[k].state # "NONE"}

Init ==
  /\ ann = [k \in Key |-> NoAnnouncement]
  /\ answer = NoAnswer
  /\ asked = {}

ReceivedInv(k, preferred, reqtime) ==
  /\ Becomes(IF State(k) # "NONE" THEN ann
             ELSE [ann EXCEPT ![k] = [state |-> "CANDIDATE", time |-> reqtime,
                                      preferred |-> preferred]])
  /\ answer' = NoAnswer

DisconnectedPeer(p) ==
  /\ Becomes(Forgotten([k \in Key |-> IF k[1] = p THEN NoAnnouncement ELSE ann[k]]))
  /\ answer' = NoAnswer

ForgetTxHash(t) ==
  /\ Becomes([k \in Key |-> IF k[2] = t THEN NoAnnouncement ELSE ann[k]])
  /\ answer' = NoAnswer

(* Requests that have expired are COMPLETED.  What is left and can be      *)
(* requested from the peer: candidates whose time has come, not requested  *)
(* from another peer, and the best choice among those.                     *)
Expired(now) == {k \in Key : State(k) = "REQUESTED" /\ ann[k].time <= now}
AfterExpiry(now) ==
  Forgotten([k \in Key |-> IF k \in Expired(now) THEN [ann[k] EXCEPT !.state = "COMPLETED"]
                           ELSE ann[k]])
Ready(A, now) == {k \in Key : A[k].state = "CANDIDATE" /\ A[k].time <= now}
Requestable(A, p, now) ==
  {k \in Ready(A, now) :
     /\ k[1] = p
     /\ \A q \in Peer : A[<<q, k[2]>>].state # "REQUESTED"
     /\ \A l \in Ready(A, now) : l[2] = k[2] /\ l # k => Better(k, A[k], l, A[l])}

GetRequestable(p, now) ==
  LET A == AfterExpiry(now)
  IN  /\ Becomes(A)
      /\ answer' = [peer |-> {p}, requestable |-> Requestable(A, p, now), expired |-> Expired(now)]

RequestedTx(k, expiry) ==
  /\ IF State(k) # "CANDIDATE" THEN UNCHANGED <<ann, asked>>
     ELSE /\ ann' = [l \in Key |->
                       IF l = k THEN [ann[k] EXCEPT !.state = "REQUESTED", !.time = expiry]
                       ELSE IF l[2] = k[2] /\ State(l) = "REQUESTED"
                            THEN [ann[l] EXCEPT !.state = "COMPLETED"]
                       ELSE ann[l]]
          /\ asked' = asked \cup {k}
  /\ answer' = NoAnswer

ReceivedResponse(k) ==
  /\ Becomes(IF State(k) \in {"NONE", "COMPLETED"} THEN ann
             ELSE Forgotten([ann EXCEPT ![k].state = "COMPLETED"]))
  /\ answer' = NoAnswer

Next ==
  \/ \E k \in Key, preferred \in BOOLEAN, reqtime \in Time :
       <<k, preferred>> \in Announces /\ ReceivedInv(k, preferred, reqtime)
  \/ \E p \in Peer : DisconnectedPeer(p)
  \/ \E t \in TxHash : ForgetTxHash(t)
  \/ \E p \in Peer, now \in Time : GetRequestable(p, now)
  \/ \E k \in Announced, expiry \in Time : RequestedTx(k, expiry)
  \/ \E k \in Announced : ReceivedResponse(k)

Spec == Init /\ [][Next]_vars

-----------------------------------------------------------------------------
Announcement == [state : {"NONE", "CANDIDATE", "REQUESTED", "COMPLETED"}, time : Int,
                 preferred : BOOLEAN]

(* The types of the tracker's state.                                       *)
TypeOK ==
  /\ ann \in [Key -> Announcement]
  /\ answer \in [peer : SUBSET Peer, requestable : SUBSET Key, expired : SUBSET Key]
  /\ asked \subseteq Key

(* At most one request for a txhash is outstanding, whatever the caller    *)
(* requests.                                                               *)
OneOutstanding ==
  \A k, l \in Key : State(k) = "REQUESTED" /\ State(l) = "REQUESTED" /\ k[2] = l[2] => k = l

(* A transaction is never offered for request to a peer from which it was  *)
(* requested before, unless the announcement was forgotten in between.     *)
NeverAskedTwice == answer.requestable \cap asked = {}

(* GetRequestable never offers a transaction that is being requested from  *)
(* some peer.                                                              *)
NoSecondCopy ==
  \A k \in answer.requestable : \A l \in Key : l[2] = k[2] => State(l) # "REQUESTED"

(* Announcements that failed are not kept once they are the only ones left *)
(* for their txhash.                                                       *)
NothingLingers == \A k \in Key : State(k) # "NONE" => ~Finished(ann, k)
=============================================================================
