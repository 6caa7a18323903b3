--------------------------- MODULE TxRequestProofs ---------------------------
(* Proofs about TxRequest, for any set of peers and txhashes.              *)
EXTENDS TxRequest, TLAPS

(* A key that was requested is no candidate until its announcement is      *)
(* forgotten.                                                              *)
AskedIsPast == \A k \in asked : State(k) \in {"REQUESTED", "COMPLETED"}

(* What GetRequestable offered are candidates, without a request for the   *)
(* same txhash.                                                            *)
OfferedIsOpen ==
  \A k \in answer.requestable :
    State(k) = "CANDIDATE" /\ \A l \in Key : l[2] = k[2] => State(l) # "REQUESTED"

IInv == TypeOK /\ OneOutstanding /\ AskedIsPast /\ OfferedIsOpen /\ NothingLingers

-----------------------------------------------------------------------------
(* Leaves that need more than first-order reasoning name SMT.               *)
USE Zenon

LEMMA NoAnnouncementType == NoAnnouncement \in Announcement
BY SMT DEF NoAnnouncement, Announcement

LEMMA KeyParts ==
  ASSUME NEW k \in Key
  PROVE  k[1] \in Peer /\ k[2] \in TxHash /\ k = <<k[1], k[2]>>
BY SMT DEF Key

(* Forgotten keeps or drops announcements, whole txhashes at a time.       *)
LEMMA ForgottenFacts ==
  ASSUME NEW A \in [Key -> Announcement]
  PROVE  /\ Forgotten(A) \in [Key -> Announcement]
         /\ \A k \in Key : Forgotten(A)[k] = A[k] \/ Forgotten(A)[k].state = "NONE"
         /\ \A k \in Key : A[k].state \in {"CANDIDATE", "REQUESTED"} => Forgotten(A)[k] = A[k]
         /\ \A k \in Key : Forgotten(A)[k].state # "NONE" => ~Finished(Forgotten(A), k)
<1>1. Forgotten(A) \in [Key -> Announcement]
  BY NoAnnouncementType DEF Forgotten
<1>2. \A k \in Key : Forgotten(A)[k] = A[k] \/ Forgotten(A)[k].state = "NONE"
  BY DEF Forgotten, NoAnnouncement
<1>3. ASSUME NEW k \in Key, A[k].state \in {"CANDIDATE", "REQUESTED"}
      PROVE  Forgotten(A)[k] = A[k]
  <2>1. k[1] \in Peer /\ A[<<k[1], k[2]>>] = A[k]
    BY KeyParts
  <2>2. ~Finished(A, k)
    BY <1>3, <2>1 DEF Finished
  <2> QED BY <2>2 DEF Forgotten
<1>4. ASSUME NEW k \in Key, Forgotten(A)[k].state # "NONE"
      PROVE  ~Finished(Forgotten(A), k)
  <2>1. ~Finished(A, k)
    BY <1>4 DEF Forgotten, NoAnnouncement
  <2>2. PICK p \in Peer : A[<<p, k[2]>>].state \notin {"NONE", "COMPLETED"}
    BY <2>1 DEF Finished
  <2>3. <<p, k[2]>> \in Key
    BY KeyParts DEF Key
  <2>4. A[<<p, k[2]>>].state \in {"CANDIDATE", "REQUESTED"}
    BY <2>2, <2>3 DEF Announcement
  <2>5. Forgotten(A)[<<p, k[2]>>] = A[<<p, k[2]>>]
    BY <1>3, <2>3, <2>4
  <2> QED BY <2>2, <2>5 DEF Finished
<1> QED BY <1>1, <1>2, <1>3, <1>4

(* An answer that fits a table of announcements.                           *)
Fits(r, A) ==
  /\ r \in [peer : SUBSET Peer, requestable : SUBSET Key, expired : SUBSET Key]
  /\ \A k \in r.requestable :
       A[k].state = "CANDIDATE" /\ \A l \in Key : l[2] = k[2] => A[l].state # "REQUESTED"

LEMMA NoAnswerFits == \A A : Fits(NoAnswer, A)
BY DEF Fits, NoAnswer

(* A call that only drops or completes announcements and forgets the       *)
(* txhashes that have no other keeps the invariant.                        *)
LEMMA DroppingKeepsInvariant ==
  ASSUME IInv, NEW A \in [Key -> Announcement],
         \A k \in Key : \/ A[k] = ann[k]
                        \/ A[k].state = "NONE"
                        \/ A[k].state = "COMPLETED" /\ ann[k].state # "NONE",
         Becomes(A), Fits(answer', A),
         \A k \in Key : A[k].state # "NONE" => ~Finished(A, k)
  PROVE  IInv'
<1> USE DEF IInv
<1>1. TypeOK'
  BY DEF TypeOK, Becomes, Fits
<1>2. OneOutstanding'
  BY DEF OneOutstanding, State, Becomes, TypeOK, Announcement
<1>3. AskedIsPast'
  <2> SUFFICES ASSUME NEW k \in asked, A[k].state # "NONE"
               PROVE  A[k].state \in {"REQUESTED", "COMPLETED"}
    BY DEF AskedIsPast, Becomes, State
  <2>1. k \in Key /\ ann[k].state \in {"REQUESTED", "COMPLETED"}
    BY DEF AskedIsPast, State, TypeOK
  <2> QED BY <2>1
<1>4. OfferedIsOpen'
  BY DEF OfferedIsOpen, Fits, Becomes, State
<1>5. NothingLingers'
  <2>1. ann' = A
    BY DEF Becomes
  <2> QED BY <2>1 DEF NothingLingers, State, Finished
<1> QED BY <1>1, <1>2, <1>3, <1>4, <1>5

-----------------------------------------------------------------------------
LEMMA InitInvariant == Init => IInv
<1> SUFFICES ASSUME Init PROVE IInv
  OBVIOUS
<1>1. TypeOK
  BY NoAnnouncementType DEF Init, TypeOK, NoAnswer
<1>2. \A k \in Key : State(k) = "NONE"
  BY DEF Init, State, NoAnnouncement
<1>3. OneOutstanding /\ AskedIsPast /\ OfferedIsOpen /\ NothingLingers
  BY <1>2 DEF OneOutstanding, AskedIsPast, OfferedIsOpen, NothingLingers, Init, NoAnswer
<1> QED BY <1>1, <1>3 DEF IInv

LEMMA ReceivedInvKeepsInvariant ==
  ASSUME IInv, NEW k \in Key, NEW preferred \in BOOLEAN, NEW reqtime \in Time,
         ReceivedInv(k, preferred, reqtime)
  PROVE  IInv'
<1> DEFINE a == [state |-> "CANDIDATE", time |-> reqtime, preferred |-> preferred]
<1>1. CASE State(k) # "NONE"
  <2>1. Becomes(ann) /\ answer' = NoAnswer
    BY <1>1 DEF ReceivedInv
  <2>2. ann \in [Key -> Announcement] /\ \A l \in Key : ann[l].state # "NONE" => ~Finished(ann, l)
    BY DEF IInv, TypeOK, NothingLingers, State
  <2> QED BY <2>1, <2>2, DroppingKeepsInvariant, NoAnswerFits
<1>2. CASE State(k) = "NONE"
  <2>1. ann' = [ann EXCEPT ![k] = a] /\ answer' = NoAnswer
    BY <1>2 DEF ReceivedInv, Becomes
  <2>2. a \in Announcement
    BY TimeAssumption DEF Announcement
  <2>3. ann \in [Key -> Announcement] /\ asked \subseteq Key
    BY DEF IInv, TypeOK
  <2>4. k \notin asked
    BY <1>2 DEF IInv, AskedIsPast
  <2>5. asked' \subseteq asked
    BY <1>2 DEF ReceivedInv, Becomes
  <2>6. TypeOK'
    BY <2>1, <2>2, <2>3, <2>5 DEF TypeOK, NoAnswer
  <2>7. \A l \in Key : l # k => ann'[l] = ann[l]
    BY <2>1, <2>3
  <2>8. ann'[k] = a
    BY <2>1, <2>3
  <2>9. OneOutstanding'
    BY SMT, <2>7, <2>8 DEF IInv, OneOutstanding, State
  <2>10. AskedIsPast'
    BY <2>3, <2>4, <2>5, <2>7 DEF IInv, AskedIsPast, State
  <2>11. OfferedIsOpen'
    BY <2>1 DEF OfferedIsOpen, NoAnswer
  <2>12. NothingLingers'
    <3> SUFFICES ASSUME NEW l \in Key, ann'[l].state # "NONE"
                 PROVE  ~Finished(ann', l)
      BY DEF NothingLingers, State, Finished
    <3>1. CASE l[2] = k[2]
      <4>1. k[1] \in Peer /\ <<k[1], l[2]>> = k
        BY <3>1, KeyParts
      <4> QED BY SMT, <4>1, <2>8 DEF Finished
    <3>2. CASE l[2] # k[2]
      <4>1. ann'[l] = ann[l]
        BY <3>2, <2>7
      <4>2. PICK p \in Peer : ann[<<p, l[2]>>].state \notin {"NONE", "COMPLETED"}
        BY <4>1 DEF IInv, NothingLingers, State, Finished
      <4>3. <<p, l[2]>> \in Key /\ <<p, l[2]>> # k
        BY <3>2, KeyParts DEF Key
      <4> QED BY <4>2, <4>3, <2>7 DEF Finished
    <3> QED BY <3>1, <3>2
  <2> QED BY <2>6, <2>9, <2>10, <2>11, <2>12 DEF IInv
<1> QED BY <1>1, <1>2

LEMMA DisconnectedPeerKeepsInvariant ==
  ASSUME IInv, NEW p \in Peer, DisconnectedPeer(p)
  PROVE  IInv'
<1> DEFINE A == [k \in Key |-> IF k[1] = p THEN NoAnnouncement ELSE ann[k]]
<1>1. A \in [Key -> Announcement]
  BY NoAnnouncementType DEF IInv, TypeOK
<1>2. Becomes(Forgotten(A)) /\ answer' = NoAnswer
  BY DEF DisconnectedPeer
<1>3. \A k \in Key : A[k] = ann[k] \/ A[k].state = "NONE"
  BY DEF NoAnnouncement
<1> HIDE DEF A
<1> QED BY <1>1, <1>2, <1>3, ForgottenFacts, DroppingKeepsInvariant, NoAnswerFits

LEMMA ForgetTxHashKeepsInvariant ==
  ASSUME IInv, NEW t \in TxHash, ForgetTxHash(t)
  PROVE  IInv'
<1> DEFINE A == [k \in Key |-> IF k[2] = t THEN NoAnnouncement ELSE ann[k]]
<1>1. A \in [Key -> Announcement]
  BY NoAnnouncementType DEF IInv, TypeOK
<1>2. Becomes(A) /\ answer' = NoAnswer
  BY DEF ForgetTxHash
<1>3. \A k \in Key : A[k] = ann[k] \/ A[k].state = "NONE"
  BY DEF NoAnnouncement
<1>4. ASSUME NEW k \in Key, A[k].state # "NONE" PROVE ~Finished(A, k)
  <2>1. k[2] # t /\ ann[k].state # "NONE"
    BY <1>4 DEF NoAnnouncement
  <2>2. PICK p \in Peer : ann[<<p, k[2]>>].state \notin {"NONE", "COMPLETED"}
    BY <2>1 DEF IInv, NothingLingers, State, Finished
  <2>3. <<p, k[2]>> \in Key /\ <<p, k[2]>>[2] = k[2]
    BY KeyParts DEF Key
  <2>4. A[<<p, k[2]>>] = ann[<<p, k[2]>>]
    BY <2>1, <2>3
  <2> QED BY <2>2, <2>4 DEF Finished
<1> HIDE DEF A
<1> QED BY <1>1, <1>2, <1>3, <1>4, DroppingKeepsInvariant, NoAnswerFits

LEMMA GetRequestableKeepsInvariant ==
  ASSUME IInv, NEW p \in Peer, NEW now \in Time, GetRequestable(p, now)
  PROVE  IInv'
<1> DEFINE B == [k \in Key |-> IF k \in Expired(now) THEN [ann[k] EXCEPT !.state = "COMPLETED"]
                               ELSE ann[k]]
           A == AfterExpiry(now)
<1>1. ann \in [Key -> Announcement]
  BY DEF IInv, TypeOK
<1>2. \A k \in Key : [ann[k] EXCEPT !.state = "COMPLETED"] \in Announcement
  BY <1>1 DEF Announcement
<1>3. B \in [Key -> Announcement]
  BY <1>1, <1>2
<1>4. \A k \in Key : B[k] = ann[k] \/ (B[k].state = "COMPLETED" /\ ann[k].state # "NONE")
  BY <1>1 DEF Expired, State, Announcement
<1>5. A = Forgotten(B)
  BY DEF AfterExpiry
<1>6. A \in [Key -> Announcement]
  BY <1>3, <1>5, ForgottenFacts
<1>7. Becomes(A) /\ answer' = [peer |-> {p}, requestable |-> Requestable(A, p, now),
                               expired |-> Expired(now)]
  BY DEF GetRequestable
<1> HIDE DEF A, B
<1>8. ASSUME NEW k \in Requestable(A, p, now)
      PROVE  k \in Key /\ A[k].state = "CANDIDATE" /\ \A l \in Key : l[2] = k[2] => A[l].state # "REQUESTED"
  <2>1. k \in Key /\ A[k].state = "CANDIDATE" /\ \A q \in Peer : A[<<q, k[2]>>].state # "REQUESTED"
    BY <1>8 DEF Requestable, Ready
  <2>2. ASSUME NEW l \in Key, l[2] = k[2] PROVE A[l].state # "REQUESTED"
    BY <2>1, <2>2, KeyParts
  <2> QED BY <2>1, <2>2
<1>9. Fits(answer', A)
  BY <1>7, <1>8 DEF Fits, Expired
<1>10. \A k \in Key : \/ A[k] = ann[k]
                      \/ A[k].state = "NONE"
                      \/ A[k].state = "COMPLETED" /\ ann[k].state # "NONE"
  BY <1>3, <1>4, <1>5, ForgottenFacts
<1>11. \A k \in Key : A[k].state # "NONE" => ~Finished(A, k)
  BY <1>3, <1>5, ForgottenFacts
<1> QED BY <1>6, <1>7, <1>9, <1>10, <1>11, DroppingKeepsInvariant

LEMMA RequestedTxKeepsInvariant ==
  ASSUME IInv, NEW k \in Key, NEW expiry \in Time, RequestedTx(k, expiry)
  PROVE  IInv'
<1>1. answer' = NoAnswer /\ ann \in [Key -> Announcement] /\ asked \subseteq Key
  BY DEF IInv, TypeOK, RequestedTx
<1>2. OfferedIsOpen'
  BY <1>1 DEF OfferedIsOpen, NoAnswer
<1>3. CASE State(k) # "CANDIDATE"
  <2>1. ann' = ann /\ asked' = asked
    BY <1>3 DEF RequestedTx
  <2>2. TypeOK'
    BY <1>1, <2>1 DEF TypeOK, NoAnswer
  <2>3. (OneOutstanding /\ AskedIsPast /\ NothingLingers)'
    BY <2>1 DEF IInv, OneOutstanding, AskedIsPast, NothingLingers, State, Finished
  <2> QED BY <1>2, <2>2, <2>3 DEF IInv
<1>4. CASE State(k) = "CANDIDATE"
  <2> DEFINE new(l) == IF l = k THEN [ann[k] EXCEPT !.state = "REQUESTED", !.time = expiry]
                       ELSE IF l[2] = k[2] /\ State(l) = "REQUESTED"
                            THEN [ann[l] EXCEPT !.state = "COMPLETED"]
                       ELSE ann[l]
  <2>1. ann' = [l \in Key |-> new(l)] /\ asked' = asked \cup {k}
    BY <1>4 DEF RequestedTx
  <2>2. \A l \in Key : new(l) \in Announcement
    BY <1>1, TimeAssumption DEF Announcement
  <2>3. TypeOK'
    BY <1>1, <2>1, <2>2 DEF TypeOK, NoAnswer
  <2>4. ann'[k].state = "REQUESTED"
    BY <1>1, <2>1 DEF Announcement
  <2>5. \A l \in Key : l # k /\ l[2] = k[2] => ann'[l].state # "REQUESTED"
    BY <1>1, <2>1 DEF State, Announcement
  <2>6. \A l \in Key : l[2] # k[2] => ann'[l] = ann[l]
    BY <2>1
  <2>7. \A l \in Key : l # k => ann'[l] = ann[l] \/ (ann'[l].state = "COMPLETED" /\ ann[l].state # "NONE")
    BY <1>1, <2>1 DEF State, Announcement
  <2> HIDE DEF new
  <2>8. OneOutstanding'
    BY <2>5, <2>6 DEF IInv, OneOutstanding, State
  <2>9. AskedIsPast'
    <3> SUFFICES ASSUME NEW l \in asked' PROVE ann'[l].state \in {"REQUESTED", "COMPLETED"}
      BY DEF AskedIsPast, State
    <3>1. CASE l = k
      BY <3>1, <2>4
    <3>2. CASE l # k
      BY <3>2, <1>1, <2>1, <2>7 DEF IInv, AskedIsPast, State
    <3> QED BY <3>1, <3>2
  <2>10. NothingLingers'
    <3> SUFFICES ASSUME NEW l \in Key, ann'[l].state # "NONE"
                 PROVE  ~Finished(ann', l)
      BY DEF NothingLingers, State, Finished
    <3>1. CASE l[2] = k[2]
      <4>1. k[1] \in Peer /\ <<k[1], l[2]>> = k
        BY <3>1, KeyParts
      <4> QED BY <4>1, <2>4 DEF Finished
    <3>2. CASE l[2] # k[2]
      <4>1. ann'[l] = ann[l]
        BY <3>2, <2>6
      <4>2. PICK p \in Peer : ann[<<p, l[2]>>].state \notin {"NONE", "COMPLETED"}
        BY <4>1 DEF IInv, NothingLingers, State, Finished
      <4>3. <<p, l[2]>> \in Key /\ <<p, l[2]>>[2] # k[2]
        BY <3>2, KeyParts DEF Key
      <4> QED BY <4>2, <4>3, <2>6 DEF Finished
    <3> QED BY <3>1, <3>2
  <2> QED BY <1>2, <2>3, <2>8, <2>9, <2>10 DEF IInv
<1> QED BY <1>3, <1>4

LEMMA ReceivedResponseKeepsInvariant ==
  ASSUME IInv, NEW k \in Key, ReceivedResponse(k)
  PROVE  IInv'
<1>1. ann \in [Key -> Announcement] /\ \A l \in Key : ann[l].state # "NONE" => ~Finished(ann, l)
  BY DEF IInv, TypeOK, NothingLingers, State
<1>2. CASE State(k) \in {"NONE", "COMPLETED"}
  <2>1. Becomes(ann) /\ answer' = NoAnswer
    BY <1>2 DEF ReceivedResponse
  <2> QED BY <1>1, <2>1, DroppingKeepsInvariant, NoAnswerFits
<1>3. CASE State(k) \notin {"NONE", "COMPLETED"}
  <2> DEFINE A == [ann EXCEPT ![k].state = "COMPLETED"]
  <2>1. A \in [Key -> Announcement]
    BY <1>1 DEF Announcement
  <2>2. Becomes(Forgotten(A)) /\ answer' = NoAnswer
    BY <1>3 DEF ReceivedResponse
  <2>3. \A l \in Key : A[l] = ann[l] \/ (A[l].state = "COMPLETED" /\ ann[l].state # "NONE")
    BY <1>1, <1>3 DEF State, Announcement
  <2> HIDE DEF A
  <2> QED BY SMT, <2>1, <2>2, <2>3, ForgottenFacts, DroppingKeepsInvariant, NoAnswerFits
<1> QED BY <1>2, <1>3

-----------------------------------------------------------------------------
LEMMA NextInvariant == IInv /\ [Next]_vars => IInv'
<1> SUFFICES ASSUME IInv, [Next]_vars PROVE IInv'
  OBVIOUS
<1>1. ASSUME NEW k \in Key, NEW preferred \in BOOLEAN, NEW reqtime \in Time,
             ReceivedInv(k, preferred, reqtime)
      PROVE  IInv'
  BY <1>1, ReceivedInvKeepsInvariant
<1>2. ASSUME NEW p \in Peer, DisconnectedPeer(p) PROVE IInv'
  BY <1>2, DisconnectedPeerKeepsInvariant
<1>3. ASSUME NEW t \in TxHash, ForgetTxHash(t) PROVE IInv'
  BY <1>3, ForgetTxHashKeepsInvariant
<1>4. ASSUME NEW p \in Peer, NEW now \in Time, GetRequestable(p, now) PROVE IInv'
  BY <1>4, GetRequestableKeepsInvariant
<1>5. Announced \subseteq Key
  BY AnnouncesAssumption DEF Announced, Key
<1>6. ASSUME NEW k \in Announced, NEW expiry \in Time, RequestedTx(k, expiry) PROVE IInv'
  BY <1>5, <1>6, RequestedTxKeepsInvariant
<1>7. ASSUME NEW k \in Announced, ReceivedResponse(k) PROVE IInv'
  BY <1>5, <1>7, ReceivedResponseKeepsInvariant
<1>8. CASE UNCHANGED vars
  <2>1. ann' = ann /\ answer' = answer /\ asked' = asked
    BY <1>8 DEF vars
  <2> QED BY <2>1 DEF IInv, TypeOK, OneOutstanding, AskedIsPast, OfferedIsOpen, NothingLingers,
                      State, Finished
<1> QED BY <1>1, <1>2, <1>3, <1>4, <1>6, <1>7, <1>8 DEF Next

LEMMA Invariance == Spec => []IInv
<1> QED BY InitInvariant, NextInvariant, PTL DEF Spec

(* The tracker's state keeps its type.                                     *)
THEOREM TypeCorrect == Spec => []TypeOK
<1>1. IInv => TypeOK
  BY DEF IInv
<1> QED BY <1>1, Invariance, PTL

(* However the operations are called and whatever times they are given, at *)
(* most one request for a txhash is outstanding.                           *)
THEOREM RequestsAreSingle == Spec => []OneOutstanding
<1>1. IInv => OneOutstanding
  BY DEF IInv
<1> QED BY <1>1, Invariance, PTL

(* GetRequestable never offers a transaction to a peer that was asked for  *)
(* it since it announced it.                                               *)
THEOREM PeersAreAskedOnce == Spec => []NeverAskedTwice
<1>1. IInv => NeverAskedTwice
  BY DEF IInv, NeverAskedTwice, AskedIsPast, OfferedIsOpen
<1> QED BY <1>1, Invariance, PTL

(* GetRequestable never offers a transaction while a request for it is     *)
(* outstanding.                                                            *)
THEOREM NoCopyIsRequested == Spec => []NoSecondCopy
<1>1. IInv => NoSecondCopy
  BY DEF IInv, NoSecondCopy, OfferedIsOpen
<1> QED BY <1>1, Invariance, PTL

(* Failed announcements are forgotten when no other is left for the same   *)
(* txhash, so the tracker never fills with them.                           *)
THEOREM FailuresAreForgotten == Spec => []NothingLingers
<1>1. IInv => NothingLingers
  BY DEF IInv
<1> QED BY <1>1, Invariance, PTL

=============================================================================
