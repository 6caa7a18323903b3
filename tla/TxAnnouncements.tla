--------------------------- MODULE TxAnnouncements ---------------------------
(* Peers, txhashes and the announcements of transactions (txrequest.cpp),  *)
(* for TxRequest and TxRequestTracker.                                     *)
EXTENDS Integers, FiniteSets

CONSTANTS Peer, TxHash,
          Announces,   \* the keys that may be announced, with their preferred flag
          Hash,        \* the salted hash that breaks ties between peers
          Time         \* the points in time

ASSUME TimeAssumption == Time \subseteq Int
ASSUME HashAssumption ==
  /\ Hash \in [Peer \X TxHash -> Nat]
  /\ \A t \in TxHash, p, q \in Peer : Hash[<<p, t>>] = Hash[<<q, t>>] => p = q
ASSUME AnnouncesAssumption == Announces \subseteq (Peer \X TxHash) \X BOOLEAN

Key == Peer \X TxHash
Announced == {a[1] : a \in Announces}

(* NONE is the state of a key without an announcement.                     *)
NoAnnouncement == [state |-> "NONE", time |-> 0, preferred |-> FALSE]
NoAnswer == [peer |-> {}, requestable |-> {}, expired |-> {}]
=============================================================================
