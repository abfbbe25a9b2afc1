----------------------- MODULE BucketSubscriptionProofs -----------------------
(***************************************************************************)
(* What BucketSubscription promises follows from its steps, for every set  *)
(* of subscribers, buckets and events. An implementation inherits it.      *)
(***************************************************************************)
EXTENDS BucketSubscription, TLAPS

\* An acknowledged subscriber has an entry in want, and it is all notified of.
Honest == TypeOK /\ AckIsHonest

\* Each step keeps both: the storage is reconfigured only so that every
\* acknowledged subscriber keeps its events, and who changes is retracted.
LEMMA NextKeepsHonest == Honest /\ [Next]_vars => Honest'
<1> SUFFICES ASSUME Honest, [Next]_vars PROVE Honest'
  OBVIOUS
<1> USE DEF Honest, TypeOK, AckIsHonest
<1>1. ASSUME NEW s \in Subscribers, Change(s) PROVE Honest'
  BY <1>1 DEF Change
<1>2. ASSUME NEW s \in Subscribers, Acknowledge(s) PROVE Honest'
  BY <1>2 DEF Acknowledge
<1>3. ASSUME NEW s \in Subscribers, Retract(s) PROVE Honest'
  BY <1>3 DEF Retract
<1>4. ASSUME NEW b \in Buckets, Configure(b) PROVE Honest'
  <2>1. PICK es \in SUBSET Events :
           notified' = {p \in notified : p[1] # b} \cup ({b} \X es)
    BY <1>4 DEF Configure
  <2>2. notified' \in SUBSET (Buckets \X Events)
    BY <2>1
  <2> QED
    BY <1>4, <2>2 DEF Configure
<1>5. ASSUME NEW b \in Buckets, Withdraw(b) PROVE Honest'
  <2>1. ASSUME NEW s \in acked', NEW p \in want'[s] PROVE p \in notified'
    BY <1>5, <2>1 DEF Withdraw
  <2> QED
    BY <1>5, <2>1 DEF Withdraw
<1>6. CASE UNCHANGED vars
  BY <1>6 DEF vars
<1> QED
  BY <1>1, <1>2, <1>3, <1>4, <1>5, <1>6 DEF Next

\* BucketNotificationSet=True is honest: whoever is told to be subscribed has
\* every event, and so has a subscriber of any implementation
\* (ImplementsSubscription of ObjectBucketSource).
THEOREM AckStaysHonest == Spec => []AckIsHonest
<1>1. Init => Honest
  BY DEF Init, Honest, TypeOK, AckIsHonest
<1>2. Honest => AckIsHonest
  BY DEF Honest
<1> QED
  BY <1>1, <1>2, NextKeepsHonest, PTL DEF Spec
=============================================================================
