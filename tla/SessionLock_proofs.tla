-------------------------- MODULE SessionLock_proofs --------------------------
(***************************************************************************)
(* Proofs about SessionLock for any sessions, handlers, rate limit and TTL.*)
(***************************************************************************)
EXTENDS SessionLock, FiniteSetTheorems, TLAPS

USE LockAssumption DEF LockAssumption

(* The variables always have their types. *)
THEOREM TypeCorrect == Spec => []TypeOK
<1>1. Init => TypeOK
  BY DEF Init, TypeOK, PCs
<1>2. TypeOK /\ [Next]_vars => TypeOK'
  <2> SUFFICES ASSUME TypeOK, [Next]_vars PROVE TypeOK'
    OBVIOUS
  <2> USE DEF TypeOK, PCs
  <2>0. TTL \in 0..TTL /\ 0 \in 0..TTL /\ 0 \in 0..MaxMissed
    OBVIOUS
  <2>1. ASSUME NEW h \in Handlers, NEW s \in Sessions, TakeSlot(h, s)
        PROVE  TypeOK'
    BY <2>1 DEF TakeSlot
  <2>2. ASSUME NEW h \in Handlers, SetKey(h) PROVE TypeOK'
    <3>1. left' \in [Sessions -> 0..TTL]
      BY <2>0, <2>2 DEF SetKey
    <3>2. missed' \in [Handlers -> 0..MaxMissed]
      BY <2>0, <2>2 DEF SetKey
    <3>3. token' \in [Sessions -> Handlers \cup {None}]
      BY <2>2 DEF SetKey
    <3>4. QED
      BY <2>2, <3>1, <3>2, <3>3 DEF SetKey
  <2>3. ASSUME NEW h \in Handlers, Refuse(h) \/ SetLost(h) PROVE TypeOK'
    <3>1. CASE Refuse(h)
      BY <3>1 DEF Refuse, GiveBackSlot
    <3>2. CASE SetLost(h)
      <4>1. slots' \in Nat
        BY <3>2 DEF SetLost, GiveBackSlot
      <4>2. left' \in [Sessions -> 0..TTL]
        BY <2>0, <3>2 DEF SetLost
      <4>3. token' \in [Sessions -> Handlers \cup {None}]
        BY <3>2 DEF SetLost
      <4>4. QED
        BY <3>2, <4>1, <4>2, <4>3 DEF SetLost
    <3>3. QED
      BY <2>3, <3>1, <3>2
  <2>4. ASSUME NEW h \in Handlers, Beat(h) PROVE TypeOK'
    <3>1. left' \in [Sessions -> 0..TTL] /\ live' \in [Sessions -> BOOLEAN]
      BY <2>0, <2>4 DEF Beat
    <3>2. missed' \in [Handlers -> 0..MaxMissed]
      BY <2>0, <2>4 DEF Beat
    <3>3. QED
      BY <2>4, <3>1, <3>2 DEF Beat
  <2>5. ASSUME NEW h \in Handlers, Miss(h) PROVE TypeOK'
    BY <2>5 DEF Miss
  <2>6. ASSUME NEW h \in Handlers, Release(h) PROVE TypeOK'
    <3>1. CASE StopRenewal(h)
      BY <3>1 DEF StopRenewal
    <3>2. CASE FreeSlot(h)
      BY <3>2 DEF FreeSlot, GiveBackSlot
    <3>3. CASE CheckToken(h)
      BY <3>3 DEF CheckToken
    <3>4. CASE CheckFails(h)
      BY <3>4 DEF CheckFails
    <3>5. CASE DeleteKey(h)
      <4>1. left' \in [Sessions -> 0..TTL]
        BY <2>0, <3>5 DEF DeleteKey
      <4>2. QED
        BY <3>5, <4>1 DEF DeleteKey
    <3>6. QED
      BY <2>6, <3>1, <3>2, <3>3, <3>4, <3>5 DEF Release
  <2>7. CASE Tick
    <3>1. left' \in [Sessions -> 0..TTL]
      <4>1. ASSUME NEW s \in Sessions
            PROVE  (IF live[s] THEN left[s] - 1 ELSE 0) \in 0..TTL
        <5>1. left[s] \in 0..TTL /\ (live[s] => left[s] > 0)
          BY <2>7 DEF Tick
        <5>2. live[s] => left[s] - 1 \in 0..TTL
          BY <5>1
        <5>3. QED
          BY <2>0, <5>2
      <4>2. QED
        BY <2>7, <4>1 DEF Tick
    <3>2. due' \in [Handlers -> BOOLEAN]
      BY <2>7 DEF Tick, Beating
    <3>3. QED
      BY <2>7, <3>1, <3>2 DEF Tick
  <2>8. ASSUME NEW s \in Sessions, Lapse(s) PROVE TypeOK'
    BY <2>8 DEF Lapse
  <2>9. CASE UNCHANGED vars
    BY <2>9 DEF vars
  <2>10. QED
    BY <2>1, <2>2, <2>3, <2>4, <2>5, <2>6, <2>7, <2>8, <2>9
       DEF Next, TryLock, Renew
<1>3. QED
  BY <1>1, <1>2, PTL DEF Spec
-------------------------------------------------------------------------------
(* What a step of SlotTaken by one member does to its size. *)
LEMMA SlotTakenFinite == IsFiniteSet(SlotTaken) /\ Cardinality(SlotTaken) \in Nat
  BY FS_Subset, FS_CardinalityType DEF SlotTaken

(* rateCh counts the handlers between tryLock's send and release's receive,   *)
(* and never holds more than its capacity: no interleaving of successful and  *)
(* refused tryLocks and of releases leaks a slot.                             *)
THEOREM SlotsAccounted == Spec => []SlotAccounting
<1>1. Init => SlotAccounting
  <2> SUFFICES ASSUME Init PROVE SlotAccounting
    OBVIOUS
  <2>1. SlotTaken = {}
    BY DEF Init, SlotTaken
  <2>2. QED
    BY <2>1, FS_EmptySet DEF Init, SlotAccounting
<1>2. TypeOK /\ SlotAccounting /\ [Next]_vars => SlotAccounting'
  <2> SUFFICES ASSUME TypeOK, SlotAccounting, [Next]_vars
               PROVE  SlotAccounting'
    OBVIOUS
  <2> USE DEF SlotAccounting, TypeOK
  <2>0. IsFiniteSet(SlotTaken) /\ Cardinality(SlotTaken) \in Nat
    BY SlotTakenFinite
  <2>a. ASSUME NEW h \in Handlers, SlotTaken' = SlotTaken \cup {h},
               h \notin SlotTaken, slots' = slots + 1, slots < RateLimit
        PROVE  SlotAccounting'
    <3>1. Cardinality(SlotTaken \cup {h}) = Cardinality(SlotTaken) + 1
      BY <2>0, <2>a, FS_AddElement
    <3>2. QED
      BY <2>0, <2>a, <3>1
  <2>b. ASSUME NEW h \in Handlers, SlotTaken' = SlotTaken \ {h},
               h \in SlotTaken, slots' = GiveBackSlot
        PROVE  SlotAccounting'
    <3>1. Cardinality(SlotTaken \ {h}) = Cardinality(SlotTaken) - 1
      BY <2>0, <2>b, FS_RemoveElement
    <3>2. Cardinality(SlotTaken) # 0
      BY <2>0, <2>b, FS_EmptySet
    <3>3. QED
      BY <2>0, <2>b, <3>1, <3>2 DEF GiveBackSlot
  <2>c. ASSUME SlotTaken' = SlotTaken, slots' = slots PROVE SlotAccounting'
    BY <2>c
  <2>1. ASSUME NEW h \in Handlers, NEW s \in Sessions, TakeSlot(h, s)
        PROVE  SlotAccounting'
    <3>1. SlotTaken' = SlotTaken \cup {h} /\ h \notin SlotTaken
      BY <2>1 DEF TakeSlot, SlotTaken
    <3>2. QED
      BY <2>1, <2>a, <3>1 DEF TakeSlot
  <2>2. ASSUME NEW h \in Handlers, SetKey(h) PROVE SlotAccounting'
    <3>1. SlotTaken' = SlotTaken
      BY <2>2 DEF SetKey, SlotTaken
    <3>2. QED
      BY <2>2, <2>c, <3>1 DEF SetKey
  <2>3. ASSUME NEW h \in Handlers, Refuse(h) \/ SetLost(h)
        PROVE  SlotAccounting'
    <3>1. SlotTaken' = SlotTaken \ {h} /\ h \in SlotTaken
      BY <2>3 DEF Refuse, SetLost, SlotTaken
    <3>2. QED
      BY <2>3, <2>b, <3>1 DEF Refuse, SetLost
  <2>4. ASSUME NEW h \in Handlers, Renew(h) PROVE SlotAccounting'
    BY <2>4, <2>c DEF Renew, Beat, Miss, SlotTaken
  <2>5. ASSUME NEW h \in Handlers, StopRenewal(h) PROVE SlotAccounting'
    <3>1. SlotTaken' = SlotTaken
      BY <2>5 DEF StopRenewal, SlotTaken
    <3>2. QED
      BY <2>5, <2>c, <3>1 DEF StopRenewal
  <2>6. ASSUME NEW h \in Handlers, FreeSlot(h) PROVE SlotAccounting'
    <3>1. SlotTaken' = SlotTaken \ {h} /\ h \in SlotTaken
      BY <2>6 DEF FreeSlot, SlotTaken
    <3>2. QED
      BY <2>6, <2>b, <3>1 DEF FreeSlot
  <2>7. ASSUME NEW h \in Handlers, CheckToken(h) \/ CheckFails(h) \/ DeleteKey(h)
        PROVE  SlotAccounting'
    <3>1. SlotTaken' = SlotTaken
      BY <2>7 DEF CheckToken, CheckFails, DeleteKey, SlotTaken
    <3>2. QED
      BY <2>7, <2>c, <3>1 DEF CheckToken, CheckFails, DeleteKey
  <2>8. CASE Tick \/ (\E s \in Sessions : Lapse(s)) \/ UNCHANGED vars
    BY <2>8, <2>c DEF Tick, Lapse, vars, SlotTaken
  <2>9. QED
    BY <2>1, <2>2, <2>3, <2>4, <2>5, <2>6, <2>7, <2>8
       DEF Next, TryLock, Release
<1>3. QED
  BY <1>1, <1>2, TypeCorrect, PTL DEF Spec
-------------------------------------------------------------------------------
(* The conditions under which the lease is safe: fewer than TTL - 1 renewals   *)
(* in a row are lost, and a release is not suspended for whole intervals.      *)
LeaseConditions == MaxMissed + 1 < TTL /\ ~MayStall

(* Between SetString and Del a handler's key carries its token and the        *)
(* remaining time the lost and the due heartbeats account for.                *)
LEMMA LeaseKept == ASSUME LeaseConditions PROVE Spec => []LeaseInv
<1> USE DEF LeaseConditions
<1>1. Init => LeaseInv
  BY DEF Init, LeaseInv, Beating
<1>2. TypeOK /\ LeaseInv /\ [Next]_vars => LeaseInv'
  <2> SUFFICES ASSUME TypeOK, LeaseInv, [Next]_vars,
                      NEW g \in Handlers
               PROVE  LeaseInv!(g)'
    BY DEF LeaseInv
  <2> USE DEF LeaseInv, TypeOK, Beating, PCs
  <2>0. \A h \in Handlers : missed[h] \in Nat /\ missed[h] <= MaxMissed
    OBVIOUS
  <2>l. \A s \in Sessions : left[s] \in Nat
    OBVIOUS
  <2>1. ASSUME NEW h \in Handlers, NEW s \in Sessions, TakeSlot(h, s)
        PROVE  LeaseInv!(g)'
    BY <2>1 DEF TakeSlot
  <2>2. ASSUME NEW h \in Handlers, SetKey(h) PROVE LeaseInv!(g)'
    <3>1. CASE g = h
      BY <2>2, <3>1 DEF SetKey
    <3>2. CASE g # h
      BY <2>2, <3>2 DEF SetKey
    <3>3. QED
      BY <3>1, <3>2
  <2>3. ASSUME NEW h \in Handlers, Refuse(h) \/ SetLost(h)
        PROVE  LeaseInv!(g)'
    <3>1. CASE Refuse(h)
      BY <3>1 DEF Refuse
    <3>2. CASE SetLost(h)
      BY <3>2 DEF SetLost
    <3>3. QED
      BY <2>3, <3>1, <3>2
  <2>4. ASSUME NEW h \in Handlers, Beat(h) PROVE LeaseInv!(g)'
    <3>1. sess[h] \in Sessions /\ live[sess[h]] /\ token[sess[h]] = h
      BY <2>4 DEF Beat
    <3>2. /\ live' = [live EXCEPT ![sess[h]] = TRUE]
          /\ left' = [left EXCEPT ![sess[h]] = TTL]
      BY <2>4, <3>1 DEF Beat
    <3>3. CASE g = h
      BY <2>4, <3>1, <3>2, <3>3 DEF Beat
    <3>4. CASE g # h
      <4>1. pc[g] \in {"held", "stopping", "freed", "matched"} =>
              sess[g] # sess[h]
        BY <3>1, <3>4
      <4>2. QED
        BY <2>4, <3>1, <3>2, <3>4, <4>1 DEF Beat
    <3>5. QED
      BY <3>3, <3>4
  <2>5. ASSUME NEW h \in Handlers, Miss(h) PROVE LeaseInv!(g)'
    BY <2>5, <2>0, <2>l DEF Miss
  <2>6. ASSUME NEW h \in Handlers, StopRenewal(h) PROVE LeaseInv!(g)'
    BY <2>6 DEF StopRenewal
  <2>7. ASSUME NEW h \in Handlers, FreeSlot(h) PROVE LeaseInv!(g)'
    BY <2>7 DEF FreeSlot
  <2>8. ASSUME NEW h \in Handlers, CheckToken(h) PROVE LeaseInv!(g)'
    BY <2>8 DEF CheckToken
  <2>9. ASSUME NEW h \in Handlers, CheckFails(h) PROVE LeaseInv!(g)'
    BY <2>9 DEF CheckFails
  <2>10. ASSUME NEW h \in Handlers, DeleteKey(h) PROVE LeaseInv!(g)'
    <3>1. sess[h] \in Sessions /\ token[sess[h]] = h
      BY <2>10 DEF DeleteKey
    <3>2. g # h /\ pc[g] \in {"held", "stopping", "freed", "matched"} =>
            sess[g] # sess[h]
      BY <3>1
    <3>3. QED
      BY <2>10, <3>1, <3>2 DEF DeleteKey
  <2>11. CASE Tick
    <3>1. pc[g] \notin {"freed", "matched", "stopping"}
      BY <2>11 DEF Tick, Releasing
    <3>2. CASE pc[g] = "held"
      <4>1. /\ sess[g] \in Sessions /\ live[sess[g]] /\ ~due[g]
            /\ left[sess[g]] = TTL - missed[g]
        BY <2>11, <3>2 DEF Tick
      <4>2. /\ left'[sess[g]] = left[sess[g]] - 1
            /\ due'[g] = TRUE
            /\ UNCHANGED <<live, token, pc, sess, missed>>
        BY <2>11, <3>2, <4>1 DEF Tick
      <4>3. TTL - missed[g] - 1 >= 1
        BY <2>0
      <4>4. QED
        BY <3>2, <4>1, <4>2, <4>3
    <3>3. CASE pc[g] # "held"
      BY <2>11, <3>1, <3>3 DEF Tick
    <3>4. QED
      BY <3>2, <3>3
  <2>12. ASSUME NEW s \in Sessions, Lapse(s) PROVE LeaseInv!(g)'
    <3>1. pc[g] \in {"held", "stopping", "freed", "matched"} => sess[g] # s
      BY <2>12 DEF Lapse
    <3>2. QED
      BY <2>12, <3>1 DEF Lapse
  <2>13. CASE UNCHANGED vars
    BY <2>13 DEF vars
  <2>14. QED
    BY <2>1, <2>2, <2>3, <2>4, <2>5, <2>6, <2>7, <2>8, <2>9, <2>10, <2>11,
       <2>12, <2>13 DEF Next, TryLock, Renew, Release
<1>3. QED
  BY <1>1, <1>2, TypeCorrect, PTL DEF Spec

(* A holder finds its own token in the store until it releases: with the       *)
(* code's TTL of three intervals, one lost heartbeat is always survived.       *)
THEOREM KeyIsKept == ASSUME LeaseConditions PROVE Spec => []HolderKeepsKey
<1>1. LeaseInv => HolderKeepsKey
  BY DEF LeaseInv, HolderKeepsKey
<1>2. QED
  BY <1>1, LeaseKept, PTL

(* Two handlers never both hold the lock of one session. *)
THEOREM LockExcludes == ASSUME LeaseConditions PROVE Spec => []MutualExclusion
<1>1. LeaseInv => MutualExclusion
  BY DEF LeaseInv, MutualExclusion, Beating
<1>2. QED
  BY <1>1, LeaseKept, PTL
-------------------------------------------------------------------------------
(* lock.go implements the abstract mutual exclusion SessionMutex: a tryLock    *)
(* that succeeds is an Acquire of a free session below the rate limit, the     *)
(* return of the slot is the Release, and every other step is invisible.      *)
THEOREM LockImplementsMutex == ASSUME LeaseConditions PROVE Spec => ImplementsMutex
<1>1. Init => Mutex!Init
  BY DEF Init, Mutex!Init, Busy, Beating
<1>2. TypeOK /\ LeaseInv /\ SlotAccounting /\ [Next]_vars
        => [Mutex!Next]_Busy
  <2> SUFFICES ASSUME TypeOK, LeaseInv, SlotAccounting, [Next]_vars
               PROVE  Mutex!Next \/ Busy' = Busy
    OBVIOUS
  <2> USE DEF TypeOK, PCs
  <2>1. ASSUME NEW h \in Handlers, SetKey(h) PROVE Mutex!Next
    <3>1. pc[h] = "slot" /\ sess[h] \in Sessions /\ ~live[sess[h]]
      BY <2>1 DEF SetKey, LeaseInv
    <3>2. Busy[h] = None
      BY <3>1 DEF Busy, Beating
    <3>3. \A g \in Handlers : Busy[g] # sess[h]
      <4>1. SUFFICES ASSUME NEW g \in Handlers, Busy[g] = sess[h] PROVE FALSE
        OBVIOUS
      <4>2. g \in Beating /\ sess[g] = sess[h]
        BY <3>1, <4>1 DEF Busy
      <4>3. QED
        BY <3>1, <4>2 DEF LeaseInv, Beating
    <3>4. Cardinality(Mutex!Owners) < RateLimit
      <4>1. Mutex!Owners \subseteq SlotTaken \ {h}
        BY <3>1 DEF Mutex!Owners, Busy, Beating, SlotTaken
      <4>2. IsFiniteSet(SlotTaken) /\ h \in SlotTaken
        BY <3>1, SlotTakenFinite DEF SlotTaken
      <4>3. /\ IsFiniteSet(SlotTaken \ {h})
            /\ Cardinality(SlotTaken \ {h}) = Cardinality(SlotTaken) - 1
        BY <4>2, FS_RemoveElement
      <4>4. Cardinality(Mutex!Owners) <= Cardinality(SlotTaken \ {h})
        BY <4>1, <4>3, FS_Subset
      <4>5. /\ Cardinality(Mutex!Owners) \in Nat
            /\ Cardinality(SlotTaken) \in Nat
        BY <4>1, <4>2, <4>3, FS_Subset, FS_CardinalityType
      <4>6. QED
        BY <4>3, <4>4, <4>5 DEF SlotAccounting
    <3>5. Busy' = [Busy EXCEPT ![h] = sess[h]]
      BY <2>1 DEF SetKey, Busy, Beating
    <3>6. Mutex!Acquire(h, sess[h])
      BY <3>2, <3>3, <3>4, <3>5
         DEF Mutex!Acquire, Mutex!Cardinality, Cardinality
    <3>7. QED
      BY <3>1, <3>6 DEF Mutex!Next
  <2>2. ASSUME NEW h \in Handlers, FreeSlot(h) PROVE Mutex!Next
    <3>1. pc[h] = "stopping" /\ sess[h] \in Sessions
      BY <2>2 DEF FreeSlot, LeaseInv
    <3>2. Busy[h] # None
      BY <3>1 DEF Busy, Beating
    <3>3. Busy' = [Busy EXCEPT ![h] = None]
      BY <2>2 DEF FreeSlot, Busy, Beating
    <3>4. QED
      BY <3>2, <3>3 DEF Mutex!Next, Mutex!Release
  <2>3. ASSUME NEW h \in Handlers,
               \/ \E s \in Sessions : TakeSlot(h, s)
               \/ Refuse(h) \/ SetLost(h) \/ StopRenewal(h) \/ CheckToken(h)
               \/ CheckFails(h) \/ DeleteKey(h)
        PROVE  Busy' = Busy
    BY <2>3 DEF TakeSlot, Refuse, SetLost, StopRenewal, CheckToken, CheckFails,
                DeleteKey, Busy, Beating
  <2>4. ASSUME NEW h \in Handlers, Renew(h) PROVE Busy' = Busy
    BY <2>4 DEF Renew, Beat, Miss, Busy, Beating
  <2>5. CASE Tick \/ (\E s \in Sessions : Lapse(s)) \/ UNCHANGED vars
    BY <2>5 DEF Tick, Lapse, vars, Busy, Beating
  <2>6. QED
    BY <2>1, <2>2, <2>3, <2>4, <2>5 DEF Next, TryLock, Release
<1>3. QED
  BY <1>1, <1>2, TypeCorrect, LeaseKept, SlotsAccounted, PTL
     DEF Spec, Mutex!Spec, ImplementsMutex
===============================================================================
