------------------------------ MODULE SessionLock ------------------------------
(***************************************************************************)
(* The session lock of the AI chat plugin (pluginaichat/lock.go) on top of *)
(* the TTL semantics of its key-value store (core/memory.go, core/redis.go).*)
(*                                                                         *)
(* A lock is a slot of the channel rateCh plus a key of the store that     *)
(* holds a random token and expires LockExpTime after it was last set or   *)
(* renewed; a heartbeat goroutine renews it every LockExpTime/3.  Time is  *)
(* counted in heartbeat intervals: Tick is one interval passing.           *)
(* A token is drawn for each acquisition; the handler's name stands for it *)
(* (a handler is in one acquisition at a time, and a key left behind by an *)
(* earlier one is overwritten by SetString before it could be mistaken).   *)
(***************************************************************************)
EXTENDS Naturals, FiniteSets

CONSTANTS Sessions,   \* session keys "g:<id>", "f:<id>"
          Handlers,   \* goroutines calling tryLock
          RateLimit,  \* capacity of rateCh
          TTL,        \* LockExpTime in heartbeat intervals: 3 in the code
          MaxMissed,  \* bound: heartbeats in a row that the store may refuse
          Revives,    \* TRUE: memory store, Expire renews an expired entry
                      \* FALSE: redis, where an expired key is gone
          MayStall,   \* TRUE: a releasing goroutine may be suspended for
                      \* whole intervals (process stopped, machine asleep)
          None

ASSUME LockAssumption ==
  /\ IsFiniteSet(Handlers)
  /\ RateLimit \in Nat \ {0}
  /\ TTL \in Nat \ {0}
  /\ MaxMissed \in Nat
  /\ Revives \in BOOLEAN
  /\ MayStall \in BOOLEAN
  /\ None \notin Handlers
  /\ None \notin Sessions

VARIABLES slots,   \* len(rateCh)
          token,   \* token[s]: value of the store entry, None if no entry
          live,    \* live[s]: the entry exists and has not expired
          left,    \* left[s]: whole intervals before the entry's expireAt
          pc,      \* control point of a handler
          sess,    \* the session a handler works on
          due,     \* due[h]: h's ticker has fired, Expire not yet called
          missed   \* missed[h]: consecutive heartbeats that failed

vars == <<slots, token, live, left, pc, sess, due, missed>>

\* idle: outside; slot: slot taken, SetString not yet called; held: lock
\* returned to the caller; stopping: release closed stopCh; freed: slot given
\* back; matched: GetString returned the own token, Del not yet called.
PCs == {"idle", "slot", "held", "stopping", "freed", "matched"}

SlotTaken == {h \in Handlers : pc[h] \in {"slot", "held", "stopping"}}
Beating   == {h \in Handlers : pc[h] \in {"held", "stopping"}}
Releasing == {h \in Handlers : pc[h] \in {"stopping", "freed", "matched"}}

TypeOK ==
  /\ slots \in Nat
  /\ token \in [Sessions -> Handlers \cup {None}]
  /\ live \in [Sessions -> BOOLEAN]
  /\ left \in [Sessions -> 0..TTL]
  /\ pc \in [Handlers -> PCs]
  /\ sess \in [Handlers -> Sessions \cup {None}]
  /\ due \in [Handlers -> BOOLEAN]
  /\ missed \in [Handlers -> 0..MaxMissed]

Init ==
  /\ slots = 0
  /\ token = [s \in Sessions |-> None]
  /\ live = [s \in Sessions |-> FALSE]
  /\ left = [s \in Sessions |-> 0]
  /\ pc = [h \in Handlers |-> "idle"]
  /\ sess = [h \in Handlers |-> None]
  /\ due = [h \in Handlers |-> FALSE]
  /\ missed = [h \in Handlers |-> 0]
-------------------------------------------------------------------------------
GiveBackSlot == IF slots > 0 THEN slots - 1 ELSE 0

\* tryLock, first half: the non-blocking send on rateCh.  When the channel is
\* full tryLock returns nil and nothing changes.
TakeSlot(h, s) ==
  /\ pc[h] = "idle"
  /\ slots < RateLimit
  /\ slots' = slots + 1
  /\ pc' = [pc EXCEPT ![h] = "slot"]
  /\ sess' = [sess EXCEPT ![h] = s]
  /\ UNCHANGED <<token, live, left, due, missed>>

\* Mutant: SetString without CheckExist.
SetKeyUnchecked(h) ==
  /\ pc[h] = "slot"
  /\ token' = [token EXCEPT ![sess[h]] = h]
  /\ live' = [live EXCEPT ![sess[h]] = TRUE]
  /\ left' = [left EXCEPT ![sess[h]] = TTL]
  /\ pc' = [pc EXCEPT ![h] = "held"]
  /\ due' = [due EXCEPT ![h] = FALSE]
  /\ missed' = [missed EXCEPT ![h] = 0]
  /\ UNCHANGED <<slots, sess>>

\* tryLock, second half: SetString with CheckExist writes the key when no
\* unexpired entry is there; the heartbeat starts.
SetKey(h) ==
  /\ pc[h] = "slot"
  /\ ~live[sess[h]]
  /\ token' = [token EXCEPT ![sess[h]] = h]
  /\ live' = [live EXCEPT ![sess[h]] = TRUE]
  /\ left' = [left EXCEPT ![sess[h]] = TTL]
  /\ pc' = [pc EXCEPT ![h] = "held"]
  /\ due' = [due EXCEPT ![h] = FALSE]
  /\ missed' = [missed EXCEPT ![h] = 0]
  /\ UNCHANGED <<slots, sess>>

\* Mutant: the slot is not returned when the key is taken.
RefuseKeepsSlot(h) ==
  /\ pc[h] = "slot"
  /\ pc' = [pc EXCEPT ![h] = "idle"]
  /\ UNCHANGED <<slots, token, live, left, sess, due, missed>>

\* SetString answered false (the key is there, or the store failed): the slot
\* goes back and tryLock returns nil.
Refuse(h) ==
  /\ pc[h] = "slot"
  /\ slots' = GiveBackSlot
  /\ pc' = [pc EXCEPT ![h] = "idle"]
  /\ UNCHANGED <<token, live, left, sess, due, missed>>

\* Mutant: the heartbeat renews the key for one heartbeat interval only.
BeatBriefly(h) ==
  /\ h \in Beating
  /\ due[h]
  /\ due' = [due EXCEPT ![h] = FALSE]
  /\ missed' = [missed EXCEPT ![h] = 0]
  /\ left' = [left EXCEPT ![sess[h]] = 1]
  /\ UNCHANGED <<slots, token, live, pc, sess>>

\* The store wrote the key and its answer was lost: tryLock returns nil as in
\* Refuse, and the key blocks the session until it expires.
SetLost(h) ==
  /\ pc[h] = "slot"
  /\ ~live[sess[h]]
  /\ token' = [token EXCEPT ![sess[h]] = h]
  /\ live' = [live EXCEPT ![sess[h]] = TRUE]
  /\ left' = [left EXCEPT ![sess[h]] = TTL]
  /\ slots' = GiveBackSlot
  /\ pc' = [pc EXCEPT ![h] = "idle"]
  /\ UNCHANGED <<sess, due, missed>>

\* renewLoop: the ticker fired and Expire(key, LockExpTime) reached the store.
\* It is not conditional on the token.  The loop may still serve a tick after
\* stopCh was closed (select picks either ready case).
Beat(h) ==
  /\ h \in Beating
  /\ due[h]
  /\ due' = [due EXCEPT ![h] = FALSE]
  /\ missed' = [missed EXCEPT ![h] = 0]
  /\ IF token[sess[h]] # None /\ (live[sess[h]] \/ Revives)
     THEN /\ live' = [live EXCEPT ![sess[h]] = TRUE]
          /\ left' = [left EXCEPT ![sess[h]] = TTL]
     ELSE UNCHANGED <<live, left>>
  /\ UNCHANGED <<slots, token, pc, sess>>

\* renewLoop: the store refused the renewal or did not answer in time.
Miss(h) ==
  /\ h \in Beating
  /\ due[h]
  /\ missed[h] < MaxMissed
  /\ due' = [due EXCEPT ![h] = FALSE]
  /\ missed' = [missed EXCEPT ![h] = @ + 1]
  /\ UNCHANGED <<slots, token, live, left, pc, sess>>

\* release: close(stopCh).
StopRenewal(h) ==
  /\ pc[h] = "held"
  /\ pc' = [pc EXCEPT ![h] = "stopping"]
  /\ UNCHANGED <<slots, token, live, left, sess, due, missed>>

\* release: the renewal loop has ended (<-l.stopped); receive from rateCh.
FreeSlot(h) ==
  /\ pc[h] = "stopping"
  /\ slots' = GiveBackSlot
  /\ due' = [due EXCEPT ![h] = FALSE]
  /\ pc' = [pc EXCEPT ![h] = "freed"]
  /\ UNCHANGED <<token, live, left, sess, missed>>

\* release: GetString; only the own token leads on to Del.
CheckToken(h) ==
  /\ pc[h] = "freed"
  /\ pc' = [pc EXCEPT ![h] = IF live[sess[h]] /\ token[sess[h]] = h
                             THEN "matched" ELSE "idle"]
  /\ UNCHANGED <<slots, token, live, left, sess, due, missed>>

\* release: the store does not answer the GetString; the key stays until it
\* expires.
CheckFails(h) ==
  /\ pc[h] = "freed"
  /\ pc' = [pc EXCEPT ![h] = "idle"]
  /\ UNCHANGED <<slots, token, live, left, sess, due, missed>>

\* release: Del(key), whatever token the key holds by now.
DeleteKey(h) ==
  /\ pc[h] = "matched"
  /\ token' = [token EXCEPT ![sess[h]] = None]
  /\ live' = [live EXCEPT ![sess[h]] = FALSE]
  /\ left' = [left EXCEPT ![sess[h]] = 0]
  /\ pc' = [pc EXCEPT ![h] = "idle"]
  /\ UNCHANGED <<slots, sess, due, missed>>

\* Mutant: entries are not looked at when their last interval is over.
TickPastExpiry ==
  /\ \E s \in Sessions : live[s]
  /\ \A h \in Beating : ~due[h]
  /\ MayStall \/ Releasing = {}
  /\ left' = [s \in Sessions |-> IF live[s] THEN left[s] - 1 ELSE 0]
  /\ due' = [h \in Handlers |-> h \in Beating]
  /\ UNCHANGED <<slots, token, live, pc, sess, missed>>

\* One heartbeat interval (200 s) passes: every entry is one interval nearer
\* to its expiry and every running ticker fires.  Store calls are bounded by
\* 5 s, so a pending heartbeat or (unless MayStall) a release is over by then.
Tick ==
  /\ \E s \in Sessions : live[s]
  /\ \A s \in Sessions : live[s] => left[s] > 0
  /\ \A h \in Beating : ~due[h]
  /\ MayStall \/ Releasing = {}
  /\ left' = [s \in Sessions |-> IF live[s] THEN left[s] - 1 ELSE 0]
  /\ due' = [h \in Handlers |-> h \in Beating]
  /\ UNCHANGED <<slots, token, live, pc, sess, missed>>

\* Mutant: a lock key that has no expiry.
LapseNever(s) == FALSE

\* The last interval is over and the entry expires.  The heartbeat that falls
\* on the same instant may come before or after.
Lapse(s) ==
  /\ live[s]
  /\ left[s] = 0
  /\ live' = [live EXCEPT ![s] = FALSE]
  /\ UNCHANGED <<slots, token, left, pc, sess, due, missed>>

TryLock(h) == \/ \E s \in Sessions : TakeSlot(h, s)
              \/ SetKey(h) \/ Refuse(h) \/ SetLost(h)
Renew(h) == Beat(h) \/ Miss(h)
Release(h) == StopRenewal(h) \/ FreeSlot(h) \/ CheckToken(h) \/ CheckFails(h)
              \/ DeleteKey(h)

Next ==
  \/ \E h \in Handlers : TryLock(h) \/ Renew(h) \/ Release(h)
  \/ Tick
  \/ \E s \in Sessions : Lapse(s)

Spec == Init /\ [][Next]_vars

\* Goroutines keep running, time passes, and a handler is done with its lock
\* eventually (its context has a deadline); nobody has to ask for a lock.
Fairness ==
  /\ \A h \in Handlers : /\ WF_vars(SetKey(h) \/ Refuse(h) \/ SetLost(h))
                         /\ WF_vars(Renew(h))
                         /\ WF_vars(Release(h))
  /\ WF_vars(Tick)
  /\ \A s \in Sessions : WF_vars(Lapse(s))

FairSpec == Spec /\ Fairness
-------------------------------------------------------------------------------
\* The lock excludes: two handlers are never both told that they hold the lock
\* of one session, so one ChatBot is never driven twice at a time.
MutualExclusion ==
  \A g, h \in Beating : g # h => sess[g] # sess[h]

\* rateCh counts exactly the handlers between tryLock's send and release's
\* receive: no path leaks a slot or returns one twice, and the number of
\* handlers that hold a lock stays within the rate limit.
SlotAccounting == slots = Cardinality(SlotTaken) /\ slots <= RateLimit

\* A holder whose release has not begun still finds its own token in the
\* store: the heartbeats outrun the expiry.
HolderKeepsKey ==
  \A h \in Handlers : pc[h] = "held" => live[sess[h]] /\ token[sess[h]] = h

\* What lock.go:65-67 says of release: the slot goes back last, after the key
\* has been deleted; a handler that has returned its slot has no key any more.
SlotReturnedLast ==
  \A h \in Handlers : pc[h] \in {"freed", "matched"} =>
                        ~(live[sess[h]] /\ token[sess[h]] = h)

\* Why it holds as long as fewer than TTL - 1 heartbeats in a row are lost and
\* no release stalls (inductive): between SetString and Del the key carries the
\* handler's token, and its remaining time is what the heartbeats lost so far
\* and the one now due have let pass.
LeaseInv ==
  \A h \in Handlers :
    /\ pc[h] # "idle" => sess[h] \in Sessions
    /\ pc[h] \in {"held", "stopping", "freed", "matched"} =>
         live[sess[h]] /\ token[sess[h]] = h /\ left[sess[h]] >= 1
    /\ h \in Beating =>
         left[sess[h]] = TTL - missed[h] - (IF due[h] THEN 1 ELSE 0)

\* No key outlives its handlers for good: whatever heartbeats are lost and
\* whatever release fails, every session becomes lockable again and again.
NoZombieLock == \A s \in Sessions : []<>(~live[s])

\* The lock implements the mutual exclusion its callers rely on; a release
\* takes effect for them when the slot is given back.
Busy == [h \in Handlers |-> IF h \in Beating THEN sess[h] ELSE None]
Mutex == INSTANCE SessionMutex WITH busy <- Busy
ImplementsMutex == Mutex!Spec
================================================================================
