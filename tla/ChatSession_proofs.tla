------------------------- MODULE ChatSession_proofs -------------------------
(***************************************************************************)
(* Theorems about ChatSession, for any number of sessions, messages,       *)
(* subagents, probes and /stop commands.                                   *)
(***************************************************************************)
EXTENDS ChatSession, FiniteSetTheorems, TLAPS

USE ChatAssumption DEF ChatAssumption

\* Every variable keeps its type; in particular a queue never exceeds
\* maxPendingMessages.
THEOREM TypeCorrect == Spec => []TypeOK
<1>1. Init => TypeOK
  BY SMT DEF Init, TypeOK, Handlers, Msgs, PCs, Fates
<1>2. TypeOK /\ [Next]_vars => TypeOK'
  <2> SUFFICES ASSUME TypeOK, [Next]_vars PROVE TypeOK'
    OBVIOUS
  <2> USE DEF TypeOK
  <2>a. /\ "locked" \in PCs /\ "ready" \in PCs /\ "drain" \in PCs
        /\ "chat" \in PCs /\ "waiting" \in PCs /\ "redrain" \in PCs
        /\ "abort" \in PCs /\ "unwind" \in PCs /\ "probing" \in PCs
        /\ "new" \in PCs /\ "refused" \in PCs /\ "running" \in PCs
        /\ "result" \in PCs /\ "retry" \in PCs /\ "release" \in PCs
        /\ "unlock" \in PCs /\ "done" \in PCs /\ "stopDrain" \in PCs
        /\ "stopReq" \in PCs
    BY DEF PCs, Responding
  <2>b. Msgs \subseteq Handlers /\ Users \subseteq Msgs /\ Subs \subseteq Msgs
        /\ Probes \subseteq Handlers
        /\ \A h \in Handlers \cup Stops : Sess(h) \in Sessions
    BY DEF Handlers, Msgs, Sess
  <2>g. ASSUME NEW h \in Handlers \cup Stops, NEW p \in PCs, Goto(h, p)
        PROVE  pc' \in [Handlers \cup Stops -> PCs]
    BY <2>g DEF Goto
  <2>c. ASSUME NEW M, NEW f \in Fates PROVE Fated(M, f) \in [Msgs -> Fates]
    BY DEF Fated
  <2>d. ASSUME NEW s \in Sessions
        PROVE  /\ Drained(s) \in [Sessions -> Seq(Msgs)]
               /\ \A r \in Sessions : Len(Drained(s)[r]) <= MaxPending
    BY DEF Drained
  <2>e. /\ "none" \in Fates /\ "answered" \in Fates /\ "blocked" \in Fates
        /\ "denied" \in Fates /\ "failed" \in Fates /\ "discarded" \in Fates
        /\ "stopped" \in Fates /\ "full" \in Fates /\ "canceled" \in Fates
        /\ "lost" \in Fates
    BY DEF Fates
  <2>f. ASSUME NEW h \in Handlers, CanLock(Sess(h)), LockIn(h)
        PROVE  /\ slots' \in 0..RateLimit
               /\ lock' \in [Sessions -> Handlers \cup {None}]
    BY <2>f, <2>b DEF CanLock, LockIn
  <2>h. ASSUME NEW m \in Msgs, EndBatch(m) PROVE batch' \in [Msgs -> Seq(Msgs)]
    BY <2>h DEF EndBatch
  <2>i. ASSUME NEW m \in Msgs, Stopped(m)
        PROVE  pc' \in [Handlers \cup Stops -> PCs]
    BY <2>i, <2>a, <2>b, <2>g DEF Stopped
  <2>1. ASSUME NEW m \in Users, UserTryLock(m) PROVE TypeOK'
    BY <2>1, <2>a, <2>b, <2>g, <2>f DEF UserTryLock
  <2>2. ASSUME NEW m \in Msgs, Enqueue(m) PROVE TypeOK'
    <3>1. CASE Len(queue[Sess(m)]) < MaxPending
      <4>1. /\ queue' \in [Sessions -> Seq(Msgs)]
            /\ \A s \in Sessions : Len(queue'[s]) <= MaxPending
        <5>1. /\ queue[Sess(m)] \in Seq(Msgs)
              /\ queue' = [queue EXCEPT ![Sess(m)] = Append(queue[Sess(m)], m)]
          BY <2>2, <3>1, <2>b DEF Enqueue
        <5>2. /\ Append(queue[Sess(m)], m) \in Seq(Msgs)
              /\ Len(Append(queue[Sess(m)], m)) = Len(queue[Sess(m)]) + 1
              /\ Len(queue[Sess(m)]) \in Nat
          BY <5>1
        <5> QED
          BY <5>1, <5>2, <3>1, <2>b
      <4> QED
        BY <2>2, <3>1, <4>1, <2>a, <2>b, <2>g DEF Enqueue
    <3>2. CASE ~(Len(queue[Sess(m)]) < MaxPending)
      <4>1. queue' = queue /\ fate' = Fated({m}, "full") /\ Goto(m, "done")
            /\ UNCHANGED <<slots, lock, active, canceled, batch>>
        BY <2>2, <3>2 DEF Enqueue
      <4> QED
        BY <4>1, <2>a, <2>b, <2>c, <2>e, <2>g
    <3> QED
      BY <3>1, <3>2
  <2>3. ASSUME NEW m \in Msgs, SubTryLock(m) PROVE TypeOK'
    BY <2>3, <2>a, <2>b, <2>g, <2>f DEF SubTryLock
  <2>4. ASSUME NEW m \in Msgs, GetChat(m) PROVE TypeOK'
    BY <2>4, <2>a, <2>b, <2>g DEF GetChat
  <2>5. ASSUME NEW m \in Msgs, GetChatFails(m) PROVE TypeOK'
    <3>1. pc' \in [Handlers \cup Stops -> PCs]
      BY <2>5, <2>a, <2>b, <2>g DEF GetChatFails
    <3>2. CASE m \in Users
      BY <2>5, <3>1, <3>2, <2>c, <2>e DEF GetChatFails
    <3>3. CASE m \notin Users
      BY <2>5, <3>1, <3>3, <2>b, <2>c, <2>d, <2>e DEF GetChatFails
    <3> QED
      BY <3>2, <3>3
  <2>6. ASSUME NEW m \in Msgs, Activate(m) PROVE TypeOK'
    BY <2>6, <2>a, <2>b, <2>g DEF Activate
  <2>7. ASSUME NEW m \in Msgs, FirstDrain(m) PROVE TypeOK'
    <3>1. batch' \in [Msgs -> Seq(Msgs)]
      BY <2>7, <2>b DEF FirstDrain
    <3>2. pc' \in [Handlers \cup Stops -> PCs]
      BY <2>7, <2>a, <2>b, <2>g DEF FirstDrain
    <3> QED
      BY <2>7, <2>b, <2>d, <3>1, <3>2 DEF FirstDrain
  <2>8. ASSUME NEW m \in Msgs, ClearFails(m) PROVE TypeOK'
    BY <2>8, <2>c, <2>e, <2>h, <2>i DEF ClearFails
  <2>9. ASSUME NEW m \in Msgs, NEW f \in Fates, EndAndDrop(m, f),
               UNCHANGED <<slots, lock, active, canceled>>
        PROVE  TypeOK'
    BY <2>9, <2>b, <2>d, <2>e, <2>h, <2>i DEF EndAndDrop
  <2>10. ASSUME NEW m \in Msgs, Deny(m) PROVE TypeOK'
    BY <2>9, <2>10, <2>e DEF Deny
  <2>11. ASSUME NEW m \in Msgs, StartChat(m) PROVE TypeOK'
    BY <2>11, <2>a, <2>b, <2>g DEF StartChat
  <2>12. ASSUME NEW m \in Msgs, ChatFails(m) PROVE TypeOK'
    BY <2>9, <2>12, <2>e DEF ChatFails
  <2>13. ASSUME NEW m \in Msgs, Panic(m) PROVE TypeOK'
    BY <2>13, <2>a, <2>b, <2>g, <2>c, <2>e, <2>h DEF Panic
  <2>14. ASSUME NEW m \in Msgs, NEW f \in {"answered", "blocked"}, Reply(m, f)
         PROVE  TypeOK'
    BY <2>14, <2>a, <2>b, <2>g, <2>c, <2>e, <2>h DEF Reply
  <2>15. ASSUME NEW m \in Msgs, Redrain(m) PROVE TypeOK'
    BY <2>15, <2>a, <2>b, <2>g, <2>d DEF Redrain
  <2>16. ASSUME NEW m \in Msgs, AbortDrain(m) PROVE TypeOK'
    BY <2>16, <2>a, <2>b, <2>g, <2>c, <2>d, <2>e DEF AbortDrain
  <2>17. ASSUME NEW m \in Msgs, Unwind(m) PROVE TypeOK'
    BY <2>17, <2>a, <2>b, <2>g DEF Unwind
  <2>18. ASSUME NEW b \in Msgs, SubEnds(b) PROVE TypeOK'
    <3>0. canceled' \subseteq Msgs /\ UNCHANGED <<slots, lock, queue, active, batch>>
      BY <2>18 DEF SubEnds
    <3>1. CASE Goto(b, "done") /\ fate' = Fated({b}, "canceled")
      BY <3>0, <3>1, <2>a, <2>b, <2>c, <2>e, <2>g
    <3>2. CASE Goto(b, "result") /\ UNCHANGED fate
      BY <3>0, <3>2, <2>a, <2>b, <2>g
    <3> QED
      BY <2>18, <3>1, <3>2 DEF SubEnds
  <2>19. ASSUME NEW m \in Msgs, Deadline(m) PROVE TypeOK'
    BY <2>19 DEF Deadline
  <2>20. ASSUME NEW m \in Msgs, Recycle(m) PROVE TypeOK'
    BY <2>20, <2>a, <2>b, <2>g, <2>c, <2>e DEF Recycle
  <2>21. ASSUME NEW b \in Subs, Launch(b) PROVE TypeOK'
    BY <2>21, <2>a, <2>b, <2>g DEF Launch
  <2>22. ASSUME NEW p \in Probes, Probe(p) PROVE TypeOK'
    BY <2>22, <2>a, <2>b, <2>g, <2>f DEF Probe
  <2>23. ASSUME NEW p \in Probes, ProbeEnds(p) PROVE TypeOK'
    BY <2>23, <2>a, <2>b, <2>g DEF ProbeEnds
  <2>24. ASSUME NEW h \in Handlers, FreeSlot(h) PROVE TypeOK'
    BY <2>24, <2>a, <2>b, <2>g DEF FreeSlot
  <2>25. ASSUME NEW h \in Handlers, Unlock(h) PROVE TypeOK'
    BY <2>25, <2>a, <2>b, <2>g DEF Unlock
  <2>26. ASSUME NEW c \in Stops, StopSubagents(c) PROVE TypeOK'
    BY <2>26, <2>a, <2>b, <2>g DEF StopSubagents
  <2>27. ASSUME NEW c \in Stops, StopDrain(c) PROVE TypeOK'
    BY <2>27, <2>a, <2>b, <2>g, <2>c, <2>d, <2>e DEF StopDrain
  <2>28. ASSUME NEW c \in Stops, StopRequest(c) PROVE TypeOK'
    BY <2>28, <2>a, <2>b, <2>g DEF StopRequest
  <2>29. CASE UNCHANGED vars
    BY <2>29 DEF vars
  <2>30. ASSUME NEW m \in Msgs, Proceed(m) PROVE TypeOK'
    BY <2>30, <2>2, <2>3, <2>4, <2>5, <2>6, <2>7, <2>8, <2>10, <2>11, <2>12,
       <2>13, <2>14, <2>15, <2>16, <2>17, <2>18, Zenon DEF Proceed
  <2> HIDE DEF TypeOK
  <2> QED
    BY <2>1, <2>19, <2>20, <2>21, <2>22, <2>23, <2>24, <2>25, <2>26, <2>27,
       <2>28, <2>29, <2>30 DEF Next, Stop
<1> QED
  BY <1>1, <1>2, PTL DEF Spec
-------------------------------------------------------------------------------
\* A step that takes or gives back no lock leaves every holder a holder, and a
\* handler becomes one only through LockIn.
KeepsHolders ==
  /\ lock' = lock
  /\ \A h \in Handlers : Holds(h)' => Holds(h)

\* The steps a message takes by itself, all but SubTryLock, keep the holders.
LEMMA ProceedKeepsHolders ==
  ASSUME TypeOK, NEW m \in Msgs, Proceed(m), ~SubTryLock(m)
  PROVE  KeepsHolders
<1> USE DEF KeepsHolders, Holds, Responding, Goto
<1>0. m \in Handlers /\ pc \in [Handlers \cup Stops -> PCs]
  BY DEF TypeOK, Handlers
<1>1. CASE Enqueue(m)
  BY <1>0, <1>1 DEF Enqueue
<1>2. CASE GetChat(m) \/ GetChatFails(m) \/ Activate(m)
  BY <1>0, <1>2 DEF GetChat, GetChatFails, Activate
<1>3. CASE FirstDrain(m)
  BY <1>0, <1>3 DEF FirstDrain
<1>4. CASE ClearFails(m) \/ Deny(m) \/ ChatFails(m)
  <2>1. lock' = lock /\ pc[m] \in {"chat", "waiting"} /\ Stopped(m)
    BY <1>4 DEF ClearFails, Deny, ChatFails, EndAndDrop
  <2> QED
    BY <1>0, <2>1 DEF Stopped
<1>5. CASE StartChat(m) \/ Panic(m) \/ \E f \in {"answered", "blocked"} : Reply(m, f)
  BY <1>0, <1>5 DEF StartChat, Panic, Reply
<1>6. CASE Redrain(m)
  BY <1>0, <1>6 DEF Redrain
<1>7. CASE AbortDrain(m) \/ Unwind(m)
  BY <1>0, <1>7 DEF AbortDrain, Unwind
<1>8. CASE SubEnds(m)
  BY <1>0, <1>8 DEF SubEnds
<1> QED
  BY <1>1, <1>2, <1>3, <1>4, <1>5, <1>6, <1>7, <1>8 DEF Proceed

\* The steps of Next: they keep the holders, lock a free session, or free a
\* session of its holder.
LEMMA HolderSteps ==
  ASSUME TypeOK, [Next]_vars
  PROVE  \/ KeepsHolders
         \/ \E h \in Handlers :
              /\ CanLock(Sess(h)) /\ LockIn(h) /\ UNCHANGED active
              /\ Goto(h, "locked") \/ Goto(h, "probing")
         \/ \E h \in Handlers : Unlock(h)
<1> USE DEF KeepsHolders, Holds, Responding, Goto
<1>0. /\ Msgs \subseteq Handlers /\ Users \subseteq Msgs /\ Subs \subseteq Msgs
      /\ Probes \subseteq Handlers
      /\ pc \in [Handlers \cup Stops -> PCs]
  BY DEF TypeOK, Handlers, Msgs
<1>1. CASE \E m \in Users : UserTryLock(m)
  BY <1>0, <1>1 DEF UserTryLock
<1>2. CASE \E b \in Subs : Launch(b)
  BY <1>0, <1>2 DEF Launch
<1>3. CASE \E m \in Msgs : Proceed(m)
  <2>1. CASE \E m \in Msgs : SubTryLock(m)
    BY <1>0, <2>1 DEF SubTryLock
  <2>2. CASE \A m \in Msgs : ~SubTryLock(m)
    BY <1>3, <2>2, ProceedKeepsHolders
  <2> QED
    BY <2>1, <2>2
<1>4. CASE \E m \in Msgs : Deadline(m) \/ Recycle(m)
  BY <1>0, <1>4 DEF Deadline, Recycle
<1>5. CASE \E p \in Probes : Probe(p) \/ ProbeEnds(p)
  BY <1>0, <1>5 DEF Probe, ProbeEnds
<1>6. CASE \E h \in Handlers : FreeSlot(h)
  BY <1>0, <1>6 DEF FreeSlot
<1>7. CASE \E h \in Handlers : Unlock(h)
  BY <1>7
<1>8. CASE \E c \in Stops : Stop(c)
  BY <1>0, <1>8 DEF Stop, StopSubagents, StopDrain, StopRequest
<1>9. CASE UNCHANGED vars
  BY <1>9 DEF vars
<1> QED
  BY <1>1, <1>2, <1>3, <1>4, <1>5, <1>6, <1>7, <1>8, <1>9, Zenon DEF Next

\* At most one handler drives a session's ChatBot, and it is the one whose
\* token is in the session's lock key.
THEOREM RespondsAlone == Spec => []OneResponder
<1>1. Init => OneResponder
  BY DEF Init, OneResponder, Holds, Responding
<1>2. TypeOK /\ OneResponder /\ [Next]_vars => OneResponder'
  <2> SUFFICES ASSUME TypeOK, OneResponder, [Next]_vars PROVE OneResponder'
    OBVIOUS
  <2>0. /\ lock \in [Sessions -> Handlers \cup {None}]
        /\ pc \in [Handlers \cup Stops -> PCs]
        /\ \A h \in Handlers : Sess(h) \in Sessions
    BY DEF TypeOK, Sess
  <2>1. CASE KeepsHolders
    BY <2>1 DEF KeepsHolders, OneResponder, Holds, Sess
  <2>2. ASSUME NEW h \in Handlers, CanLock(Sess(h)), LockIn(h),
               Goto(h, "locked") \/ Goto(h, "probing")
        PROVE  OneResponder'
    BY <2>0, <2>2 DEF CanLock, LockIn, Goto, OneResponder, Holds, Sess
  <2>3. ASSUME NEW h \in Handlers, Unlock(h) PROVE OneResponder'
    BY <2>0, <2>3 DEF Unlock, Goto, OneResponder, Holds, Responding, Sess
  <2> QED
    BY <2>1, <2>2, <2>3, HolderSteps
<1> QED
  BY <1>1, <1>2, TypeCorrect, PTL DEF Spec
-------------------------------------------------------------------------------
\* A lock key names a handler of its own session.
LockOwned == \A s \in Sessions : lock[s] # None => Sess(lock[s]) = s

LEMMA LocksOwned == Spec => []LockOwned
<1>1. Init => LockOwned
  BY DEF Init, LockOwned
<1>2. TypeOK /\ LockOwned /\ [Next]_vars => LockOwned'
  <2> SUFFICES ASSUME TypeOK, LockOwned, [Next]_vars PROVE LockOwned'
    OBVIOUS
  <2>0. lock \in [Sessions -> Handlers \cup {None}]
    BY DEF TypeOK
  <2>1. CASE KeepsHolders
    BY <2>1 DEF KeepsHolders, LockOwned, Sess
  <2>2. ASSUME NEW h \in Handlers, LockIn(h) PROVE LockOwned'
    BY <2>0, <2>2 DEF LockIn, LockOwned, Sess
  <2>3. ASSUME NEW h \in Handlers, Unlock(h) PROVE LockOwned'
    BY <2>0, <2>3 DEF Unlock, LockOwned, Sess
  <2> QED
    BY <2>1, <2>2, <2>3, HolderSteps
<1> QED
  BY <1>1, <1>2, TypeCorrect, PTL DEF Spec

\* /stop can only cancel the response under way, and the deferred
\* clearActiveContext never removes another handler's cancel function.
THEOREM CancelsTheResponder == Spec => []ActiveIsResponder
<1> DEFINE Steady == {"drain", "chat", "waiting", "redrain", "abort", "unwind"}
<1>1. Init => ActiveIsResponder
  BY DEF Init, ActiveIsResponder
<1>2. /\ TypeOK /\ OneResponder /\ LockOwned /\ ActiveIsResponder
      /\ [Next]_vars
      => ActiveIsResponder'
  <2> SUFFICES ASSUME TypeOK, OneResponder, LockOwned, ActiveIsResponder,
                      [Next]_vars
               PROVE  ActiveIsResponder'
    OBVIOUS
  <2>0. /\ lock \in [Sessions -> Handlers \cup {None}]
        /\ active \in [Sessions -> Msgs \cup {None}]
        /\ pc \in [Handlers \cup Stops -> PCs]
        /\ \A h \in Handlers : Sess(h) \in Sessions
        /\ Msgs \subseteq Handlers /\ Users \subseteq Msgs
        /\ Subs \subseteq Msgs /\ Probes \subseteq Handlers
        /\ Probes \cap Msgs = {} /\ Stops \cap Msgs = {}
    BY DEF TypeOK, Sess, Handlers, Msgs
  <2>a. \A s \in Sessions : active[s] # None =>
          lock[s] = active[s] /\ pc[active[s]] \in Steady /\ Sess(active[s]) = s
    BY <2>0 DEF ActiveIsResponder, LockOwned
  \* A step that moves h from one control point to another does no harm when
  \* the first is not one of a registered handler or the second is.
  <2>b. ASSUME NEW h \in Handlers \cup Stops, NEW q, Goto(h, q), UNCHANGED lock,
               UNCHANGED active, pc[h] \notin Steady \/ q \in Steady \/ h \in Stops
        PROVE  ActiveIsResponder'
    BY <2>0, <2>a, <2>b DEF ActiveIsResponder, Goto
  <2>c. ASSUME NEW h \in Handlers, NEW q, Goto(h, q), CanLock(Sess(h)), LockIn(h),
               UNCHANGED active, pc[h] \notin Steady
        PROVE  ActiveIsResponder'
    BY <2>0, <2>a, <2>c DEF ActiveIsResponder, Goto, CanLock, LockIn
  <2>1. ASSUME NEW m \in Users, UserTryLock(m) PROVE ActiveIsResponder'
    BY <2>0, <2>1, <2>b, <2>c DEF UserTryLock
  <2>2. ASSUME NEW m \in Msgs, Enqueue(m) PROVE ActiveIsResponder'
    BY <2>0, <2>2, <2>b DEF Enqueue
  <2>3. ASSUME NEW m \in Msgs, SubTryLock(m) PROVE ActiveIsResponder'
    BY <2>0, <2>3, <2>b, <2>c DEF SubTryLock
  <2>4. ASSUME NEW m \in Msgs, GetChat(m) \/ GetChatFails(m)
        PROVE  ActiveIsResponder'
    BY <2>0, <2>4, <2>b DEF GetChat, GetChatFails
  <2>5. ASSUME NEW m \in Msgs, Activate(m) PROVE ActiveIsResponder'
    <3>1. lock[Sess(m)] = m
      BY <2>0, <2>5 DEF Activate, OneResponder, Holds, Responding
    <3> QED
      BY <2>0, <2>5, <2>a, <3>1 DEF Activate, ActiveIsResponder, Goto
  <2>6. ASSUME NEW m \in Msgs, FirstDrain(m) \/ Redrain(m)
        PROVE  ActiveIsResponder'
    BY <2>0, <2>6, <2>b DEF FirstDrain, Redrain
  <2>7. ASSUME NEW m \in Msgs, ClearFails(m) \/ Deny(m) \/ ChatFails(m)
        PROVE  ActiveIsResponder'
    <3>1. UNCHANGED <<lock, active>> /\ Stopped(m)
      BY <2>7 DEF ClearFails, Deny, ChatFails, EndAndDrop
    <3> QED
      BY <2>0, <2>b, <3>1 DEF Stopped
  <2>8. ASSUME NEW m \in Msgs, StartChat(m) \/ Panic(m) \/ AbortDrain(m)
        PROVE  ActiveIsResponder'
    BY <2>0, <2>8, <2>b DEF StartChat, Panic, AbortDrain
  <2>9. ASSUME NEW m \in Msgs, NEW f \in {"answered", "blocked"}, Reply(m, f)
        PROVE  ActiveIsResponder'
    BY <2>0, <2>9, <2>b DEF Reply
  <2>10. ASSUME NEW m \in Msgs, Unwind(m) PROVE ActiveIsResponder'
    BY <2>0, <2>10, <2>a DEF Unwind, ActiveIsResponder, Goto
  <2>11. ASSUME NEW b \in Msgs, SubEnds(b) PROVE ActiveIsResponder'
    BY <2>0, <2>11, <2>b DEF SubEnds
  <2>12. ASSUME NEW b \in Subs, Launch(b) PROVE ActiveIsResponder'
    BY <2>0, <2>12, <2>b DEF Launch
  <2>13. ASSUME NEW m \in Msgs, Deadline(m) \/ Recycle(m)
         PROVE  ActiveIsResponder'
    <3>1. CASE Deadline(m)
      BY <3>1 DEF Deadline, ActiveIsResponder
    <3>2. CASE Recycle(m)
      BY <2>0, <3>2, <2>b DEF Recycle
    <3> QED
      BY <2>13, <3>1, <3>2
  <2>14. ASSUME NEW p \in Probes, Probe(p) \/ ProbeEnds(p)
         PROVE  ActiveIsResponder'
    BY <2>0, <2>14, <2>b, <2>c DEF Probe, ProbeEnds
  <2>15. ASSUME NEW h \in Handlers, FreeSlot(h) PROVE ActiveIsResponder'
    BY <2>0, <2>15, <2>b DEF FreeSlot
  <2>16. ASSUME NEW h \in Handlers, Unlock(h) PROVE ActiveIsResponder'
    <3>1. lock[Sess(h)] = h
      BY <2>16 DEF Unlock, OneResponder, Holds
    <3> QED
      BY <2>0, <2>16, <2>a, <3>1 DEF Unlock, ActiveIsResponder, Goto
  <2>17. ASSUME NEW c \in Stops, StopSubagents(c) \/ StopDrain(c)
         PROVE  ActiveIsResponder'
    BY <2>0, <2>17, <2>b DEF StopSubagents, StopDrain
  <2>18. ASSUME NEW c \in Stops, StopRequest(c) PROVE ActiveIsResponder'
    BY <2>0, <2>18, <2>a DEF StopRequest, ActiveIsResponder, Goto
  <2>19. CASE UNCHANGED vars
    BY <2>19 DEF vars, ActiveIsResponder
  <2>20. ASSUME NEW m \in Msgs, Proceed(m) PROVE ActiveIsResponder'
    BY <2>20, <2>2, <2>3, <2>4, <2>5, <2>6, <2>7, <2>8, <2>9, <2>10, <2>11,
       Zenon DEF Proceed
  <2> QED
    BY <2>1, <2>12, <2>13, <2>14, <2>15, <2>16, <2>17, <2>18, <2>19, <2>20
       DEF Next, Stop
<1> QED
  BY <1>1, <1>2, TypeCorrect, RespondsAlone, LocksOwned, PTL DEF Spec
-------------------------------------------------------------------------------
\* A step leaves the slots alone, takes one for a handler without a slot, or
\* returns the one of a handler that has it.
KeepsSlots == SlotHolders' = SlotHolders /\ slots' = slots

LEMMA SlotSteps ==
  ASSUME TypeOK, [Next]_vars
  PROVE  \/ KeepsSlots
         \/ \E h \in Handlers \ SlotHolders :
              SlotHolders' = SlotHolders \cup {h} /\ slots' = slots + 1
         \/ \E h \in SlotHolders :
              /\ SlotHolders' = SlotHolders \ {h}
              /\ slots' = IF slots > 0 THEN slots - 1 ELSE 0
<1> DEFINE With == Responding \cup {"release"}
           Goal == \/ KeepsSlots
                   \/ \E h \in Handlers \ SlotHolders :
                        SlotHolders' = SlotHolders \cup {h} /\ slots' = slots + 1
                   \/ \E h \in SlotHolders :
                        /\ SlotHolders' = SlotHolders \ {h}
                        /\ slots' = IF slots > 0 THEN slots - 1 ELSE 0
<1>0. /\ Msgs \subseteq Handlers /\ Users \subseteq Msgs /\ Subs \subseteq Msgs
      /\ Probes \subseteq Handlers /\ Stops \cap Handlers = {}
      /\ pc \in [Handlers \cup Stops -> PCs]
  BY DEF TypeOK, Handlers, Msgs
<1>a. ASSUME NEW h \in Handlers \cup Stops, NEW q, Goto(h, q), UNCHANGED slots,
             pc[h] \in With <=> q \in With
      PROVE  Goal
  BY <1>0, <1>a DEF SlotHolders, Goto, KeepsSlots
<1>c. ASSUME NEW c \in Stops, NEW q, Goto(c, q), UNCHANGED slots
      PROVE  Goal
  BY <1>0, <1>c DEF SlotHolders, Goto, KeepsSlots
<1>b. ASSUME NEW h \in Handlers, NEW q, Goto(h, q), LockIn(h),
             pc[h] \notin With, q \in With
      PROVE  Goal
  <2>1. h \in Handlers \ SlotHolders /\ SlotHolders' = SlotHolders \cup {h}
    BY <1>0, <1>b DEF SlotHolders, Goto
  <2> QED
    BY <2>1, <1>b DEF LockIn
<1> HIDE DEF Goal
<1> USE DEF Responding
<1>1. ASSUME NEW m \in Users, UserTryLock(m) PROVE Goal
  BY <1>0, <1>1, <1>a, <1>b DEF UserTryLock
<1>2. ASSUME NEW m \in Msgs, Enqueue(m) PROVE Goal
  BY <1>0, <1>2, <1>a DEF Enqueue
<1>3. ASSUME NEW m \in Msgs, SubTryLock(m) PROVE Goal
  BY <1>0, <1>3, <1>a, <1>b DEF SubTryLock
<1>4. ASSUME NEW m \in Msgs, GetChat(m) \/ GetChatFails(m) \/ Activate(m)
      PROVE  Goal
  BY <1>0, <1>4, <1>a DEF GetChat, GetChatFails, Activate
<1>5. ASSUME NEW m \in Msgs, FirstDrain(m) \/ Redrain(m) PROVE Goal
  BY <1>0, <1>5, <1>a DEF FirstDrain, Redrain
<1>6. ASSUME NEW m \in Msgs, ClearFails(m) \/ Deny(m) \/ ChatFails(m) PROVE Goal
  <2>1. slots' = slots /\ pc[m] \in {"chat", "waiting"} /\ Stopped(m)
    BY <1>6 DEF ClearFails, Deny, ChatFails, EndAndDrop
  <2> QED
    BY <1>0, <2>1, <1>a DEF Stopped
<1>7. ASSUME NEW m \in Msgs, StartChat(m) \/ Panic(m) \/ AbortDrain(m) \/ Unwind(m)
      PROVE  Goal
  BY <1>0, <1>7, <1>a DEF StartChat, Panic, AbortDrain, Unwind
<1>8. ASSUME NEW m \in Msgs, NEW f \in {"answered", "blocked"}, Reply(m, f)
      PROVE  Goal
  BY <1>0, <1>8, <1>a DEF Reply
<1>9. ASSUME NEW b \in Msgs, SubEnds(b) PROVE Goal
  BY <1>0, <1>9, <1>a DEF SubEnds
<1>10. ASSUME NEW b \in Subs, Launch(b) PROVE Goal
  BY <1>0, <1>10, <1>a DEF Launch
<1>11. ASSUME NEW m \in Msgs, Deadline(m) \/ Recycle(m) PROVE Goal
  <2>1. CASE Deadline(m)
    BY <2>1 DEF Deadline, SlotHolders, KeepsSlots, Goal
  <2>2. CASE Recycle(m)
    BY <1>0, <2>2, <1>a DEF Recycle
  <2> QED
    BY <1>11, <2>1, <2>2
<1>12. ASSUME NEW p \in Probes, Probe(p) \/ ProbeEnds(p) PROVE Goal
  BY <1>0, <1>12, <1>a, <1>b DEF Probe, ProbeEnds
<1>13. ASSUME NEW h \in Handlers, FreeSlot(h) PROVE Goal
  <2>1. h \in SlotHolders /\ SlotHolders' = SlotHolders \ {h}
    BY <1>0, <1>13 DEF FreeSlot, SlotHolders, Goto
  <2> QED
    BY <2>1, <1>13 DEF FreeSlot, Goal
<1>14. ASSUME NEW h \in Handlers, Unlock(h) PROVE Goal
  BY <1>0, <1>14, <1>a DEF Unlock
<1>15. ASSUME NEW c \in Stops, Stop(c) PROVE Goal
  <2>1. /\ slots' = slots
        /\ Goto(c, "stopDrain") \/ Goto(c, "stopReq") \/ Goto(c, "new")
    BY <1>15 DEF Stop, StopSubagents, StopDrain, StopRequest
  <2> QED
    BY <2>1, <1>c
<1>16. CASE UNCHANGED vars
  BY <1>16 DEF vars, SlotHolders, KeepsSlots, Goal
<1>17. ASSUME NEW m \in Msgs, Proceed(m) PROVE Goal
  BY <1>17, <1>2, <1>3, <1>4, <1>5, <1>6, <1>7, <1>8, <1>9, Zenon DEF Proceed
<1>18. Next => Goal
  BY <1>1, <1>10, <1>11, <1>12, <1>13, <1>14, <1>15, <1>17, Zenon DEF Next
<1> QED
  BY <1>16, <1>18 DEF Goal

\* rateCh counts the requests under way: no way through a handler leaks a slot
\* or returns it twice.
THEOREM SlotsAreCounted == Spec => []SlotsMatch
<1>1. Init => SlotsMatch
  <2> SUFFICES ASSUME Init PROVE SlotsMatch
    OBVIOUS
  <2>1. SlotHolders = {}
    BY DEF Init, SlotHolders, Responding
  <2> QED
    BY <2>1, FS_EmptySet DEF Init, SlotsMatch
<1>2. TypeOK /\ SlotsMatch /\ [Next]_vars => SlotsMatch'
  <2> SUFFICES ASSUME TypeOK, SlotsMatch, [Next]_vars PROVE SlotsMatch'
    OBVIOUS
  <2>0. IsFiniteSet(SlotHolders) /\ SlotHolders \subseteq Handlers
    BY FS_Subset DEF SlotHolders
  <2>1. CASE KeepsSlots
    BY <2>1 DEF KeepsSlots, SlotsMatch
  <2>2. ASSUME NEW h \in Handlers \ SlotHolders,
               SlotHolders' = SlotHolders \cup {h}, slots' = slots + 1
        PROVE  SlotsMatch'
    BY <2>0, <2>2, FS_AddElement DEF SlotsMatch
  <2>3. ASSUME NEW h \in SlotHolders,
               SlotHolders' = SlotHolders \ {h},
               slots' = IF slots > 0 THEN slots - 1 ELSE 0
        PROVE  SlotsMatch'
    <3>1. Cardinality(SlotHolders \ {h}) = Cardinality(SlotHolders) - 1
      BY <2>0, FS_RemoveElement
    <3>2. Cardinality(SlotHolders) \in Nat /\ Cardinality(SlotHolders \ {h}) \in Nat
      BY <2>0, FS_CardinalityType, FS_RemoveElement
    <3> QED
      BY <2>3, <3>1, <3>2 DEF SlotsMatch
  <2> QED
    BY <2>1, <2>2, <2>3, SlotSteps
<1> QED
  BY <1>1, <1>2, TypeCorrect, PTL DEF Spec
-------------------------------------------------------------------------------
\* No message occurs twice in a sequence.
Unique(seq) == \A i, j \in DOMAIN seq : seq[i] = seq[j] => i = j

LEMMA EmptySequence == ToSet(<<>>) = {} /\ Unique(<<>>)
BY DEF ToSet, Unique

LEMMA AppendedSequence ==
  ASSUME NEW seq \in Seq(Msgs), NEW m \in Msgs
  PROVE  /\ Append(seq, m) \in Seq(Msgs) /\ Append(seq, m) # <<>>
         /\ ToSet(Append(seq, m)) = ToSet(seq) \cup {m}
         /\ Unique(seq) /\ m \notin ToSet(seq) => Unique(Append(seq, m))
<1> DEFINE app == Append(seq, m)
<1>1. /\ app \in Seq(Msgs) /\ Len(app) = Len(seq) + 1 /\ Len(seq) \in Nat
      /\ app[Len(seq) + 1] = m /\ \A i \in 1..Len(seq) : app[i] = seq[i]
      /\ DOMAIN app = 1..(Len(seq) + 1) /\ DOMAIN seq = 1..Len(seq)
  OBVIOUS
<1>2. app # <<>>
  BY <1>1
<1> HIDE DEF app
<1>3. ToSet(app) = ToSet(seq) \cup {m}
  <2>1. ASSUME NEW x \in ToSet(app) PROVE x \in ToSet(seq) \cup {m}
    BY <1>1, <2>1 DEF ToSet
  <2>2. ASSUME NEW x \in ToSet(seq) PROVE x \in ToSet(app)
    <3>1. PICK i \in 1..Len(seq) : seq[i] = x
      BY <1>1, <2>2 DEF ToSet
    <3>2. i \in DOMAIN app /\ app[i] = x
      BY <1>1, <3>1
    <3> QED
      BY <3>2 DEF ToSet
  <2>3. m \in ToSet(app)
    <3>1. Len(seq) + 1 \in DOMAIN app
      BY <1>1
    <3> QED
      BY <1>1, <3>1 DEF ToSet
  <2> QED
    BY <2>1, <2>2, <2>3
<1>4. ASSUME Unique(seq), m \notin ToSet(seq) PROVE Unique(app)
  <2>1. \A i \in 1..Len(seq) : seq[i] # m
    BY <1>1, <1>4 DEF ToSet
  <2> QED
    BY <1>1, <1>4, <2>1 DEF Unique
<1> QED
  BY <1>1, <1>2, <1>3, <1>4 DEF app

LEMMA UniqueTimes ==
  ASSUME NEW seq \in Seq(Msgs), Unique(seq), NEW x
  PROVE  Times(x, seq) = IF x \in ToSet(seq) THEN 1 ELSE 0
<1> DEFINE places == {i \in DOMAIN seq : seq[i] = x}
<1>1. CASE x \in ToSet(seq)
  <2>1. PICK i \in DOMAIN seq : seq[i] = x
    BY <1>1 DEF ToSet
  <2>2. places = {i}
    BY <2>1 DEF Unique
  <2> QED
    BY <1>1, <2>2, FS_Singleton DEF Times
<1>2. CASE x \notin ToSet(seq)
  <2>1. places = {}
    BY <1>2 DEF ToSet
  <2> QED
    BY <1>2, <2>1, FS_EmptySet DEF Times
<1> QED
  BY <1>1, <1>2

\* The control points at which a message that is not settled is with its goroutine.
EarlyPCs(m) == {"new", "refused", "running", "result"}
                 \cup (IF m \in Users THEN {"locked", "ready", "drain"} ELSE {})
Early(m) == pc[m] \in EarlyPCs(m)
InBatch(m, h) == m \in ToSet(batch[h])
InQueue(m) == m \in ToSet(queue[Sess(m)])

\* NothingVanishes in terms of sets, with what keeps the places apart.
Sorted ==
  /\ \A s \in Sessions : Unique(queue[s]) /\ \A m \in ToSet(queue[s]) : Sess(m) = s
  /\ \A h \in Msgs : Unique(batch[h]) /\ \A m \in ToSet(batch[h]) : Sess(m) = Sess(h)
  /\ \A h \in Msgs : batch[h] # <<>> => pc[h] \in {"chat", "waiting"}
Placed ==
  /\ \A m, g, h \in Msgs : InBatch(m, g) /\ InBatch(m, h) => g = h
  /\ \A m \in Msgs : InQueue(m) => ~Early(m) /\ fate[m] = "none" /\ \A h \in Msgs : ~InBatch(m, h)
  /\ \A m, h \in Msgs : InBatch(m, h) => ~Early(m) /\ fate[m] = "none"
  /\ \A m \in Msgs : Early(m) => fate[m] = "none"
  /\ \A m \in Msgs : Early(m) \/ fate[m] # "none" \/ InQueue(m) \/ \E h \in Msgs : InBatch(m, h)
Kept == Sorted /\ Placed

\* A handler goes on and takes no message with it.
LEMMA GoesOn ==
  ASSUME TypeOK, Kept, UNCHANGED <<queue, batch, fate>>,
         NEW h \in Handlers \cup Stops, NEW p, Goto(h, p),
         h \in Msgs => /\ Early(h) <=> p \in EarlyPCs(h)
                       /\ batch[h] # <<>> => p \in {"chat", "waiting"}
  PROVE  Kept'
<1>0. pc \in [Handlers \cup Stops -> PCs] /\ Msgs \subseteq Handlers
  BY DEF TypeOK, Handlers
<1>1. \A g \in Handlers \cup Stops : pc'[g] = IF g = h THEN p ELSE pc[g]
  BY <1>0 DEF Goto
<1>2. \A m \in Msgs : Early(m)' = Early(m)
  BY <1>0, <1>1 DEF Early, EarlyPCs
<1>3. Sorted'
  BY <1>0, <1>1 DEF Kept, Sorted
<1>4. \A m, g \in Msgs : InBatch(m, g)' = InBatch(m, g) /\ InQueue(m)' = InQueue(m)
  BY DEF InBatch, InQueue
<1> QED
  BY <1>2, <1>3, <1>4 DEF Kept, Placed

\* Messages of a queue or of a batch get a fate, which may empty the queue of session s
\* and empties the batch of m; m goes on.
LEMMA Settles ==
  ASSUME TypeOK, Kept, NEW m \in Handlers \cup Stops, NEW s \in Sessions, NEW p, Goto(m, p),
         queue' \in {queue, Drained(s)}, p \notin {"chat", "waiting"},
         m \in Msgs => ~Early(m) /\ p \notin EarlyPCs(m),
         m \in Msgs => batch' = [batch EXCEPT ![m] = <<>>],
         m \notin Msgs => batch' = batch,
         fate' \in [Msgs -> Fates],
         \A x \in Msgs : IF \/ m \in Msgs /\ InBatch(x, m)
                            \/ queue' # queue /\ x \in ToSet(queue[s])
                         THEN fate'[x] # "none" ELSE fate'[x] = fate[x]
  PROVE  Kept'
<1>0. /\ pc \in [Handlers \cup Stops -> PCs] /\ Msgs \subseteq Handlers
      /\ queue \in [Sessions -> Seq(Msgs)] /\ batch \in [Msgs -> Seq(Msgs)]
      /\ fate \in [Msgs -> Fates] /\ \A x \in Msgs : Sess(x) \in Sessions
  BY DEF TypeOK, Handlers, Sess
<1>1. /\ pc'[m] = p /\ \A g \in Handlers \cup Stops : g # m => pc'[g] = pc[g]
  BY <1>0 DEF Goto
<1>2. ASSUME NEW x \in Msgs PROVE Early(x)' <=> Early(x)
  <2>1. CASE x = m
    BY <1>1, <2>1 DEF Early, EarlyPCs
  <2>2. CASE x # m
    BY <1>0, <1>1, <2>2 DEF Early, EarlyPCs
  <2> QED
    BY <2>1, <2>2
<1>3. \A h \in Msgs : batch'[h] = IF h = m THEN <<>> ELSE batch[h]
  BY <1>0
<1>4. \A r \in Sessions : queue'[r] = queue[r] \/ queue'[r] = <<>>
  BY <1>0 DEF Drained
<1>5. \A r \in Sessions : r # s => queue'[r] = queue[r]
  BY <1>0 DEF Drained
<1>6. queue' # queue => queue'[s] = <<>>
  BY <1>0 DEF Drained
<1>7. Sorted'
  BY <1>0, <1>1, <1>3, <1>4, EmptySequence DEF Kept, Sorted
<1>8. \A x, h \in Msgs : InBatch(x, h)' <=> h # m /\ InBatch(x, h)
  BY <1>3, EmptySequence DEF InBatch
<1>9. \A x \in Msgs : InQueue(x)' <=> InQueue(x) /\ ~(queue' # queue /\ x \in ToSet(queue[s]))
  <2> SUFFICES ASSUME NEW x \in Msgs
               PROVE  InQueue(x)' <=> InQueue(x) /\ ~(queue' # queue /\ x \in ToSet(queue[s]))
    OBVIOUS
  <2>1. CASE queue' = queue
    BY <2>1 DEF InQueue
  <2>2. CASE queue' # queue /\ Sess(x) = s
    BY <2>2, <1>6, EmptySequence DEF InQueue
  <2>3. CASE queue' # queue /\ Sess(x) # s
    <3>1. queue'[Sess(x)] = queue[Sess(x)]
      BY <1>0, <1>5, <2>3
    <3>2. x \notin ToSet(queue[s])
      BY <2>3 DEF Kept, Sorted
    <3> QED
      BY <3>1, <3>2 DEF InQueue
  <2> QED
    BY <2>1, <2>2, <2>3
<1>10. \A x \in Msgs : x \in ToSet(queue[s]) => InQueue(x)
  BY DEF Kept, Sorted, InQueue
<1>11. ASSUME NEW x \in Msgs, (m \in Msgs /\ InBatch(x, m)) \/ (queue' # queue /\ x \in ToSet(queue[s]))
       PROVE  /\ ~Early(x) /\ fate'[x] # "none" /\ ~InQueue(x)'
              /\ \A h \in Msgs : ~InBatch(x, h)'
  BY <1>8, <1>9, <1>10, <1>11 DEF Kept, Placed
<1>12. ASSUME NEW x \in Msgs, ~((m \in Msgs /\ InBatch(x, m)) \/ (queue' # queue /\ x \in ToSet(queue[s])))
       PROVE  /\ fate'[x] = fate[x] /\ (InQueue(x)' <=> InQueue(x))
              /\ \A h \in Msgs : InBatch(x, h)' <=> InBatch(x, h)
  <2>1. fate'[x] = fate[x]
    BY <1>12
  <2>2. InQueue(x)' <=> InQueue(x)
    BY <1>9, <1>12
  <2>3. ASSUME NEW h \in Msgs PROVE InBatch(x, h)' <=> InBatch(x, h)
    BY <1>8, <1>12
  <2> QED
    BY <2>1, <2>2, <2>3
<1>13. Placed'
  BY <1>2, <1>11, <1>12 DEF Kept, Placed
<1> QED
  BY <1>7, <1>13 DEF Kept

\* A message that is with its goroutine gets its fate there.
LEMMA SettlesItself ==
  ASSUME TypeOK, Kept, NEW m \in Msgs, Early(m), NEW p, Goto(m, p), p \notin EarlyPCs(m),
         UNCHANGED <<queue, batch>>, NEW f \in Fates \ {"none"}, fate' = Fated({m}, f)
  PROVE  Kept'
<1>0. pc \in [Handlers \cup Stops -> PCs] /\ Msgs \subseteq Handlers
  BY DEF TypeOK, Handlers
<1>1. pc'[m] = p /\ \A g \in Handlers \cup Stops : g # m => pc'[g] = pc[g]
  BY <1>0 DEF Goto
<1>2. ~Early(m)' /\ \A x \in Msgs \ {m} : Early(x)' <=> Early(x)
  BY <1>0, <1>1 DEF Early, EarlyPCs
<1>3. batch[m] = <<>>
  BY DEF Kept, Sorted, Early, EarlyPCs
<1>4. Sorted'
  BY <1>0, <1>1, <1>3 DEF Kept, Sorted
<1>5. \A x, g \in Msgs : (InBatch(x, g)' <=> InBatch(x, g)) /\ (InQueue(x)' <=> InQueue(x))
  BY DEF InBatch, InQueue
<1>6. fate'[m] = f /\ \A x \in Msgs \ {m} : fate'[x] = fate[x]
  BY DEF Fated
<1>7. ~InQueue(m) /\ \A h \in Msgs : ~InBatch(m, h)
  BY DEF Kept, Placed
<1> QED
  BY <1>2, <1>4, <1>5, <1>6, <1>7 DEF Kept, Placed

\* A responder takes what is queued, a user's own message with it.
LEMMA Takes ==
  ASSUME TypeOK, Kept, NEW m \in Msgs, pc[m] \in {"drain", "redrain"}, NEW b,
         b = IF Early(m) THEN Append(queue[Sess(m)], m) ELSE queue[Sess(m)],
         batch' = [batch EXCEPT ![m] = b], queue' = Drained(Sess(m)),
         Goto(m, IF b = <<>> THEN "unwind" ELSE "chat"), UNCHANGED fate
  PROVE  Kept'
<1>0. /\ pc \in [Handlers \cup Stops -> PCs] /\ Msgs \subseteq Handlers
      /\ queue \in [Sessions -> Seq(Msgs)] /\ batch \in [Msgs -> Seq(Msgs)]
      /\ \A x \in Msgs : Sess(x) \in Sessions
  BY DEF TypeOK, Handlers, Sess
<1>1. /\ pc'[m] = IF b = <<>> THEN "unwind" ELSE "chat"
      /\ \A g \in Handlers \cup Stops : g # m => pc'[g] = pc[g]
  BY <1>0 DEF Goto
<1>2. ~Early(m)' /\ \A x \in Msgs \ {m} : Early(x)' <=> Early(x)
  BY <1>0, <1>1 DEF Early, EarlyPCs
<1>3. batch[m] = <<>> /\ \A x \in Msgs : ~InBatch(x, m)
  BY EmptySequence DEF Kept, Sorted, InBatch
<1>4. batch'[m] = b /\ \A h \in Msgs \ {m} : batch'[h] = batch[h]
  BY <1>0
<1>5. queue'[Sess(m)] = <<>> /\ \A r \in Sessions \ {Sess(m)} : queue'[r] = queue[r]
  BY <1>0 DEF Drained
<1>6. queue[Sess(m)] \in Seq(Msgs) /\ Unique(queue[Sess(m)])
      /\ \A x \in ToSet(queue[Sess(m)]) : Sess(x) = Sess(m)
  BY <1>0 DEF Kept, Sorted
<1>7. Early(m) => m \notin ToSet(queue[Sess(m)])
  BY DEF Kept, Placed, InQueue
<1>8. /\ Unique(b)
      /\ ToSet(b) = ToSet(queue[Sess(m)]) \cup (IF Early(m) THEN {m} ELSE {})
  <2>1. CASE Early(m)
    BY <1>6, <1>7, <2>1, AppendedSequence
  <2>2. CASE ~Early(m)
    BY <1>6, <2>2
  <2> QED
    BY <2>1, <2>2
<1>9. Sorted'
  <2>1. \A s \in Sessions : Unique(queue'[s]) /\ \A x \in ToSet(queue'[s]) : Sess(x) = s
    BY <1>0, <1>5, EmptySequence DEF Kept, Sorted
  <2>2. \A h \in Msgs : Unique(batch'[h]) /\ \A x \in ToSet(batch'[h]) : Sess(x) = Sess(h)
    BY <1>4, <1>6, <1>8 DEF Kept, Sorted
  <2>3. \A h \in Msgs : batch'[h] # <<>> => pc'[h] \in {"chat", "waiting"}
    BY <1>0, <1>1, <1>4 DEF Kept, Sorted
  <2> QED
    BY <2>1, <2>2, <2>3 DEF Sorted
<1>10. ASSUME NEW x \in Msgs
       PROVE  InQueue(x)' <=> InQueue(x) /\ x \notin ToSet(queue[Sess(m)])
  <2>1. CASE Sess(x) = Sess(m)
    BY <1>5, <2>1, EmptySequence DEF InQueue
  <2>2. CASE Sess(x) # Sess(m)
    <3>1. queue'[Sess(x)] = queue[Sess(x)]
      BY <1>0, <1>5, <2>2
    <3> QED
      BY <1>6, <2>2, <3>1 DEF InQueue
  <2> QED
    BY <2>1, <2>2
<1>11. \A x \in Msgs : /\ InBatch(x, m)' <=> x \in ToSet(b)
                       /\ \A h \in Msgs \ {m} : InBatch(x, h)' <=> InBatch(x, h)
  BY <1>4 DEF InBatch
<1>12. \A x \in Msgs : x \in ToSet(queue[Sess(m)]) => InQueue(x)
  BY <1>6 DEF InQueue
<1>13. ASSUME NEW x \in Msgs, x \in ToSet(b)
       PROVE  /\ ~Early(x)' /\ fate'[x] = "none" /\ ~InQueue(x)' /\ InBatch(x, m)'
              /\ \A h \in Msgs : InBatch(x, h)' => h = m
  <2>1. CASE x = m /\ Early(m)
    <3>1. ~InQueue(m) /\ fate[m] = "none" /\ \A h \in Msgs : ~InBatch(m, h)
      BY <2>1 DEF Kept, Placed
    <3> QED
      BY <1>2, <1>10, <1>11, <1>13, <2>1, <3>1
  <2>2. CASE x \in ToSet(queue[Sess(m)])
    <3>1. ~Early(x) /\ fate[x] = "none" /\ \A h \in Msgs : ~InBatch(x, h)
      BY <1>12, <2>2 DEF Kept, Placed
    <3> QED
      BY <1>2, <1>10, <1>11, <1>13, <2>2, <3>1
  <2> QED
    BY <1>8, <1>13, <2>1, <2>2
<1>14. ASSUME NEW x \in Msgs, x \notin ToSet(b)
       PROVE  /\ Early(x)' <=> Early(x)
              /\ InQueue(x)' <=> InQueue(x)
              /\ ~InBatch(x, m)' /\ ~InBatch(x, m)
              /\ \A h \in Msgs \ {m} : InBatch(x, h)' <=> InBatch(x, h)
  BY <1>2, <1>3, <1>8, <1>10, <1>11, <1>14
<1>15. Placed'
  <2>1. ASSUME NEW x \in Msgs
        PROVE  /\ \A g, h \in Msgs : InBatch(x, g)' /\ InBatch(x, h)' => g = h
               /\ InQueue(x)' => ~Early(x)' /\ fate'[x] = "none" /\ \A h \in Msgs : ~InBatch(x, h)'
               /\ \A h \in Msgs : InBatch(x, h)' => ~Early(x)' /\ fate'[x] = "none"
               /\ Early(x)' => fate'[x] = "none"
               /\ Early(x)' \/ fate'[x] # "none" \/ InQueue(x)' \/ \E h \in Msgs : InBatch(x, h)'
    <3>1. CASE x \in ToSet(b)
      BY <1>13, <3>1
    <3>2. CASE x \notin ToSet(b)
      BY <1>14, <3>2 DEF Kept, Placed
    <3> QED
      BY <3>1, <3>2
  <2> QED
    BY <2>1 DEF Placed
<1> QED
  BY <1>9, <1>15 DEF Kept

\* One step moves each message from one place to another, or leaves it where it is.
LEMMA KeptStep ==
  ASSUME TypeOK, Kept, [Next]_vars
  PROVE  Kept'
<1>0. /\ pc \in [Handlers \cup Stops -> PCs] /\ Msgs \subseteq Handlers
      /\ queue \in [Sessions -> Seq(Msgs)] /\ batch \in [Msgs -> Seq(Msgs)]
      /\ fate \in [Msgs -> Fates]
      /\ \A x \in Handlers \cup Stops : Sess(x) \in Sessions
      /\ Users \subseteq Msgs /\ Subs \subseteq Msgs /\ Users \cap Subs = {}
      /\ \A m \in Msgs : m \in Users \/ m \in Subs
      /\ Probes \subseteq Handlers /\ Probes \cap Msgs = {} /\ Stops \cap Msgs = {}
  BY DEF TypeOK, Handlers, Msgs, Sess
<1>a. /\ "answered" \in Fates \ {"none"} /\ "blocked" \in Fates \ {"none"}
      /\ "denied" \in Fates \ {"none"} /\ "failed" \in Fates \ {"none"}
      /\ "discarded" \in Fates \ {"none"} /\ "stopped" \in Fates \ {"none"}
      /\ "full" \in Fates \ {"none"} /\ "canceled" \in Fates \ {"none"}
      /\ "lost" \in Fates \ {"none"}
  BY DEF Fates
<1>b. \A m \in Msgs : pc[m] \notin {"chat", "waiting"} =>
        batch[m] = <<>> /\ batch = [batch EXCEPT ![m] = <<>>]
  BY <1>0 DEF Kept, Sorted
<1>c. \A m, h \in Msgs : InBatch(m, h) <=> m \in ToSet(batch[h])
  BY DEF InBatch
<1>d. ASSUME NEW M, NEW f \in Fates PROVE Fated(M, f) \in [Msgs -> Fates]
  BY <1>0, <1>d DEF Fated
<1>s. ASSUME NEW s \in Sessions, Drained(s) = queue PROVE ToSet(queue[s]) = {}
  BY <1>0, <1>s, EmptySequence DEF Drained
<1>1. ASSUME NEW m \in Users, UserTryLock(m) PROVE Kept'
  <2>1. PICK p \in {"locked", "refused"} : Goto(m, p)
    BY <1>1 DEF UserTryLock
  <2> QED
    BY <1>0, <1>1, <1>b, <2>1, GoesOn DEF UserTryLock, Early, EarlyPCs
<1>2. ASSUME NEW b \in Subs, Launch(b) PROVE Kept'
  BY <1>0, <1>2, <1>b, GoesOn DEF Launch, Early, EarlyPCs
<1>3. ASSUME NEW m \in Msgs, SubTryLock(m) PROVE Kept'
  <2>1. PICK p \in {"locked", "done"} : Goto(m, p)
    BY <1>3 DEF SubTryLock
  <2> QED
    BY <1>0, <1>3, <1>b, <2>1, GoesOn DEF SubTryLock, Early, EarlyPCs
<1>4. ASSUME NEW m \in Msgs, GetChat(m) PROVE Kept'
  BY <1>0, <1>4, <1>b, GoesOn DEF GetChat, Early, EarlyPCs
<1>5. ASSUME NEW m \in Msgs, GetChatFails(m) PROVE Kept'
  <2>1. CASE m \in Users
    BY <1>0, <1>5, <1>a, <2>1, SettlesItself DEF GetChatFails, Early, EarlyPCs
  <2>2. CASE m \notin Users
    <3>1. /\ Goto(m, "unwind") /\ queue' = Drained(Sess(m)) /\ ~Early(m)
          /\ batch' = [batch EXCEPT ![m] = <<>>] /\ batch[m] = <<>>
          /\ fate' = Fated(ToSet(queue[Sess(m)]), "discarded") /\ "unwind" \notin EarlyPCs(m)
      BY <1>0, <1>5, <1>b, <2>2 DEF GetChatFails, Early, EarlyPCs
    <3>2. \A x \in Msgs : ~InBatch(x, m)
      BY <1>c, <3>1, EmptySequence
    <3>3. \A x \in Msgs : IF queue' # queue /\ x \in ToSet(queue[Sess(m)])
                          THEN fate'[x] # "none" ELSE fate'[x] = fate[x]
      BY <1>0, <1>a, <1>s, <3>1 DEF Fated
    <3> QED
      BY <1>0, <1>a, <1>d, <3>1, <3>2, <3>3, Settles
  <2> QED
    BY <2>1, <2>2
<1>6. ASSUME NEW m \in Msgs, Activate(m) PROVE Kept'
  BY <1>0, <1>6, <1>b, GoesOn DEF Activate, Early, EarlyPCs
<1>7. ASSUME NEW m \in Msgs, FirstDrain(m) PROVE Kept'
  <2>1. Early(m) <=> m \in Users
    BY <1>7 DEF FirstDrain, Early, EarlyPCs
  <2> QED
    BY <1>7, <2>1, Takes DEF FirstDrain
<1>8. ASSUME NEW m \in Msgs, pc[m] \in {"chat", "waiting"}, NEW f \in Fates \ {"none"},
             fate' = Fated(ToSet(batch[m]), f), EndBatch(m), UNCHANGED queue,
             NEW p \in {"redrain", "unwind", "abort"}, Goto(m, p)
      PROVE  Kept'
  <2>1. /\ ~Early(m) /\ p \notin EarlyPCs(m)
        /\ batch' = [batch EXCEPT ![m] = <<>>] /\ p \notin {"chat", "waiting"}
    BY <1>8 DEF Early, EarlyPCs, EndBatch
  <2>2. \A x \in Msgs : IF InBatch(x, m) THEN fate'[x] # "none" ELSE fate'[x] = fate[x]
    BY <1>0, <1>8, <1>c DEF Fated
  <2>3. fate' \in [Msgs -> Fates]
    BY <1>8, <1>d
  <2> QED
    BY <1>0, <1>8, <2>1, <2>2, <2>3, Settles
<1>9. ASSUME NEW m \in Msgs, pc[m] \in {"chat", "waiting"}, NEW f \in Fates \ {"none"},
             EndAndDrop(m, f)
      PROVE  Kept'
  <2>1. PICK p \in {"unwind", "abort"} : Goto(m, p)
    BY <1>9 DEF EndAndDrop, Stopped
  <2>2. /\ ~Early(m) /\ p \notin EarlyPCs(m) /\ p \notin {"chat", "waiting"}
        /\ batch' = [batch EXCEPT ![m] = <<>>] /\ queue' = Drained(Sess(m))
    BY <1>9, <2>1 DEF Early, EarlyPCs, EndBatch, EndAndDrop
  <2>3. \A x \in Msgs : fate'[x] = IF InBatch(x, m) THEN f
                                  ELSE IF x \in ToSet(queue[Sess(m)]) THEN "discarded" ELSE fate[x]
    BY <1>9, <1>c DEF EndAndDrop
  <2>4. \A x \in Msgs : IF InBatch(x, m) \/ (queue' # queue /\ x \in ToSet(queue[Sess(m)]))
                        THEN fate'[x] # "none" ELSE fate'[x] = fate[x]
    BY <1>0, <1>a, <1>s, <2>2, <2>3
  <2>5. fate' \in [Msgs -> Fates]
    BY <1>0, <1>9, <1>a DEF EndAndDrop
  <2> QED
    BY <1>0, <2>1, <2>2, <2>4, <2>5, Settles
<1>10. ASSUME NEW m \in Msgs, ClearFails(m) PROVE Kept'
  <2>1. PICK p \in {"unwind", "abort"} : Goto(m, p)
    BY <1>10 DEF ClearFails, Stopped
  <2> QED
    BY <1>8, <1>10, <1>a, <2>1 DEF ClearFails
<1>11. ASSUME NEW m \in Msgs, Deny(m) PROVE Kept'
  BY <1>9, <1>11, <1>a DEF Deny
<1>12. ASSUME NEW m \in Msgs, StartChat(m) PROVE Kept'
  BY <1>0, <1>12, GoesOn DEF StartChat, Early, EarlyPCs
<1>13. ASSUME NEW m \in Msgs, ChatFails(m) PROVE Kept'
  BY <1>9, <1>13, <1>a DEF ChatFails
<1>14. ASSUME NEW m \in Msgs, Panic(m) PROVE Kept'
  BY <1>8, <1>14, <1>a DEF Panic
<1>15. ASSUME NEW m \in Msgs, NEW f \in {"answered", "blocked"}, Reply(m, f) PROVE Kept'
  BY <1>8, <1>15, <1>a DEF Reply
<1>16. ASSUME NEW m \in Msgs, Redrain(m) PROVE Kept'
  <2>1. ~Early(m)
    BY <1>16 DEF Redrain, Early, EarlyPCs
  <2> QED
    BY <1>16, <2>1, Takes DEF Redrain
<1>17. ASSUME NEW m \in Msgs, AbortDrain(m) PROVE Kept'
  <2>1. /\ Goto(m, "unwind") /\ queue' = Drained(Sess(m)) /\ ~Early(m)
        /\ batch' = [batch EXCEPT ![m] = <<>>] /\ batch[m] = <<>>
        /\ fate' = Fated(ToSet(queue[Sess(m)]), "discarded") /\ "unwind" \notin EarlyPCs(m)
    BY <1>0, <1>17, <1>b DEF AbortDrain, Early, EarlyPCs
  <2>2. \A x \in Msgs : ~InBatch(x, m)
    BY <1>c, <2>1, EmptySequence
  <2>3. \A x \in Msgs : IF queue' # queue /\ x \in ToSet(queue[Sess(m)])
                        THEN fate'[x] # "none" ELSE fate'[x] = fate[x]
    BY <1>0, <1>a, <1>s, <2>1 DEF Fated
  <2> QED
    BY <1>0, <1>a, <1>d, <2>1, <2>2, <2>3, Settles
<1>18. ASSUME NEW c \in Stops, StopDrain(c) PROVE Kept'
  <2>1. /\ Goto(c, "stopReq") /\ queue' = Drained(Sess(c)) /\ batch' = batch
        /\ fate' = Fated(ToSet(queue[Sess(c)]), "stopped") /\ c \notin Msgs
    BY <1>0, <1>18 DEF StopDrain
  <2>2. \A x \in Msgs : IF queue' # queue /\ x \in ToSet(queue[Sess(c)])
                        THEN fate'[x] # "none" ELSE fate'[x] = fate[x]
    BY <1>0, <1>a, <1>s, <2>1 DEF Fated
  <2> QED
    BY <1>0, <1>a, <1>d, <2>1, <2>2, Settles
<1>19. ASSUME NEW m \in Msgs, Unwind(m) PROVE Kept'
  BY <1>0, <1>19, <1>b, GoesOn DEF Unwind, Early, EarlyPCs
<1>20. ASSUME NEW b \in Msgs, SubEnds(b) PROVE Kept'
  <2>1. CASE Goto(b, "done") /\ fate' = Fated({b}, "canceled")
    BY <1>20, <1>a, <2>1, SettlesItself DEF SubEnds, Early, EarlyPCs
  <2>2. CASE Goto(b, "result") /\ UNCHANGED fate
    BY <1>0, <1>20, <1>b, <2>2, GoesOn DEF SubEnds, Early, EarlyPCs
  <2> QED
    BY <1>20, <2>1, <2>2 DEF SubEnds
<1>21. ASSUME NEW m \in Msgs, Deadline(m) PROVE Kept'
  BY <1>21 DEF Deadline, Kept, Sorted, Placed, Early, InBatch, InQueue
<1>22. ASSUME NEW m \in Msgs, Recycle(m) PROVE Kept'
  <2>1. /\ pc[m] = "done" /\ fate[m] # "none" /\ UNCHANGED <<queue, batch>>
        /\ pc' = [pc EXCEPT ![m] = "new"] /\ fate' = Fated({m}, "none")
    BY <1>22 DEF Recycle, Goto
  <2>2. ~InQueue(m) /\ \A h \in Msgs : ~InBatch(m, h)
    BY <2>1 DEF Kept, Placed
  <2>3. fate'[m] = "none" /\ \A x \in Msgs \ {m} : fate'[x] = fate[x]
    BY <2>1 DEF Fated
  <2>4. Early(m)' /\ \A x \in Msgs \ {m} : Early(x)' <=> Early(x)
    BY <1>0, <2>1 DEF Early, EarlyPCs
  <2>5. \A x, g \in Msgs : (InBatch(x, g)' <=> InBatch(x, g)) /\ (InQueue(x)' <=> InQueue(x))
    BY <2>1 DEF InBatch, InQueue
  <2>6. Sorted'
    BY <1>0, <1>b, <2>1 DEF Kept, Sorted
  <2> QED
    BY <2>2, <2>3, <2>4, <2>5, <2>6 DEF Kept, Placed
<1>23. ASSUME NEW m \in Msgs, Enqueue(m) PROVE Kept'
  <2>0. Early(m)
    BY <1>23 DEF Enqueue, Early, EarlyPCs
  <2>1. CASE Len(queue[Sess(m)]) < MaxPending
    <3>1. /\ queue' = [queue EXCEPT ![Sess(m)] = Append(queue[Sess(m)], m)]
          /\ UNCHANGED <<batch, fate>> /\ Goto(m, IF m \in Subs THEN "retry" ELSE "done")
      BY <1>23, <2>1 DEF Enqueue
    <3>2. ~InQueue(m) /\ fate[m] = "none" /\ \A h \in Msgs : ~InBatch(m, h)
      BY <2>0 DEF Kept, Placed
    <3>3. /\ queue[Sess(m)] \in Seq(Msgs) /\ m \notin ToSet(queue[Sess(m)])
          /\ Unique(queue[Sess(m)]) /\ \A x \in ToSet(queue[Sess(m)]) : Sess(x) = Sess(m)
      BY <1>0, <3>2 DEF Kept, Sorted, InQueue
    <3>4. /\ ToSet(queue'[Sess(m)]) = ToSet(queue[Sess(m)]) \cup {m}
          /\ Unique(queue'[Sess(m)])
          /\ \A s \in Sessions \ {Sess(m)} : queue'[s] = queue[s]
      BY <1>0, <3>1, <3>3, AppendedSequence
    <3>5. ~Early(m)' /\ \A x \in Msgs \ {m} : Early(x)' <=> Early(x)
      BY <1>0, <3>1 DEF Early, EarlyPCs, Goto
    <3>6. InQueue(m)' /\ \A x \in Msgs \ {m} : InQueue(x)' <=> InQueue(x)
      BY <1>0, <3>4 DEF InQueue
    <3>7. \A x, h \in Msgs : InBatch(x, h)' <=> InBatch(x, h)
      BY <3>1 DEF InBatch
    <3>8. batch[m] = <<>>
      BY <1>23, <1>b DEF Enqueue
    <3>9. Sorted'
      <4>1. \A s \in Sessions : Unique(queue'[s]) /\ \A x \in ToSet(queue'[s]) : Sess(x) = s
        BY <3>3, <3>4 DEF Kept, Sorted
      <4>2. \A h \in Msgs : batch'[h] # <<>> => pc'[h] \in {"chat", "waiting"}
        BY <1>0, <3>1, <3>8 DEF Kept, Sorted, Goto
      <4> QED
        BY <3>1, <4>1, <4>2 DEF Kept, Sorted
    <3> QED
      BY <3>1, <3>2, <3>5, <3>6, <3>7, <3>9 DEF Kept, Placed
  <2>2. CASE ~(Len(queue[Sess(m)]) < MaxPending)
    <3>1. /\ UNCHANGED <<queue, batch>> /\ fate' = Fated({m}, "full") /\ Goto(m, "done")
          /\ "done" \notin EarlyPCs(m)
      BY <1>23, <2>2 DEF Enqueue, EarlyPCs
    <3> QED
      BY <1>a, <2>0, <3>1, SettlesItself
  <2> QED
    BY <2>1, <2>2
<1>24. ASSUME NEW p \in Probes, Probe(p) \/ ProbeEnds(p) PROVE Kept'
  BY <1>0, <1>24, GoesOn DEF Probe, ProbeEnds
<1>25. ASSUME NEW h \in Handlers, FreeSlot(h) \/ Unlock(h) PROVE Kept'
  <2>1. PICK p \in {"unlock", "done", "new"} :
          /\ Goto(h, p) /\ UNCHANGED <<queue, batch, fate>> /\ pc[h] \in {"release", "unlock"}
          /\ h \in Msgs => p # "new"
    BY <1>0, <1>25 DEF FreeSlot, Unlock
  <2> QED
    BY <1>0, <1>b, <2>1, GoesOn DEF Early, EarlyPCs
<1>26. ASSUME NEW c \in Stops, StopSubagents(c) \/ StopRequest(c) PROVE Kept'
  BY <1>0, <1>26, GoesOn DEF StopSubagents, StopRequest
<1>27. CASE UNCHANGED vars
  BY <1>27 DEF vars, Kept, Sorted, Placed, Early, InBatch, InQueue
<1> QED
  BY <1>1, <1>2, <1>3, <1>4, <1>5, <1>6, <1>7, <1>10, <1>11, <1>12, <1>13, <1>14, <1>15,
     <1>16, <1>17, <1>18, <1>19, <1>20, <1>21, <1>22, <1>23, <1>24, <1>25, <1>26, <1>27,
     Zenon DEF Next, Proceed, Stop

LEMMA AlwaysKept == Spec => []Kept
<1>1. Init => Kept
  <2> SUFFICES ASSUME Init PROVE Kept
    OBVIOUS
  <2>1. \A m \in Msgs : Early(m) /\ fate[m] = "none" /\ m \in Handlers \cup Stops
    BY DEF Init, Early, EarlyPCs, Handlers
  <2>2. Sorted
    BY EmptySequence DEF Init, Sorted
  <2>3. \A x, h \in Msgs : ~InBatch(x, h) /\ ~InQueue(x)
    <3>1. \A x \in Msgs : Sess(x) \in Sessions
      BY DEF Sess, Handlers, Msgs
    <3> QED
      BY <3>1, EmptySequence DEF Init, InBatch, InQueue
  <2> QED
    BY <2>1, <2>2, <2>3 DEF Kept, Placed
<1>2. TypeOK /\ Kept /\ [Next]_vars => Kept'
  BY KeptStep
<1> QED
  BY <1>1, <1>2, TypeCorrect, PTL DEF Spec

\* A message that has reached its goroutine is in exactly one place: with its goroutine, once
\* in the queue of its session, once in one batch of its session, or settled.
THEOREM NothingIsLost == Spec => []NothingVanishes
<1>1. TypeOK /\ Kept => NothingVanishes
  <2> SUFFICES ASSUME TypeOK, Kept, NEW m \in Msgs
               PROVE  LET inQueue == Times(m, queue[Sess(m)])
                          holders == {h \in Msgs : m \in ToSet(batch[h])}
                      IN  /\ \A s \in Sessions \ {Sess(m)} : Times(m, queue[s]) = 0
                          /\ \A h \in holders : Sess(h) = Sess(m) /\ Times(m, batch[h]) = 1
                          /\ inQueue + Cardinality(holders)
                               + (IF WithGoroutine(m) THEN 1 ELSE 0)
                               + (IF fate[m] # "none" THEN 1 ELSE 0) = 1
    BY DEF NothingVanishes
  <2> DEFINE holders == {h \in Msgs : m \in ToSet(batch[h])}
  <2>0. /\ queue \in [Sessions -> Seq(Msgs)] /\ batch \in [Msgs -> Seq(Msgs)]
        /\ Sess(m) \in Sessions
    BY DEF TypeOK, Sess, Handlers
  <2>1. \A s \in Sessions : Times(m, queue[s]) = IF m \in ToSet(queue[s]) THEN 1 ELSE 0
    BY <2>0, UniqueTimes DEF Kept, Sorted
  <2>2. \A s \in Sessions \ {Sess(m)} : Times(m, queue[s]) = 0
    BY <2>1 DEF Kept, Sorted
  <2>3. \A h \in holders : Sess(h) = Sess(m) /\ Times(m, batch[h]) = 1
    BY <2>0, UniqueTimes DEF Kept, Sorted
  <2>4. Times(m, queue[Sess(m)]) = IF InQueue(m) THEN 1 ELSE 0
    BY <2>0, <2>1 DEF InQueue
  <2>5. WithGoroutine(m) <=> Early(m)
    BY DEF Kept, Placed, WithGoroutine, Early, EarlyPCs
  <2>6. \A h \in Msgs : h \in holders <=> InBatch(m, h)
    BY DEF InBatch
  <2>7. Cardinality(holders) = IF \E h \in Msgs : InBatch(m, h) THEN 1 ELSE 0
    <3>1. CASE \E h \in Msgs : InBatch(m, h)
      <4>1. PICK h \in Msgs : InBatch(m, h)
        BY <3>1
      <4>2. holders = {h}
        BY <2>6, <4>1 DEF Kept, Placed
      <4> QED
        BY <3>1, <4>2, FS_Singleton
    <3>2. CASE ~ \E h \in Msgs : InBatch(m, h)
      <4>1. holders = {}
        BY <2>6, <3>2
      <4> QED
        BY <3>2, <4>1, FS_EmptySet
    <3> QED
      BY <3>1, <3>2
  <2>8. Times(m, queue[Sess(m)]) + Cardinality(holders) + (IF WithGoroutine(m) THEN 1 ELSE 0)
          + (IF fate[m] # "none" THEN 1 ELSE 0) = 1
    <3> HIDE DEF holders
    <3> QED
      BY <2>4, <2>5, <2>7 DEF Kept, Placed
  <2> QED
    BY <2>2, <2>3, <2>8
<1> QED
  BY <1>1, TypeCorrect, AlwaysKept, PTL
-------------------------------------------------------------------------------
Working(m) == \E h \in Msgs : InBatch(m, h)
Out(m) == pc[m] \in {"new", "running"}

LEMMA StatusNow ==
  \A m \in Msgs : Status[m] = IF fate[m] # "none" THEN "settled"
                              ELSE IF Working(m) THEN "working"
                              ELSE IF Out(m) THEN "out" ELSE "waiting"
BY DEF Status, Working, InBatch, Out

LEMMA StatusNext ==
  \A m \in Msgs : Status'[m] = IF fate'[m] # "none" THEN "settled"
                               ELSE IF Working(m)' THEN "working"
                               ELSE IF Out(m)' THEN "out" ELSE "waiting"
BY DEF Status, Working, InBatch, Out

LEMMA StatusBecomes ==
  ASSUME NEW M, NEW st,
         \A x \in Msgs : Status'[x] = IF x \in M THEN st ELSE Status[x]
  PROVE  Serial!Become(M, st)
<1>1. Status' = [x \in Msgs |-> Status'[x]]
  BY DEF Status
<1> QED
  BY <1>1 DEF Serial!Become

\* A control point changes and nothing else that a status is read off.
LEMMA StatusStays ==
  ASSUME TypeOK, UNCHANGED <<batch, fate>>, NEW h \in Handlers \cup Stops, NEW p, Goto(h, p),
         h \in Msgs => fate[h] # "none" \/ Working(h) \/ (Out(h) <=> p \in {"new", "running"})
  PROVE  Status' = Status
<1>0. pc \in [Handlers \cup Stops -> PCs] /\ Msgs \subseteq Handlers
  BY DEF TypeOK, Handlers
<1>1. \A g \in Handlers \cup Stops : pc'[g] = IF g = h THEN p ELSE pc[g]
  BY <1>0 DEF Goto
<1>2. \A m \in Msgs : Working(m)' = Working(m) /\ fate'[m] = fate[m]
  BY DEF Working, InBatch
<1>3. \A m \in Msgs : fate[m] # "none" \/ Working(m) \/ (Out(m)' <=> Out(m))
  BY <1>0, <1>1 DEF Out
<1>4. \A m \in Msgs : Status'[m] = Status[m]
  BY <1>2, <1>3, StatusNow, StatusNext
<1>5. Status' = [m \in Msgs |-> Status'[m]] /\ Status = [m \in Msgs |-> Status[m]]
  BY DEF Status
<1> QED
  BY <1>4, <1>5

\* The responses of a session come one after the other.
LEMMA OneBatch ==
  ASSUME TypeOK, Kept, OneResponder, NEW m \in Msgs, Holds(m),
         NEW x \in Msgs, Sess(x) = Sess(m), Working(x)
  PROVE  InBatch(x, m)
<1>1. PICK h \in Msgs : InBatch(x, h)
  BY DEF Working
<1>2. Sess(h) = Sess(x) /\ pc[h] \in {"chat", "waiting"}
  BY <1>1, EmptySequence DEF Kept, Sorted, InBatch
<1>3. Holds(h) /\ h \in Handlers /\ m \in Handlers
  BY <1>2 DEF Holds, Responding, Handlers
<1> QED
  BY <1>1, <1>2, <1>3 DEF OneResponder

LEMMA QueuedWaits ==
  ASSUME TypeOK, Kept, NEW s \in Sessions, NEW x \in ToSet(queue[s])
  PROVE  x \in Msgs /\ Sess(x) = s /\ Status[x] = "waiting"
<1>1. x \in Msgs
  BY DEF TypeOK, ToSet
<1>2. Sess(x) = s /\ InQueue(x)
  BY DEF Kept, Sorted, InQueue
<1>3. ~Early(x) /\ fate[x] = "none" /\ ~Working(x)
  BY <1>1, <1>2 DEF Kept, Placed, Working
<1> QED
  BY <1>1, <1>2, <1>3, StatusNow DEF Early, EarlyPCs, Out

\* Waiting messages D of session s are dropped; no batch ends.
LEMMA DropSettles ==
  ASSUME TypeOK, NEW s \in Sessions, NEW D \in SUBSET Msgs,
         \A x \in D : Sess(x) = s /\ Status[x] = "waiting",
         batch' = batch,
         \A x \in Msgs : IF x \in D THEN fate'[x] # "none" ELSE fate'[x] = fate[x],
         NEW h \in Handlers \cup Stops, NEW p, Goto(h, p),
         h \in Msgs => ~Out(h) /\ p \notin {"new", "running"}
  PROVE  Serial!Next
<1>0. pc \in [Handlers \cup Stops -> PCs] /\ Msgs \subseteq Handlers
  BY DEF TypeOK, Handlers
<1>1. \A x \in Msgs : Working(x)' = Working(x) /\ (Out(x)' <=> Out(x))
  BY <1>0 DEF Goto, Out, Working, InBatch
<1>2. \A x \in Msgs : Status'[x] = IF x \in D THEN "settled" ELSE Status[x]
  BY <1>1, StatusNow, StatusNext
<1>3. Serial!Become(D, "settled")
  BY <1>2, StatusBecomes
<1>4. D \in SUBSET Serial!In(s, "waiting")
  BY DEF Serial!In, Sess
<1>5. Serial!Settle(s, D)
  BY <1>3, <1>4 DEF Serial!Settle
<1> QED
  BY <1>4, <1>5 DEF Serial!Next

\* The batch of m ends, and waiting messages D of its session are dropped.
LEMMA EndSettles ==
  ASSUME TypeOK, Kept, OneResponder, NEW m \in Msgs, pc[m] \in {"chat", "waiting"},
         NEW D \in SUBSET Msgs, \A x \in D : Sess(x) = Sess(m) /\ Status[x] = "waiting",
         EndBatch(m), NEW p, Goto(m, p), p \notin {"new", "running"},
         \A x \in Msgs : IF x \in D \/ InBatch(x, m) THEN fate'[x] # "none"
                         ELSE fate'[x] = fate[x]
  PROVE  Serial!Next
<1>0. /\ pc \in [Handlers \cup Stops -> PCs] /\ Msgs \subseteq Handlers
      /\ batch \in [Msgs -> Seq(Msgs)] /\ Sess(m) \in Sessions
  BY DEF TypeOK, Handlers, Sess
<1>1. \A x \in Msgs : Out(x)' <=> Out(x)
  BY <1>0 DEF Goto, Out
<1>2. \A x \in Msgs : ~InBatch(x, m) => (Working(x)' <=> Working(x))
  <2>1. \A h \in Msgs : batch'[h] = IF h = m THEN <<>> ELSE batch[h]
    BY <1>0 DEF EndBatch
  <2> QED
    BY <2>1, EmptySequence DEF Working, InBatch
<1>3. \A x \in Msgs : InBatch(x, m) <=> x \in Serial!In(Sess(m), "working")
  <2>1. ASSUME NEW x \in Msgs, InBatch(x, m) PROVE Sess(x) = Sess(m) /\ Status[x] = "working"
    BY <2>1, StatusNow DEF Kept, Sorted, Placed, Working, InBatch
  <2>2. ASSUME NEW x \in Msgs, Sess(x) = Sess(m), Status[x] = "working" PROVE InBatch(x, m)
    <3>1. Working(x) /\ Holds(m)
      BY <2>2, StatusNow DEF Holds, Responding
    <3> QED
      BY <2>2, <3>1, OneBatch
  <2> QED
    BY <2>1, <2>2 DEF Serial!In, Sess
<1>4. \A x \in Msgs : Status'[x] = IF x \in D \cup Serial!In(Sess(m), "working")
                                   THEN "settled" ELSE Status[x]
  BY <1>1, <1>2, <1>3, StatusNow, StatusNext
<1>5. Serial!Become(D \cup Serial!In(Sess(m), "working"), "settled")
  BY <1>4, StatusBecomes
<1>6. D \in SUBSET Serial!In(Sess(m), "waiting")
  BY DEF Serial!In, Sess
<1>7. Serial!Settle(Sess(m), D)
  BY <1>5, <1>6 DEF Serial!Settle
<1> QED
  BY <1>0, <1>6, <1>7 DEF Serial!Next

\* m takes b, messages that wait in its session.
LEMMA TakingBegins ==
  ASSUME TypeOK, Kept, OneResponder, NEW m \in Msgs, pc[m] \in {"drain", "redrain"},
         NEW b \in Seq(Msgs), b # <<>>,
         \A x \in ToSet(b) : Sess(x) = Sess(m) /\ Status[x] = "waiting",
         batch' = [batch EXCEPT ![m] = b], fate' = fate, Goto(m, "chat")
  PROVE  Serial!Next
<1>0. /\ pc \in [Handlers \cup Stops -> PCs] /\ Msgs \subseteq Handlers
      /\ batch \in [Msgs -> Seq(Msgs)] /\ Sess(m) \in Sessions
  BY DEF TypeOK, Handlers, Sess
<1>1. \A x \in Msgs : Out(x)' <=> Out(x)
  BY <1>0 DEF Goto, Out
<1>2. \A x \in Msgs : ~InBatch(x, m)
  BY EmptySequence DEF Kept, Sorted, InBatch
<1>3. \A x \in Msgs : Working(x)' <=> Working(x) \/ x \in ToSet(b)
  <2>1. \A h \in Msgs : batch'[h] = IF h = m THEN b ELSE batch[h]
    BY <1>0
  <2> QED
    BY <1>2, <2>1 DEF Working, InBatch
<1>4. ToSet(b) \subseteq Msgs /\ ToSet(b) # {}
  <2>1. Len(b) \in Nat /\ Len(b) # 0 /\ DOMAIN b = 1..Len(b)
    OBVIOUS
  <2>2. 1 \in DOMAIN b
    BY <2>1
  <2> QED
    BY <2>2 DEF ToSet
<1>5. \A x \in ToSet(b) : fate[x] = "none" /\ ~Working(x)
  BY <1>4, StatusNow
<1>6. \A x \in Msgs : Status'[x] = IF x \in ToSet(b) THEN "working" ELSE Status[x]
  BY <1>1, <1>3, <1>5, StatusNow, StatusNext
<1>7. Serial!Become(ToSet(b), "working")
  BY <1>6, StatusBecomes
<1>8. ToSet(b) \in SUBSET Serial!In(Sess(m), "waiting")
  BY <1>4 DEF Serial!In, Sess
<1>9. Serial!In(Sess(m), "working") = {}
  <2> SUFFICES ASSUME NEW x \in Msgs, SessOf[x] = SessOf[m], Status[x] = "working" PROVE FALSE
    BY DEF Serial!In, Sess
  <2>1. Working(x) /\ Holds(m)
    BY StatusNow DEF Holds, Responding
  <2> QED
    BY <1>2, <2>1, OneBatch DEF Sess
<1>10. Serial!Begin(Sess(m), ToSet(b))
  BY <1>4, <1>7, <1>8, <1>9 DEF Serial!Begin
<1> QED
  BY <1>0, <1>8, <1>10 DEF Serial!Next

\* Every step of the handlers, subagents, probes and commands is a step of SerialChat, or
\* changes nothing SerialChat speaks of.
LEMMA SerialStep ==
  ASSUME TypeOK, Kept, OneResponder, [Next]_vars
  PROVE  Serial!Next \/ Status' = Status
<1>0. /\ pc \in [Handlers \cup Stops -> PCs] /\ Msgs \subseteq Handlers
      /\ queue \in [Sessions -> Seq(Msgs)] /\ batch \in [Msgs -> Seq(Msgs)]
      /\ fate \in [Msgs -> Fates]
      /\ \A x \in Handlers \cup Stops : Sess(x) \in Sessions
      /\ Users \subseteq Msgs /\ Subs \subseteq Msgs /\ Users \cap Subs = {}
      /\ Probes \subseteq Handlers /\ Probes \cap Msgs = {} /\ Stops \cap Msgs = {}
  BY DEF TypeOK, Handlers, Msgs, Sess
<1> DEFINE Goal == Serial!Next \/ Status' = Status
<1>a. ASSUME NEW s \in Sessions PROVE ToSet(queue[s]) \in SUBSET Msgs
  BY <1>0 DEF ToSet
<1>b. \A m, h \in Msgs : InBatch(m, h) <=> m \in ToSet(batch[h])
  BY DEF InBatch
<1>c. \A m \in Msgs : Early(m) => fate[m] = "none" /\ ~Working(m)
  BY DEF Kept, Placed, Working
\* A message alone changes its status.
<1>d. ASSUME NEW m \in Msgs, NEW st, Status'[m] = st,
             \A x \in Msgs \ {m} : Status'[x] = Status[x]
      PROVE  Serial!Become({m}, st)
  BY <1>d, StatusBecomes
<1>e. ASSUME NEW m \in Msgs, NEW p, Goto(m, p), batch' = batch,
             NEW f \in Fates, fate' = Fated({m}, f)
      PROVE  /\ \A x \in Msgs \ {m} : Status'[x] = Status[x]
             /\ fate'[m] = f /\ pc'[m] = p /\ (Working(m)' <=> Working(m))
  <2>1. \A x \in Msgs : fate'[x] = IF x = m THEN f ELSE fate[x]
    BY <1>e DEF Fated
  <2>2. \A x \in Msgs : Working(x)' <=> Working(x)
    BY <1>e DEF Working, InBatch
  <2>3. \A x \in Msgs : x # m => (Out(x)' <=> Out(x))
    BY <1>0, <1>e DEF Goto, Out
  <2>4. pc'[m] = p
    BY <1>0, <1>e DEF Goto
  <2> QED
    BY <2>1, <2>2, <2>3, <2>4, StatusNow, StatusNext
<1>f. ASSUME NEW m \in Msgs PROVE fate = Fated({m}, fate[m])
  BY <1>0 DEF Fated
\* A message comes.
<1>g. ASSUME NEW m \in Msgs, pc[m] \in {"new", "running"}, NEW p, Goto(m, p),
             p \notin {"new", "running"}, batch' = batch, fate' = fate
      PROVE  Goal
  <2>1. fate[m] = "none" /\ ~Working(m)
    BY <1>c, <1>g DEF Early, EarlyPCs
  <2>2. Status[m] = "out"
    BY <1>g, <2>1, StatusNow DEF Out
  <2>3. fate' = Fated({m}, "none") /\ "none" \in Fates
    BY <1>f, <1>g, <2>1 DEF Fates
  <2>4. Status'[m] = "waiting"
    BY <1>e, <1>g, <2>1, <2>3, StatusNext DEF Out
  <2>5. Serial!Become({m}, "waiting")
    BY <1>d, <1>e, <1>g, <2>3, <2>4
  <2> QED
    BY <2>2, <2>5 DEF Serial!Next, Serial!Arrive
<1>1. ASSUME NEW m \in Users, UserTryLock(m) PROVE Goal
  <2>1. /\ m \in Msgs /\ pc[m] = "new" /\ batch' = batch /\ fate' = fate
        /\ Goto(m, "locked") \/ Goto(m, "refused")
    BY <1>0, <1>1 DEF UserTryLock
  <2> QED
    BY <1>g, <2>1
<1>2. ASSUME NEW m \in Msgs, Enqueue(m) PROVE Goal
  <2>1. /\ pc[m] \in {"refused", "result"} /\ batch' = batch
        /\ fate[m] = "none" /\ ~Working(m) /\ ~Out(m) /\ m \in Handlers \cup Stops
    BY <1>0, <1>2, <1>c DEF Enqueue, Early, EarlyPCs, Out
  <2>2. CASE fate' = fate
    <3>1. Goto(m, "retry") \/ Goto(m, "done")
      BY <1>2 DEF Enqueue
    <3> QED
      BY <2>1, <2>2, <3>1, StatusStays
  <2>3. CASE fate' = Fated({m}, "full") /\ Goto(m, "done")
    <3>1. \A x \in Msgs : IF x \in {m} THEN fate'[x] # "none" ELSE fate'[x] = fate[x]
      BY <2>3 DEF Fated
    <3>2. \A x \in {m} : Sess(x) = Sess(m) /\ Status[x] = "waiting"
      BY <2>1, StatusNow
    <3>3. {m} \in SUBSET Msgs /\ Sess(m) \in Sessions
      BY <1>0
    <3> QED
      BY <2>1, <2>3, <3>1, <3>2, <3>3, DropSettles
  <2> QED
    BY <1>2, <2>2, <2>3 DEF Enqueue
<1>3. ASSUME NEW m \in Msgs, SubTryLock(m) \/ GetChat(m) \/ Activate(m) \/ StartChat(m) \/ Unwind(m)
      PROVE  Goal
  <2>1. /\ UNCHANGED <<batch, fate>> /\ m \in Handlers \cup Stops /\ ~Out(m)
        /\ \/ Goto(m, "locked") \/ Goto(m, "done") \/ Goto(m, "ready") \/ Goto(m, "drain")
           \/ Goto(m, "waiting") \/ Goto(m, "release")
    BY <1>0, <1>3 DEF SubTryLock, GetChat, Activate, StartChat, Unwind, Out
  <2> QED
    BY <2>1, StatusStays
<1>4. ASSUME NEW m \in Msgs, GetChatFails(m) PROVE Goal
  <2>1. /\ pc[m] = "locked" /\ batch' = batch /\ Goto(m, "unwind") /\ ~Out(m)
        /\ m \in Handlers \cup Stops /\ Sess(m) \in Sessions
    BY <1>0, <1>4 DEF GetChatFails, Out
  <2>2. CASE m \in Users
    <3>1. fate' = Fated({m}, "failed")
      BY <1>4, <2>2 DEF GetChatFails
    <3>2. \A x \in Msgs : IF x \in {m} THEN fate'[x] # "none" ELSE fate'[x] = fate[x]
      BY <3>1 DEF Fated
    <3>3. \A x \in {m} : Sess(x) = Sess(m) /\ Status[x] = "waiting"
      BY <1>c, <2>1, <2>2, StatusNow DEF Early, EarlyPCs
    <3>4. {m} \in SUBSET Msgs
      OBVIOUS
    <3> QED
      BY <2>1, <3>2, <3>3, <3>4, DropSettles
  <2>3. CASE m \notin Users
    <3>1. fate' = Fated(ToSet(queue[Sess(m)]), "discarded")
      BY <1>4, <2>3 DEF GetChatFails
    <3>2. \A x \in Msgs : IF x \in ToSet(queue[Sess(m)]) THEN fate'[x] # "none"
                          ELSE fate'[x] = fate[x]
      BY <3>1 DEF Fated
    <3> QED
      BY <1>a, <2>1, <3>2, QueuedWaits, DropSettles
  <2> QED
    BY <2>2, <2>3
<1>5. ASSUME NEW m \in Msgs, AbortDrain(m) PROVE Goal
  <2>1. /\ pc[m] = "abort" /\ batch' = batch /\ Goto(m, "unwind") /\ ~Out(m)
        /\ m \in Handlers \cup Stops /\ Sess(m) \in Sessions
        /\ fate' = Fated(ToSet(queue[Sess(m)]), "discarded")
    BY <1>0, <1>5 DEF AbortDrain, Out
  <2>2. \A x \in Msgs : IF x \in ToSet(queue[Sess(m)]) THEN fate'[x] # "none"
                        ELSE fate'[x] = fate[x]
    BY <2>1 DEF Fated
  <2> QED
    BY <1>a, <2>1, <2>2, QueuedWaits, DropSettles
<1>6. ASSUME NEW c \in Stops, Stop(c) PROVE Goal
  <2>0. c \notin Msgs /\ c \in Handlers \cup Stops /\ Sess(c) \in Sessions
    BY <1>0
  <2>1. CASE StopDrain(c)
    <3>1. /\ batch' = batch /\ Goto(c, "stopReq")
          /\ fate' = Fated(ToSet(queue[Sess(c)]), "stopped")
      BY <2>1 DEF StopDrain
    <3>2. \A x \in Msgs : IF x \in ToSet(queue[Sess(c)]) THEN fate'[x] # "none"
                          ELSE fate'[x] = fate[x]
      BY <3>1 DEF Fated
    <3> QED
      BY <1>a, <2>0, <3>1, <3>2, QueuedWaits, DropSettles
  <2>2. CASE StopSubagents(c) \/ StopRequest(c)
    <3>1. UNCHANGED <<batch, fate>> /\ (Goto(c, "stopDrain") \/ Goto(c, "new"))
      BY <2>2 DEF StopSubagents, StopRequest
    <3> QED
      BY <2>0, <3>1, StatusStays
  <2> QED
    BY <1>6, <2>1, <2>2 DEF Stop
<1>7. ASSUME NEW m \in Msgs, FirstDrain(m) \/ Redrain(m) PROVE Goal
  <2>0. Sess(m) \in Sessions /\ m \in Handlers \cup Stops
    BY <1>0
  <2> DEFINE b == IF pc[m] = "drain" /\ m \in Users THEN Append(queue[Sess(m)], m)
                  ELSE queue[Sess(m)]
  <2>1. /\ pc[m] \in {"drain", "redrain"} /\ fate' = fate
        /\ batch' = [batch EXCEPT ![m] = b]
        /\ Goto(m, IF b = <<>> THEN "unwind" ELSE "chat")
    BY <1>7 DEF FirstDrain, Redrain
  <2>2. b \in Seq(Msgs)
    BY <1>0, <2>0
  <2>3. ASSUME NEW x \in ToSet(b) PROVE Sess(x) = Sess(m) /\ Status[x] = "waiting"
    <3>1. CASE x \in ToSet(queue[Sess(m)])
      BY <2>0, <3>1, QueuedWaits
    <3>2. CASE x \notin ToSet(queue[Sess(m)])
      <4>1. pc[m] = "drain" /\ m \in Users /\ x = m
        <5>1. pc[m] = "drain" /\ m \in Users
          BY <2>3, <3>2
        <5>2. ToSet(b) = ToSet(queue[Sess(m)]) \cup {m}
          BY <1>0, <2>0, <5>1, AppendedSequence
        <5> QED
          BY <2>3, <3>2, <5>1, <5>2
      <4> QED
        BY <1>c, <4>1, StatusNow DEF Early, EarlyPCs, Out
    <3> QED
      BY <3>1, <3>2
  <2>4. CASE b # <<>>
    <3> HIDE DEF b
    <3> QED
      BY <2>1, <2>2, <2>3, <2>4, TakingBegins
  <2>5. CASE b = <<>>
    <3>1. batch[m] = <<>>
      BY <2>1 DEF Kept, Sorted
    <3>2. batch' = batch
      BY <1>0, <2>1, <2>5, <3>1
    <3>3. Goto(m, "unwind") /\ ~Out(m)
      BY <2>1, <2>5 DEF Out
    <3> QED
      BY <2>0, <2>1, <3>2, <3>3, StatusStays
  <2> QED
    BY <2>4, <2>5
<1>8. ASSUME NEW m \in Msgs,
             ClearFails(m) \/ Panic(m) \/ \E f \in {"answered", "blocked"} : Reply(m, f)
      PROVE  Goal
  <2>1. PICK f \in Fates \ {"none"} : fate' = Fated(ToSet(batch[m]), f)
    BY <1>8 DEF ClearFails, Panic, Reply, Fates
  <2>2. /\ pc[m] \in {"chat", "waiting"} /\ EndBatch(m)
        /\ Goto(m, "abort") \/ Goto(m, "unwind") \/ Goto(m, "redrain")
    BY <1>8 DEF ClearFails, Panic, Reply, Stopped
  <2>3. \A x \in Msgs : IF x \in {} \/ InBatch(x, m) THEN fate'[x] # "none"
                        ELSE fate'[x] = fate[x]
    BY <1>b, <2>1 DEF Fated
  <2>4. {} \in SUBSET Msgs /\ \A x \in {} : Sess(x) = Sess(m) /\ Status[x] = "waiting"
    OBVIOUS
  <2> QED
    BY <2>2, <2>3, <2>4, EndSettles
<1>9. ASSUME NEW m \in Msgs, Deny(m) \/ ChatFails(m) PROVE Goal
  <2>0. Sess(m) \in Sessions
    BY <1>0
  <2>1. PICK f \in Fates \ {"none"} : EndAndDrop(m, f)
    BY <1>9 DEF Deny, ChatFails, Fates
  <2>2. /\ pc[m] \in {"chat", "waiting"} /\ EndBatch(m)
        /\ Goto(m, "abort") \/ Goto(m, "unwind")
    BY <1>9, <2>1 DEF Deny, ChatFails, EndAndDrop, Stopped
  <2>3. \A x \in Msgs : IF x \in ToSet(queue[Sess(m)]) \/ InBatch(x, m) THEN fate'[x] # "none"
                        ELSE fate'[x] = fate[x]
    BY <1>b, <2>1 DEF EndAndDrop
  <2> QED
    BY <1>a, <2>0, <2>2, <2>3, QueuedWaits, EndSettles
<1>10. ASSUME NEW m \in Msgs, SubEnds(m) PROVE Goal
  <2>1. pc[m] = "running" /\ batch' = batch
    BY <1>10 DEF SubEnds
  <2>2. CASE Goto(m, "result") /\ fate' = fate
    BY <1>g, <2>1, <2>2
  <2>3. CASE Goto(m, "done") /\ fate' = Fated({m}, "canceled")
    <3>1. fate[m] = "none" /\ ~Working(m)
      BY <1>c, <2>1 DEF Early, EarlyPCs
    <3>2. Status[m] = "out"
      BY <2>1, <3>1, StatusNow DEF Out
    <3>3. "canceled" \in Fates \ {"none"}
      BY DEF Fates
    <3>4. Status'[m] = "settled"
      BY <1>e, <2>1, <2>3, <3>3, StatusNext
    <3>5. Serial!Become({m}, "settled")
      BY <1>d, <1>e, <2>1, <2>3, <3>3, <3>4
    <3> QED
      BY <3>2, <3>5 DEF Serial!Next, Serial!Withdraw
  <2> QED
    BY <1>10, <2>2, <2>3 DEF SubEnds
<1>11. ASSUME NEW m \in Msgs, Recycle(m) PROVE Goal
  <2>1. pc[m] = "done" /\ fate[m] # "none" /\ batch' = batch /\ Goto(m, "new")
        /\ fate' = Fated({m}, "none") /\ "none" \in Fates
    BY <1>11 DEF Recycle, Fates
  <2>2. ~Working(m)
    BY <2>1 DEF Kept, Placed, Working
  <2>3. Status[m] = "settled"
    BY <2>1, StatusNow
  <2>4. Status'[m] = "out"
    BY <1>e, <2>1, <2>2, StatusNext DEF Out
  <2>5. Serial!Become({m}, "out")
    BY <1>d, <1>e, <2>1, <2>4
  <2> QED
    BY <2>3, <2>5 DEF Serial!Next, Serial!Forget
<1>12. ASSUME NEW b \in Subs, Launch(b) PROVE Goal
  <2>1. /\ UNCHANGED <<batch, fate>> /\ b \in Handlers \cup Stops
        /\ Out(b) /\ Goto(b, "running")
    BY <1>0, <1>12 DEF Launch, Out
  <2> QED
    BY <2>1, StatusStays
<1>13. ASSUME NEW m \in Msgs, Deadline(m) PROVE Goal
  BY <1>13 DEF Deadline, Status
<1>14. ASSUME NEW p \in Probes, Probe(p) \/ ProbeEnds(p) PROVE Goal
  <2>1. /\ UNCHANGED <<batch, fate>> /\ p \in Handlers \cup Stops /\ p \notin Msgs
        /\ Goto(p, "probing") \/ Goto(p, "release")
    BY <1>0, <1>14 DEF Probe, ProbeEnds
  <2> QED
    BY <2>1, StatusStays
<1>15. ASSUME NEW h \in Handlers, FreeSlot(h) \/ Unlock(h) PROVE Goal
  <2>1. /\ UNCHANGED <<batch, fate>> /\ h \in Handlers \cup Stops /\ ~Out(h)
        /\ \/ Goto(h, "unlock") \/ Goto(h, "done")
           \/ h \notin Msgs /\ Goto(h, "new")
    BY <1>0, <1>15 DEF FreeSlot, Unlock, Out
  <2> QED
    BY <2>1, StatusStays
<1>16. CASE UNCHANGED vars
  BY <1>16 DEF vars, Status
<1>17. ASSUME NEW m \in Msgs, Proceed(m) PROVE Goal
  BY <1>17, <1>2, <1>3, <1>4, <1>5, <1>7, <1>8, <1>9, <1>10, Zenon DEF Proceed
<1>18. Next => Goal
  BY <1>1, <1>6, <1>11, <1>12, <1>13, <1>14, <1>15, <1>17, Zenon DEF Next
<1> QED
  BY <1>16, <1>18 DEF Goal

\* The chat plugin keeps the promise of SerialChat: whatever handlers, background subagents,
\* /stop, deadlines and panics do, a session works on one batch at a time, takes it from its
\* waiting messages, settles it as a whole and never works on a settled message again.
THEOREM ChatIsSerial == Spec => ImplementsSerialChat
<1>1. Init => Serial!Init
  <2> SUFFICES ASSUME Init PROVE \A m \in Msgs : Status[m] = "out"
    BY DEF Serial!Init, Status
  <2>1. \A m \in Msgs : fate[m] = "none" /\ Out(m) /\ ~Working(m)
    BY EmptySequence DEF Init, Out, Working, InBatch, Handlers
  <2> QED
    BY <2>1, StatusNow
<1>2. TypeOK /\ Kept /\ OneResponder /\ [Next]_vars => [Serial!Next]_Status
  BY SerialStep
<1> QED
  BY <1>1, <1>2, TypeCorrect, AlwaysKept, RespondsAlone, PTL
     DEF Spec, Serial!Spec, ImplementsSerialChat

-------------------------------------------------------------------------------
\* What the induction needs beside ArrivalOrder: the history speaks of arrived messages of
\* one session.
Recorded ==
  \A p \in before : /\ p \in Msgs \X Msgs /\ SessOf[p[1]] = SessOf[p[2]]
                    /\ Arrived(p[1]) /\ Arrived(p[2])

\* ArrivalOrder with its terms spelt out.
LEMMA ArrivalOrderNext ==
  ASSUME \A p \in before' :
           /\ \A i, j \in DOMAIN queue'[SessOf[p[1]]] :
                queue'[SessOf[p[1]]][i] = p[1] /\ queue'[SessOf[p[1]]][j] = p[2] => i < j
           /\ \A h \in Msgs :
                /\ p[2] \in ToSet(batch'[h]) => p[1] \notin ToSet(queue'[SessOf[p[1]]])
                /\ \/ \A i, j \in DOMAIN batch'[h] :
                        batch'[h][i] = p[1] /\ batch'[h][j] = p[2] => i < j
                   \/ p[1] = h /\ h \in Users
  PROVE  ArrivalOrder'
BY DEF ArrivalOrder, InOrder, Sess

LEMMA ArrivalOrderNow ==
  ASSUME ArrivalOrder, NEW p \in before
  PROVE  /\ \A i, j \in DOMAIN queue[SessOf[p[1]]] :
              queue[SessOf[p[1]]][i] = p[1] /\ queue[SessOf[p[1]]][j] = p[2] => i < j
         /\ \A h \in Msgs :
              /\ p[2] \in ToSet(batch[h]) => p[1] \notin ToSet(queue[SessOf[p[1]]])
              /\ \/ \A i, j \in DOMAIN batch[h] :
                      batch[h][i] = p[1] /\ batch[h][j] = p[2] => i < j
                 \/ p[1] = h /\ h \in Users
BY DEF ArrivalOrder, InOrder, Sess

\* A pair is new in the history when its second message arrives.
LEMMA HistoryStep ==
  ASSUME Noted, NEW p \in before'
  PROVE  /\ p \in Msgs \X Msgs /\ SessOf[p[1]] = SessOf[p[2]]
         /\ p \in before \/ (Arrived(p[1]) /\ ~Arrived(p[2]))
BY DEF Noted, Sess

\* A message in a queue or in a batch has arrived.
LEMMA PlacedArrived ==
  ASSUME Kept, NEW x \in Msgs, InQueue(x) \/ \E h \in Msgs : InBatch(x, h)
  PROVE  Arrived(x) /\ ~Early(x)
BY DEF Kept, Placed, Early, EarlyPCs, Arrived

\* Queues and batches stay or are emptied: no message gets a new place in them.
Shrink == /\ \A s \in Sessions : queue'[s] = queue[s] \/ queue'[s] = <<>>
          /\ \A h \in Msgs : batch'[h] = batch[h] \/ batch'[h] = <<>>

LEMMA ShrinkKeepsOrder ==
  ASSUME TypeOK, Kept, ArrivalOrder, Shrink, Noted
  PROVE  ArrivalOrder'
<1> SUFFICES ASSUME NEW p \in before'
    PROVE  /\ \A i, j \in DOMAIN queue'[SessOf[p[1]]] :
                queue'[SessOf[p[1]]][i] = p[1] /\ queue'[SessOf[p[1]]][j] = p[2] => i < j
           /\ \A h \in Msgs :
                /\ p[2] \in ToSet(batch'[h]) => p[1] \notin ToSet(queue'[SessOf[p[1]]])
                /\ \/ \A i, j \in DOMAIN batch'[h] :
                        batch'[h][i] = p[1] /\ batch'[h][j] = p[2] => i < j
                   \/ p[1] = h /\ h \in Users
  BY ArrivalOrderNext
<1>0. p[1] \in Msgs /\ p[2] \in Msgs /\ SessOf[p[1]] = SessOf[p[2]]
      /\ SessOf[p[1]] \in Sessions
  BY HistoryStep DEF Handlers
<1>1. CASE p \in before
  BY <1>0, <1>1, ArrivalOrderNow, EmptySequence DEF Shrink
<1>2. CASE p \notin before
  <2>1. ~InQueue(p[2]) /\ \A h \in Msgs : ~InBatch(p[2], h)
    BY <1>0, <1>2, HistoryStep, PlacedArrived
  <2>2. p[2] \notin ToSet(queue'[SessOf[p[1]]]) /\ \A h \in Msgs : p[2] \notin ToSet(batch'[h])
    BY <1>0, <2>1, EmptySequence DEF Shrink, InQueue, InBatch, Sess
  <2> QED
    BY <2>2 DEF ToSet
<1> QED
  BY <1>1, <1>2

\* A message that arrives in the queue goes behind those that arrived before it.
LEMMA EnqueueKeepsOrder ==
  ASSUME TypeOK, Kept, Recorded, ArrivalOrder, Noted, NEW m \in Msgs,
         pc[m] \in {"refused", "result"}, UNCHANGED <<batch, fate>>,
         queue' = [queue EXCEPT ![Sess(m)] = Append(@, m)],
         NEW q, Goto(m, q)
  PROVE  ArrivalOrder'
<1> SUFFICES ASSUME NEW p \in before'
    PROVE  /\ \A i, j \in DOMAIN queue'[SessOf[p[1]]] :
                queue'[SessOf[p[1]]][i] = p[1] /\ queue'[SessOf[p[1]]][j] = p[2] => i < j
           /\ \A h \in Msgs :
                /\ p[2] \in ToSet(batch'[h]) => p[1] \notin ToSet(queue'[SessOf[p[1]]])
                /\ \/ \A i, j \in DOMAIN batch'[h] :
                        batch'[h][i] = p[1] /\ batch'[h][j] = p[2] => i < j
                   \/ p[1] = h /\ h \in Users
  BY ArrivalOrderNext
<1>0. /\ p[1] \in Msgs /\ p[2] \in Msgs /\ SessOf[p[1]] = SessOf[p[2]]
      /\ SessOf[p[1]] \in Sessions /\ SessOf[m] \in Sessions
      /\ queue \in [Sessions -> Seq(Msgs)] /\ pc \in [Handlers \cup Stops -> PCs]
      /\ Msgs \subseteq Handlers
  BY HistoryStep DEF Handlers, TypeOK
<1> DEFINE old == queue[SessOf[p[1]]]
           new == queue'[SessOf[p[1]]]
<1>1. ~Arrived(m) /\ Early(m)
  BY DEF Arrived, Early, EarlyPCs
<1>2. p[1] # m
  BY <1>1, HistoryStep DEF Recorded
<1>3. m \notin ToSet(old) /\ \A h \in Msgs : m \notin ToSet(batch[h])
  <2>1. ~InQueue(m) /\ \A h \in Msgs : ~InBatch(m, h)
    BY <1>1, PlacedArrived
  <2>2. \A s \in Sessions : \A x \in ToSet(queue[s]) : SessOf[x] = s
    BY DEF Kept, Sorted, Sess
  <2> QED
    BY <1>0, <2>1, <2>2 DEF InQueue, InBatch, Sess
<1>4. /\ old \in Seq(Msgs)
      /\ new = old \/ (SessOf[p[1]] = SessOf[m] /\ new = Append(old, m))
  BY <1>0 DEF Sess
<1>5. \A i \in DOMAIN new : \/ i \in DOMAIN old /\ new[i] = old[i]
                            \/ i = Len(old) + 1 /\ new[i] = m
  BY <1>0, <1>4
<1>6. \A i \in DOMAIN old : i \in Nat /\ i < Len(old) + 1
  BY <1>0
<1>7. p[1] \in ToSet(new) => p[1] \in ToSet(old)
  BY <1>2, <1>5 DEF ToSet
<1> HIDE DEF old, new
<1>8. CASE p[2] = m
  <2>1. \A i, j \in DOMAIN new : new[i] = p[1] /\ new[j] = m => i < j
    <3> SUFFICES ASSUME NEW i \in DOMAIN new, NEW j \in DOMAIN new, new[i] = p[1], new[j] = m
                 PROVE  i < j
      OBVIOUS
    <3>1. i \in DOMAIN old
      BY <1>2, <1>5
    <3>2. j = Len(old) + 1
      BY <1>3, <1>5 DEF ToSet
    <3> QED
      BY <1>6, <3>1, <3>2
  <2>2. \A h \in Msgs : p[2] \notin ToSet(batch'[h])
    BY <1>3, <1>8
  <2> QED
    BY <1>8, <2>1, <2>2 DEF new, ToSet
<1>9. CASE p[2] # m
  <2>1. p \in before
    <3>1. pc'[p[2]] = pc[p[2]] /\ fate'[p[2]] = fate[p[2]]
      BY <1>0, <1>9 DEF Goto
    <3>2. Arrived(p[2])'
      BY DEF Noted
    <3> QED
      BY <3>1, <3>2, HistoryStep DEF Arrived
  <2>2. \A i, j \in DOMAIN new : new[i] = p[1] /\ new[j] = p[2] => i < j
    BY <1>2, <1>5, <1>9, <2>1, ArrivalOrderNow DEF old
  <2>3. \A h \in Msgs : p[2] \in ToSet(batch'[h]) => p[1] \notin ToSet(new)
    BY <1>7, <2>1, ArrivalOrderNow DEF old
  <2>4. \A h \in Msgs : \/ \A i, j \in DOMAIN batch'[h] :
                             batch'[h][i] = p[1] /\ batch'[h][j] = p[2] => i < j
                        \/ p[1] = h /\ h \in Users
    BY <2>1, ArrivalOrderNow
  <2> QED
    BY <2>2, <2>3, <2>4 DEF new
<1> QED
  BY <1>8, <1>9

\* A responder takes the queue as it is, a user's own message behind it.
LEMMA TakingKeepsOrder ==
  ASSUME TypeOK, Kept, OneResponder, Recorded, ArrivalOrder, Noted,
         NEW m \in Msgs, pc[m] \in {"drain", "redrain"}, NEW b,
         b = IF Early(m) THEN Append(queue[Sess(m)], m) ELSE queue[Sess(m)],
         batch' = [batch EXCEPT ![m] = b], queue' = Drained(Sess(m)),
         NEW q, q \in {"unwind", "chat"}, Goto(m, q), UNCHANGED fate
  PROVE  ArrivalOrder'
<1> SUFFICES ASSUME NEW p \in before'
    PROVE  /\ \A i, j \in DOMAIN queue'[SessOf[p[1]]] :
                queue'[SessOf[p[1]]][i] = p[1] /\ queue'[SessOf[p[1]]][j] = p[2] => i < j
           /\ \A h \in Msgs :
                /\ p[2] \in ToSet(batch'[h]) => p[1] \notin ToSet(queue'[SessOf[p[1]]])
                /\ \/ \A i, j \in DOMAIN batch'[h] :
                        batch'[h][i] = p[1] /\ batch'[h][j] = p[2] => i < j
                   \/ p[1] = h /\ h \in Users
  BY ArrivalOrderNext
<1>0. /\ p[1] \in Msgs /\ p[2] \in Msgs /\ SessOf[p[1]] = SessOf[p[2]]
      /\ SessOf[p[1]] \in Sessions /\ SessOf[m] \in Sessions
      /\ queue \in [Sessions -> Seq(Msgs)] /\ pc \in [Handlers \cup Stops -> PCs]
      /\ batch \in [Msgs -> Seq(Msgs)] /\ Msgs \subseteq Handlers
  BY HistoryStep DEF Handlers, TypeOK
<1> DEFINE s == SessOf[p[1]]
           old == queue[SessOf[m]]
<1>1. /\ queue'[SessOf[m]] = <<>> /\ \A r \in Sessions \ {SessOf[m]} : queue'[r] = queue[r]
      /\ batch'[m] = b /\ \A h \in Msgs \ {m} : batch'[h] = batch[h]
  BY <1>0 DEF Drained, Sess
<1>2. p \in before
  <2>1. Arrived(p[2])' <=> Arrived(p[2])
    BY <1>0 DEF Arrived, Goto
  <2>2. Arrived(p[2])'
    BY DEF Noted
  <2> QED
    BY <2>1, <2>2, HistoryStep
<1>3. old \in Seq(Msgs) /\ b = IF Early(m) THEN Append(old, m) ELSE old
  BY <1>0 DEF Sess
<1>4. Early(m) => m \notin ToSet(old) /\ m \in Users
  BY DEF Kept, Placed, InQueue, Sess, Early, EarlyPCs
<1>5. \A i \in DOMAIN b : \/ i \in DOMAIN old /\ b[i] = old[i]
                          \/ Early(m) /\ i = Len(old) + 1 /\ b[i] = m
  BY <1>3
<1>6. \A i \in DOMAIN old : i \in Nat /\ i < Len(old) + 1
  BY <1>3
<1>7. \A x \in ToSet(b) : SessOf[x] = SessOf[m]
  <2>1. \A x \in ToSet(old) : SessOf[x] = SessOf[m]
    BY <1>0 DEF Kept, Sorted, Sess
  <2> QED
    BY <1>5, <2>1 DEF ToSet
<1>8. /\ \A i, j \in DOMAIN queue'[s] : queue'[s][i] = p[1] /\ queue'[s][j] = p[2] => i < j
      /\ \A h \in Msgs \ {m} : p[2] \in ToSet(batch'[h]) => p[1] \notin ToSet(queue'[s])
      /\ \A h \in Msgs \ {m} : \/ \A i, j \in DOMAIN batch'[h] :
                                    batch'[h][i] = p[1] /\ batch'[h][j] = p[2] => i < j
                               \/ p[1] = h /\ h \in Users
  <2>1. queue'[s] = queue[s] \/ queue'[s] = <<>>
    BY <1>0, <1>1
  <2> QED
    BY <1>1, <1>2, <2>1, ArrivalOrderNow, EmptySequence
<1>9. p[2] \in ToSet(batch'[m]) => p[1] \notin ToSet(queue'[s])
  BY <1>0, <1>1, <1>7, EmptySequence
<1> HIDE DEF old
<1>10. ASSUME p[1] # m \/ m \notin Users, NEW i \in DOMAIN b, NEW j \in DOMAIN b,
              b[i] = p[1], b[j] = p[2]
       PROVE  i < j
  <2>1. i \in DOMAIN old /\ old[i] = p[1]
    BY <1>4, <1>5, <1>10
  <2>2. CASE j \in DOMAIN old /\ old[j] = p[2]
    <3>1. SessOf[p[1]] = SessOf[m]
      BY <1>7, <1>10 DEF ToSet
    <3> QED
      BY <1>2, <2>1, <2>2, <3>1, ArrivalOrderNow DEF old
  <2>3. CASE j = Len(old) + 1
    BY <1>6, <2>1, <2>3
  <2> QED
    BY <1>5, <1>10, <2>2, <2>3
<1>11. \/ \A i, j \in DOMAIN batch'[m] : batch'[m][i] = p[1] /\ batch'[m][j] = p[2] => i < j
       \/ p[1] = m /\ m \in Users
  BY <1>1, <1>10
<1> HIDE DEF s
<1>12. ASSUME NEW h \in Msgs
       PROVE  /\ p[2] \in ToSet(batch'[h]) => p[1] \notin ToSet(queue'[s])
              /\ \/ \A i, j \in DOMAIN batch'[h] :
                      batch'[h][i] = p[1] /\ batch'[h][j] = p[2] => i < j
                 \/ p[1] = h /\ h \in Users
  <2>1. CASE h = m
    BY <1>9, <1>11, <2>1
  <2>2. CASE h # m
    BY <1>8, <2>2
  <2> QED
    BY <2>1, <2>2
<1> QED
  BY <1>8, <1>12 DEF s

\* The order of arrival is kept by every step.
LEMMA OrderStep ==
  ASSUME TypeOK, Kept, OneResponder, Recorded, ArrivalOrder, Next, Noted
  PROVE  ArrivalOrder'
<1>0. /\ queue \in [Sessions -> Seq(Msgs)] /\ batch \in [Msgs -> Seq(Msgs)]
      /\ Users \subseteq Msgs /\ Subs \subseteq Msgs
  BY DEF TypeOK, Msgs
<1>a. ASSUME NEW x, queue' = queue \/ queue' = Drained(Sess(x)),
             NEW y, batch' = batch \/ EndBatch(y)
      PROVE  ArrivalOrder'
  <2>1. Shrink
    BY <1>0, <1>a DEF Drained, EndBatch, Shrink
  <2> QED
    BY <2>1, ShrinkKeepsOrder
<1>1. ASSUME NEW m \in Msgs, Enqueue(m) PROVE ArrivalOrder'
  <2>1. CASE Len(queue[Sess(m)]) < MaxPending
    BY <1>1, <2>1, EnqueueKeepsOrder DEF Enqueue
  <2>2. CASE ~(Len(queue[Sess(m)]) < MaxPending)
    BY <1>1, <1>a, <2>2 DEF Enqueue
  <2> QED
    BY <2>1, <2>2
<1>2. ASSUME NEW m \in Msgs,
             \/ UserTryLock(m) \/ Launch(m) \/ Deadline(m) \/ Recycle(m)
             \/ SubTryLock(m) \/ GetChat(m) \/ Activate(m) \/ ClearFails(m) \/ StartChat(m)
             \/ Panic(m) \/ Unwind(m) \/ SubEnds(m)
      PROVE  ArrivalOrder'
  BY <1>2, <1>a DEF UserTryLock, Launch, Deadline, Recycle, SubTryLock, GetChat, Activate,
                    ClearFails, StartChat, Panic, Unwind, SubEnds
<1>3. ASSUME NEW m \in Msgs, GetChatFails(m) \/ Deny(m) \/ ChatFails(m) \/ AbortDrain(m)
      PROVE  ArrivalOrder'
  BY <1>3, <1>a DEF GetChatFails, Deny, ChatFails, EndAndDrop, AbortDrain
<1>4. ASSUME NEW m \in Msgs, NEW f, Reply(m, f) PROVE ArrivalOrder'
  BY <1>4, <1>a DEF Reply
<1>5. ASSUME NEW m \in Msgs, FirstDrain(m) PROVE ArrivalOrder'
  <2>1. Early(m) <=> m \in Users
    BY <1>5 DEF FirstDrain, Early, EarlyPCs
  <2> DEFINE b == IF m \in Users THEN Append(queue[Sess(m)], m) ELSE queue[Sess(m)]
  <2>2. /\ pc[m] = "drain" /\ queue' = Drained(Sess(m)) /\ UNCHANGED fate
        /\ batch' = [batch EXCEPT ![m] = b]
        /\ Goto(m, IF b = <<>> THEN "unwind" ELSE "chat")
    BY <1>5 DEF FirstDrain
  <2>3. b = IF Early(m) THEN Append(queue[Sess(m)], m) ELSE queue[Sess(m)]
    BY <2>1
  <2> HIDE DEF b
  <2>4. Goto(m, "unwind") \/ Goto(m, "chat")
    BY <2>2
  <2> QED
    BY <2>2, <2>3, <2>4, TakingKeepsOrder
<1>6. ASSUME NEW m \in Msgs, Redrain(m) PROVE ArrivalOrder'
  <2>1. ~Early(m)
    BY <1>6 DEF Redrain, Early, EarlyPCs
  <2> QED
    BY <1>6, <2>1, TakingKeepsOrder DEF Redrain
<1>7. ASSUME NEW m \in Msgs, Proceed(m) PROVE ArrivalOrder'
  BY <1>7, <1>1, <1>2, <1>3, <1>4, <1>5, <1>6, Zenon DEF Proceed
<1>8. ASSUME NEW h \in Handlers, Probe(h) \/ ProbeEnds(h) \/ FreeSlot(h) \/ Unlock(h)
      PROVE  ArrivalOrder'
  BY <1>8, <1>a DEF Probe, ProbeEnds, FreeSlot, Unlock
<1>9. ASSUME NEW c \in Stops, Stop(c) PROVE ArrivalOrder'
  BY <1>9, <1>a DEF Stop, StopSubagents, StopDrain, StopRequest
<1> QED
  <2>1. Probes \subseteq Handlers
    BY DEF Handlers
  <2> QED
    BY <1>0, <1>2, <1>7, <1>8, <1>9, <2>1, Zenon DEF Next

\* Messages reach the model in the order they arrived, within a batch and from one batch to
\* the next; only the holder's own message may be put behind later ones.
THEOREM MessagesKeepOrder == RecordedSpec => []ArrivalOrder
<1> DEFINE Kind == TypeOK /\ Kept /\ OneResponder
<1>1. RecordedInit => Recorded /\ ArrivalOrder
  BY DEF RecordedInit, Recorded, ArrivalOrder
<1>2. Kind /\ Recorded /\ ArrivalOrder /\ [Next /\ Noted]_<<vars, before>>
        => Recorded' /\ ArrivalOrder'
  <2> SUFFICES ASSUME TypeOK, Kept, OneResponder, Recorded, ArrivalOrder,
                      [Next /\ Noted]_<<vars, before>>
               PROVE  Recorded' /\ ArrivalOrder'
    OBVIOUS
  <2>1. CASE Next /\ Noted
    <3>1. Recorded'
      BY <2>1 DEF Recorded, Noted, Sess
    <3> QED
      BY <2>1, <3>1, OrderStep
  <2>2. CASE UNCHANGED <<vars, before>>
    BY <2>2 DEF vars, Recorded, Arrived, ArrivalOrder, InOrder, Sess
  <2> QED
    BY <2>1, <2>2
<1>3. RecordedSpec => Spec
  <2>1. [Next /\ Noted]_<<vars, before>> => [Next]_vars
    OBVIOUS
  <2> QED
    BY <2>1, PTL DEF RecordedSpec, RecordedInit, Spec
<1>4. Spec => []Kind
  BY TypeCorrect, AlwaysKept, RespondsAlone, PTL
<1> QED
  BY <1>1, <1>2, <1>3, <1>4, PTL DEF RecordedSpec
=============================================================================
