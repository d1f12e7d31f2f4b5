------------------------------ MODULE ChatSession ------------------------------
(***************************************************************************)
(* How the AI chat plugin turns concurrent messages into one serial        *)
(* conversation per session: OnGroupMsg / OnFriendMsg, processChatBatch,   *)
(* the pending queue, /stop, background subagents and the short lock       *)
(* probes of the janitor and the no-mention cleaner                        *)
(* (pluginaichat/plugin.go, pendingqueue.go, subagent_async.go, llm.go).   *)
(*                                                                         *)
(* Every event runs in a goroutine of its own; a user message names its    *)
(* goroutine, a subagent names its goroutine and its synthetic result      *)
(* message.  tryLock is one step here (SessionLock has its inside), the    *)
(* release is two because the slot goes back before the key.               *)
(***************************************************************************)
EXTENDS Naturals, Sequences, FiniteSets, SequencesExt

CONSTANTS Sessions,    \* chat sessions
          Users,       \* user messages addressed to the AI, with their goroutine
          Subs,        \* background subagents, with their result message
          Probes,      \* goroutines that only probe the lock (janitor, cleaner)
          Stops,       \* /stop commands
          SessOf,      \* the session of each of these
          RateLimit,   \* capacity of rateCh
          MaxPending,  \* maxPendingMessages (20 in the code)
          ClearMayFail,\* ClearHistory of "#新对话" may return an error
          MayPanic,    \* a plugin may panic while it processes a batch
          None

Msgs     == Users \cup Subs
Handlers == Msgs \cup Probes

ASSUME ChatAssumption ==
  /\ IsFiniteSet(Handlers)
  /\ SessOf \in [Handlers \cup Stops -> Sessions]
  /\ RateLimit \in Nat \ {0}
  /\ MaxPending \in Nat \ {0}
  /\ ClearMayFail \in BOOLEAN
  /\ MayPanic \in BOOLEAN
  /\ None \notin Handlers
  /\ Users \cap Subs = {} /\ Msgs \cap Probes = {}
  /\ Handlers \cap Stops = {}

VARIABLES slots,     \* len(rateCh)
          lock,      \* lock[s]: the handler whose token the lock key holds
          queue,     \* queue[s]: pendingMsgs
          active,    \* active[s]: owner of the registered cancel function
          canceled,  \* handlers whose context has been cancelled or expired
          pc,        \* control point of each handler and stop command
          batch,     \* batch[h]: the messages of h's current chat request
          fate       \* fate[m]: what became of a message, "none" so far

vars == <<slots, lock, queue, active, canceled, pc, batch, fate>>

VARIABLE before      \* history: the order in which messages arrived

\* Control points at which a handler holds the session lock.
Responding == {"locked", "ready", "drain", "chat", "waiting", "redrain",
               "abort", "unwind", "probing"}
PCs == Responding \cup {"new", "refused", "running", "result", "retry",
                        "release", "unlock", "done", "stopDrain", "stopReq"}

\* answered: the model replied; blocked, denied, failed: the user was told so;
\* discarded: dropped from the queue after an error; stopped: dropped by /stop;
\* full: the queue was full; canceled: subagent result dropped after /stop;
\* lost: gone without a word.
Fates == {"none", "answered", "blocked", "denied", "failed", "discarded",
          "stopped", "full", "canceled", "lost"}

Init ==
  /\ slots = 0
  /\ lock = [s \in Sessions |-> None]
  /\ queue = [s \in Sessions |-> <<>>]
  /\ active = [s \in Sessions |-> None]
  /\ canceled = {}
  /\ pc = [h \in Handlers \cup Stops |-> "new"]
  /\ batch = [h \in Msgs |-> <<>>]
  /\ fate = [m \in Msgs |-> "none"]
-------------------------------------------------------------------------------
Sess(h) == SessOf[h]
Goto(h, p) == pc' = [pc EXCEPT ![h] = p]

\* drainPending: take all queued messages out.
Drained(s) == [queue EXCEPT ![s] = <<>>]

\* The messages of M get fate f, the others keep theirs.
Fated(M, f) == [m \in Msgs |-> IF m \in M THEN f ELSE fate[m]]

\* Mutant: tryLock without the store's check for an existing key.
CanLockUnchecked(s) == slots < RateLimit

\* tryLock succeeds: a slot and the session's lock.
CanLock(s) == slots < RateLimit /\ lock[s] = None
LockIn(h) == /\ slots' = slots + 1
             /\ lock' = [lock EXCEPT ![Sess(h)] = h]

\* A user message arrives: tryLock, and touchChat.
UserTryLock(m) ==
  /\ m \in Users /\ pc[m] = "new" /\ fate[m] = "none"
  /\ \/ /\ CanLock(Sess(m))
        /\ LockIn(m)
        /\ Goto(m, "locked")
     \/ /\ ~CanLock(Sess(m))
        /\ Goto(m, "refused")
        /\ UNCHANGED <<slots, lock>>
  /\ UNCHANGED <<queue, active, canceled, batch, fate>>

\* Mutant: enqueuePending without its limit.
EnqueueUnbounded(m) ==
  /\ pc[m] \in {"refused", "result"}
  /\ queue' = [queue EXCEPT ![Sess(m)] = Append(@, m)]
  /\ Goto(m, IF m \in Subs THEN "retry" ELSE "done")
  /\ UNCHANGED <<slots, lock, active, canceled, batch, fate>>

\* enqueuePending by a handler that did not get the lock (a user message) or
\* that has a result to deliver (a subagent, which tries the lock afterwards).
Enqueue(m) ==
  /\ pc[m] \in {"refused", "result"}
  /\ IF Len(queue[Sess(m)]) < MaxPending
     THEN /\ queue' = [queue EXCEPT ![Sess(m)] = Append(@, m)]
          /\ fate' = fate
          /\ Goto(m, IF m \in Subs THEN "retry" ELSE "done")
     ELSE /\ queue' = queue
          /\ fate' = Fated({m}, "full")
          /\ Goto(m, "done")
  /\ UNCHANGED <<slots, lock, active, canceled, batch>>

\* tryProcessPending: tryLock on behalf of a subagent's queued result.
SubTryLock(m) ==
  /\ m \in Subs /\ pc[m] = "retry"
  /\ \/ /\ CanLock(Sess(m))
        /\ LockIn(m)
        /\ Goto(m, "locked")
     \/ /\ ~CanLock(Sess(m))
        /\ Goto(m, "done")
        /\ UNCHANGED <<slots, lock>>
  /\ UNCHANGED <<queue, active, canceled, batch, fate>>

\* getChat found or rebuilt the session's ChatBot (history is loaded and the
\* SessionStart hook runs here).
GetChat(m) ==
  /\ pc[m] = "locked"
  /\ Goto(m, "ready")
  /\ UNCHANGED <<slots, lock, queue, active, canceled, batch, fate>>

\* Mutant: the release is deferred only after getChat.
GetChatFailsLocked(m) ==
  /\ pc[m] = "locked"
  /\ Goto(m, "done")
  /\ fate' = Fated({m}, "failed")
  /\ UNCHANGED <<slots, lock, queue, active, canceled, batch>>

\* getChat failed: the user is told; for a subagent's result the queue is
\* dropped instead.
GetChatFails(m) ==
  /\ pc[m] = "locked"
  /\ Goto(m, "unwind")
  /\ IF m \in Users
     THEN fate' = Fated({m}, "failed") /\ queue' = queue
     ELSE /\ fate' = Fated(ToSet(queue[Sess(m)]), "discarded")
          /\ queue' = Drained(Sess(m))
  /\ UNCHANGED <<slots, lock, active, canceled, batch>>

\* setActiveContext registers the cancel function of the new chat context.
Activate(m) ==
  /\ pc[m] = "ready"
  /\ active' = [active EXCEPT ![Sess(m)] = m]
  /\ Goto(m, "drain")
  /\ UNCHANGED <<slots, lock, queue, canceled, batch, fate>>

\* Mutant: leftovers of the queue take the place of the new message.
FirstDrainLosesOwn(m) ==
  /\ pc[m] = "drain"
  /\ batch' = [batch EXCEPT ![m] = IF queue[Sess(m)] = <<>> /\ m \in Users
                                   THEN <<m>> ELSE queue[Sess(m)]]
  /\ Goto(m, IF batch'[m] = <<>> THEN "unwind" ELSE "chat")
  /\ queue' = Drained(Sess(m))
  /\ UNCHANGED <<slots, lock, active, canceled, fate>>

\* Mutant: a message is put before those that were queued when it came.
FirstDrainOwnFirst(m) ==
  /\ pc[m] = "drain"
  /\ LET b == IF m \in Users THEN <<m>> \o queue[Sess(m)] ELSE queue[Sess(m)]
     IN  /\ batch' = [batch EXCEPT ![m] = b]
         /\ Goto(m, IF b = <<>> THEN "unwind" ELSE "chat")
  /\ queue' = Drained(Sess(m))
  /\ UNCHANGED <<slots, lock, active, canceled, fate>>

\* The first batch: what is queued, and for a user message itself at the end.
FirstDrain(m) ==
  /\ pc[m] = "drain"
  /\ LET b == IF m \in Users THEN Append(queue[Sess(m)], m) ELSE queue[Sess(m)]
     IN  /\ batch' = [batch EXCEPT ![m] = b]
         /\ Goto(m, IF b = <<>> THEN "unwind" ELSE "chat")
  /\ queue' = Drained(Sess(m))
  /\ UNCHANGED <<slots, lock, active, canceled, fate>>

\* Where processChatBatch's false leads: OnGroupMsg returns, tryProcessPending
\* drops the queue once more.
Stopped(m) == Goto(m, IF m \in Subs THEN "abort" ELSE "unwind")
EndBatch(m) == batch' = [batch EXCEPT ![m] = <<>>]

\* Mutant: an error ends the batch and leaves the queue alone.
EndAndKeep(m, f) ==
  /\ fate' = Fated(ToSet(batch[m]), f)
  /\ queue' = queue
  /\ EndBatch(m)
  /\ Stopped(m)

\* The batch ends with fate f; the queued messages are dropped with it.
EndAndDrop(m, f) ==
  /\ fate' = [x \in Msgs |-> IF x \in ToSet(batch[m]) THEN f
                             ELSE IF x \in ToSet(queue[Sess(m)]) THEN "discarded"
                             ELSE fate[x]]
  /\ queue' = Drained(Sess(m))
  /\ EndBatch(m)
  /\ Stopped(m)

\* processChatBatch, "#新对话" and ClearHistory fails: return false at once.
ClearFails(m) ==
  /\ ClearMayFail
  /\ pc[m] = "chat"
  /\ fate' = Fated(ToSet(batch[m]), "lost")
  /\ EndBatch(m)
  /\ Stopped(m)
  /\ UNCHANGED <<slots, lock, queue, active, canceled>>

\* processChatBatch: the daily quota is used up.
Deny(m) ==
  /\ pc[m] = "chat"
  /\ EndAndDrop(m, "denied")
  /\ UNCHANGED <<slots, lock, active, canceled>>

\* processChatBatch: the request goes to chat.Chat, which a cancelled context
\* lets no further than its first call.
StartChat(m) ==
  /\ pc[m] = "chat"
  /\ m \notin canceled
  /\ Goto(m, "waiting")
  /\ UNCHANGED <<slots, lock, queue, active, canceled, batch, fate>>

\* Mutant: only the last message of the batch counts as answered.
ReplyToLast(m, f) ==
  /\ pc[m] = "waiting"
  /\ f \in {"answered", "blocked"}
  /\ fate' = Fated({Last(batch[m])}, f)
  /\ EndBatch(m)
  /\ Goto(m, "redrain")
  /\ UNCHANGED <<slots, lock, queue, active, canceled>>

\* chat.Chat returned a reply (f = "answered") or the UserPromptSubmit hook
\* blocked the prompt (f = "blocked"): the loop goes on.
Reply(m, f) ==
  /\ pc[m] = "waiting"
  /\ f \in {"answered", "blocked"}
  /\ fate' = Fated(ToSet(batch[m]), f)
  /\ EndBatch(m)
  /\ Goto(m, "redrain")
  /\ UNCHANGED <<slots, lock, queue, active, canceled>>

\* chat.Chat failed, was cancelled or timed out.
ChatFails(m) ==
  /\ pc[m] \in {"chat", "waiting"}
  /\ pc[m] = "chat" => m \in canceled
  /\ EndAndDrop(m, "failed")
  /\ UNCHANGED <<slots, lock, active, canceled>>

\* A panic while the batch is processed: only the deferred calls run.
Panic(m) ==
  /\ MayPanic
  /\ pc[m] = "waiting"
  /\ fate' = Fated(ToSet(batch[m]), "lost")
  /\ EndBatch(m)
  /\ Goto(m, "unwind")
  /\ UNCHANGED <<slots, lock, queue, active, canceled>>

\* The next batch: what was queued during the response; nothing ends the loop.
Redrain(m) ==
  /\ pc[m] = "redrain"
  /\ batch' = [batch EXCEPT ![m] = queue[Sess(m)]]
  /\ Goto(m, IF queue[Sess(m)] = <<>> THEN "unwind" ELSE "chat")
  /\ queue' = Drained(Sess(m))
  /\ UNCHANGED <<slots, lock, active, canceled, fate>>

\* tryProcessPending after a false: the queue is dropped.
AbortDrain(m) ==
  /\ pc[m] = "abort"
  /\ fate' = Fated(ToSet(queue[Sess(m)]), "discarded")
  /\ queue' = Drained(Sess(m))
  /\ Goto(m, "unwind")
  /\ UNCHANGED <<slots, lock, active, canceled, batch>>

\* Mutant: clearActiveContext is not deferred.
UnwindKeepsActive(m) ==
  /\ pc[m] = "unwind"
  /\ canceled' = canceled \ {m}
  /\ Goto(m, "release")
  /\ UNCHANGED <<slots, lock, queue, active, batch, fate>>

\* The deferred cancel and clearActiveContext.
Unwind(m) ==
  /\ pc[m] = "unwind"
  /\ active' = [active EXCEPT ![Sess(m)] = None]
  /\ canceled' = canceled \ {m}
  /\ Goto(m, "release")
  /\ UNCHANGED <<slots, lock, queue, batch, fate>>

\* The deferred lock.release: the slot, then the key.
FreeSlot(h) ==
  /\ pc[h] = "release"
  /\ slots' = IF slots > 0 THEN slots - 1 ELSE 0
  /\ Goto(h, "unlock")
  /\ UNCHANGED <<lock, queue, active, canceled, batch, fate>>

Unlock(h) ==
  /\ pc[h] = "unlock"
  /\ lock' = [lock EXCEPT ![Sess(h)] = None]
  /\ Goto(h, IF h \in Probes THEN "new" ELSE "done")
  /\ UNCHANGED <<slots, queue, active, canceled, batch, fate>>

\* Mutant: the context of a user message has no deadline.
DeadlineOfSubs(m) ==
  /\ m \in Subs \ canceled
  /\ pc[m] \in {"drain", "chat", "waiting", "redrain"}
  /\ canceled' = canceled \cup {m}
  /\ UNCHANGED <<slots, lock, queue, active, pc, batch, fate>>

\* The deadline of the chat context (msgEventTimeout) passes.
Deadline(m) ==
  /\ m \notin canceled
  /\ pc[m] \in {"drain", "chat", "waiting", "redrain"}
  /\ canceled' = canceled \cup {m}
  /\ UNCHANGED <<slots, lock, queue, active, pc, batch, fate>>
-------------------------------------------------------------------------------
\* launchAsyncSubagent, a tool call of a response that is under way.
Launch(b) ==
  /\ b \in Subs /\ pc[b] = "new"
  /\ \E m \in Msgs : pc[m] = "waiting" /\ Sess(m) = Sess(b)
  /\ Goto(b, "running")
  /\ UNCHANGED <<slots, lock, queue, active, canceled, batch, fate>>

\* The subagent ends: cancelled, or with a result or an error to report (also
\* when the cancellation came too late to be noticed).
SubEnds(b) ==
  /\ pc[b] = "running"
  /\ canceled' = canceled \ {b}
  /\ \/ b \in canceled /\ Goto(b, "done") /\ fate' = Fated({b}, "canceled")
     \/ Goto(b, "result") /\ UNCHANGED fate
  /\ UNCHANGED <<slots, lock, queue, active, batch>>

\* /stop, in the order of the code: cancelAsyncSubagents, drainPending,
\* stopRequest.
StopSubagents(c) ==
  /\ c \in Stops /\ pc[c] = "new"
  /\ canceled' = canceled \cup
       {b \in Subs : pc[b] = "running" /\ Sess(b) = Sess(c)}
  /\ Goto(c, "stopDrain")
  /\ UNCHANGED <<slots, lock, queue, active, batch, fate>>

StopDrain(c) ==
  /\ pc[c] = "stopDrain"
  /\ fate' = Fated(ToSet(queue[Sess(c)]), "stopped")
  /\ queue' = Drained(Sess(c))
  /\ Goto(c, "stopReq")
  /\ UNCHANGED <<slots, lock, active, canceled, batch>>

StopRequest(c) ==
  /\ pc[c] = "stopReq"
  /\ canceled' = canceled \cup ({active[Sess(c)]} \ {None})
  /\ active' = [active EXCEPT ![Sess(c)] = None]
  /\ Goto(c, "new")
  /\ UNCHANGED <<slots, lock, queue, batch, fate>>

\* evictOneChat and tryClearNoMentionChat: take the lock if it is free.
Probe(p) ==
  /\ p \in Probes /\ pc[p] = "new"
  /\ CanLock(Sess(p))
  /\ LockIn(p)
  /\ Goto(p, "probing")
  /\ UNCHANGED <<queue, active, canceled, batch, fate>>

ProbeEnds(p) ==
  /\ pc[p] = "probing"
  /\ Goto(p, "release")
  /\ UNCHANGED <<slots, lock, queue, active, canceled, batch, fate>>

\* A message whose story is over: its name may stand for a new one.
Recycle(m) ==
  /\ pc[m] = "done" /\ fate[m] # "none"
  /\ Goto(m, "new")
  /\ fate' = Fated({m}, "none")
  /\ UNCHANGED <<slots, lock, queue, active, canceled, batch>>

\* The steps a goroutine that has begun takes by itself.
Proceed(m) ==
  \/ Enqueue(m) \/ SubTryLock(m)
  \/ GetChat(m) \/ GetChatFails(m) \/ Activate(m) \/ FirstDrain(m)
  \/ ClearFails(m) \/ Deny(m) \/ StartChat(m) \/ ChatFails(m) \/ Panic(m)
  \/ \E f \in {"answered", "blocked"} : Reply(m, f)
  \/ Redrain(m) \/ AbortDrain(m) \/ Unwind(m)
  \/ SubEnds(m)

Stop(c) == StopSubagents(c) \/ StopDrain(c) \/ StopRequest(c)

Next ==
  \/ \E m \in Users : UserTryLock(m)
  \/ \E b \in Subs : Launch(b)
  \/ \E m \in Msgs : Proceed(m) \/ Deadline(m) \/ Recycle(m)
  \/ \E p \in Probes : Probe(p) \/ ProbeEnds(p)
  \/ \E h \in Handlers : FreeSlot(h) \/ Unlock(h)
  \/ \E c \in Stops : Stop(c)

Spec == Init /\ [][Next]_vars

\* The model service may never answer; a cancelled request always returns.
OnItsOwn(m) == (pc[m] = "waiting" => m \in canceled) /\ Proceed(m)

\* A goroutine that has begun keeps running and chat contexts have deadlines;
\* no message, command, probe or answer of the model has to come.
Fairness ==
  /\ \A m \in Msgs : WF_vars(OnItsOwn(m)) /\ WF_vars(Deadline(m))
  /\ \A h \in Handlers : WF_vars(FreeSlot(h) \/ Unlock(h))
  /\ \A p \in Probes : WF_vars(ProbeEnds(p))

-------------------------------------------------------------------------------
TypeOK ==
  /\ slots \in 0..RateLimit
  /\ lock \in [Sessions -> Handlers \cup {None}]
  /\ queue \in [Sessions -> Seq(Msgs)]
  /\ \A s \in Sessions : Len(queue[s]) <= MaxPending
  /\ active \in [Sessions -> Msgs \cup {None}]
  /\ canceled \subseteq Msgs
  /\ pc \in [Handlers \cup Stops -> PCs]
  /\ batch \in [Msgs -> Seq(Msgs)]
  /\ fate \in [Msgs -> Fates]

Holds(h) == pc[h] \in Responding \cup {"release", "unlock"}

\* One response per session: the handler that drives a session's ChatBot is
\* the one the lock names, so the message window (which is not safe for
\* concurrent use) never has two writers.
OneResponder == \A h \in Handlers : Holds(h) => lock[Sess(h)] = h

\* rateCh counts exactly the handlers between tryLock and the return of the slot; the
\* number of requests under way stays within the limit.
SlotHolders == {h \in Handlers : pc[h] \in Responding \cup {"release"}}
SlotsMatch == slots = Cardinality(SlotHolders)

\* The registered cancel function is the one of the handler that holds the
\* lock: /stop can only cancel the response that is under way, and the
\* unconditional clearActiveContext never removes a successor's function.
ActiveIsResponder ==
  \A s \in Sessions : active[s] # None =>
    /\ lock[s] = active[s]
    /\ pc[active[s]] \in {"drain", "chat", "waiting", "redrain", "abort", "unwind"}

\* A message that has reached its goroutine is in exactly one place: still
\* with its goroutine, once in the queue of its session, once in one batch, or
\* settled.  Nothing is lost between enqueue and drain, answered twice, or
\* answered in another session.
WithGoroutine(m) ==
  /\ fate[m] = "none"
  /\ pc[m] \in {"new", "refused", "running", "result"}
       \cup (IF m \in Users THEN {"locked", "ready", "drain"} ELSE {})

Times(x, seq) == Cardinality({i \in DOMAIN seq : seq[i] = x})

NothingVanishes ==
  \A m \in Msgs :
    LET inQueue == Times(m, queue[Sess(m)])
        holders == {h \in Msgs : m \in ToSet(batch[h])}
    IN  /\ \A s \in Sessions \ {Sess(m)} : Times(m, queue[s]) = 0
        /\ \A h \in holders : Sess(h) = Sess(m) /\ Times(m, batch[h]) = 1
        /\ inQueue + Cardinality(holders)
             + (IF WithGoroutine(m) THEN 1 ELSE 0)
             + (IF fate[m] # "none" THEN 1 ELSE 0) = 1

\* A message has arrived: it waits in the queue or is in a batch, or its goroutine has the
\* lock and has yet to put it into one.
Arrived(m) == fate[m] = "none" /\ pc[m] \notin {"new", "refused", "running", "result"}

\* The specification with its history: <<x, y>> is in "before" when x had arrived before y
\* did in the same session, and neither is settled.
Noted ==
  before' = {p \in Msgs \X Msgs :
               /\ Sess(p[1]) = Sess(p[2]) /\ Arrived(p[1])' /\ Arrived(p[2])'
               /\ p \in before \/ (Arrived(p[1]) /\ ~Arrived(p[2]))}

RecordedInit == Init /\ before = {}
RecordedSpec == RecordedInit /\ [][Next /\ Noted]_<<vars, before>>

FairSpec == RecordedSpec /\ Fairness

InOrder(x, y, seq) == \A i, j \in DOMAIN seq : seq[i] = x /\ seq[j] = y => i < j

\* The model is shown the messages of a session in the order they arrived, within a batch
\* and from batch to batch, whatever handlers, drains, errors and /stop come between.  Only
\* the message whose goroutine holds the lock may be put behind messages that came after
\* it: those queued before its first drain (plugin.go:272).
ArrivalOrder ==
  \A p \in before :
    LET x == p[1]
        y == p[2]
    IN  /\ InOrder(x, y, queue[Sess(x)])
        /\ \A h \in Msgs :
             /\ y \in ToSet(batch[h]) => x \notin ToSet(queue[Sess(x)])
             /\ InOrder(x, y, batch[h]) \/ (x = h /\ h \in Users)

\* The promise of SerialChat, with a message's status read off its place.
Status ==
  [m \in Msgs |->
     IF fate[m] # "none" THEN "settled"
     ELSE IF \E h \in Msgs : m \in ToSet(batch[h]) THEN "working"
     ELSE IF pc[m] \in {"new", "running"} THEN "out" ELSE "waiting"]
Serial == INSTANCE SerialChat WITH status <- Status
ImplementsSerialChat == Serial!Spec

\* Every response gives its session back: the lock of a session is always free
\* again later (the chat context has a deadline).
LockIsFreed == \A s \in Sessions : lock[s] # None ~> lock[s] = None

\* A message queued while a response of its session is under way is taken up
\* or dropped with a notice when that response ends, unless a panic or a failed
\* ClearHistory ends it.
QueuedDuringResponse ==
  \A m \in Msgs :
    /\ m \in ToSet(queue[Sess(m)])
    /\ \E h \in Msgs : /\ lock[Sess(m)] = h
                      /\ pc[h] \in {"drain", "chat", "waiting", "redrain"}
    ~> \/ m \notin ToSet(queue[Sess(m)])
       \/ \E x \in Msgs : Sess(x) = Sess(m) /\ fate[x] = "lost"

\* docs/guide/builtin-plugins.md:65 and plugin.go:235: a message that was
\* queued is answered (or dropped) after the current response, by itself.
QueuedIsServed ==
  \A m \in Msgs : m \in ToSet(queue[Sess(m)]) ~> m \notin ToSet(queue[Sess(m)])

\* plugin.go:376-378: when processChatBatch returns false (a batch ends and
\* the loop is left) the remaining queued messages have been dropped.
FalseDropsQueue ==
  [][\A m \in Msgs : batch[m] # <<>> /\ pc'[m] \in {"unwind", "abort"} =>
       queue'[Sess(m)] = <<>>]_vars

\* plugin.go:270: what the first drain finds was left over by the response before, so it
\* is older than the message it is put before.
LeftoversAreOlder ==
  \A p \in before : \A h \in Msgs : InOrder(p[1], p[2], batch[h])

\* docs/guide/configuration.md:253: requests over rate_limit are rejected.  A
\* message of a session in which nothing else happened is never queued.
OverLimitIsRejected ==
  \A s \in Sessions : \A m \in ToSet(queue[s]) :
    \E h \in Handlers \ {m} : Sess(h) = s /\ (pc[h] # "new")

\* docs/guide/builtin-plugins.md:57: /stop stops the AI response under way.
StopStopsResponse ==
  [][\A c \in Stops : \A m \in Msgs :
       /\ pc[c] = "stopReq" /\ pc'[c] = "new"
       /\ lock[Sess(c)] = m
       /\ pc[m] \in {"locked", "ready", "drain", "chat", "waiting"}
       => m \in canceled']_vars
================================================================================
