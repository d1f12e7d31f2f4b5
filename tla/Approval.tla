-------------------------------- MODULE Approval --------------------------------
(***************************************************************************)
(* Tool approval by a human (pluginaichat/approval.go): request and        *)
(* requestAdminOnly run in the goroutines of tool calls, tryHandleReply in *)
(* the goroutine of each incoming message.  A request waits for the lock   *)
(* of its session (and of the administrator's private chat before it),     *)
(* registers itself, prompts, and waits for a verdict, a cancellation or   *)
(* the timeout.                                                            *)
(***************************************************************************)
EXTENDS Naturals, FiniteSets

CONSTANTS Sessions,
          AdminChat,   \* the administrator's private chat, one of the sessions
          Requests, Replies,
          SessOf,      \* the session of each request and reply
          ViaAdmin,    \* requests of requestAdminOnly with an administrator channel
          Entitled,    \* Entitled[r]: replies whose sender may decide request r
          Allows,      \* replies that say yes; the others say no
          None

\* What the constants are; instances assume it.
ApprovalAssumption ==
  /\ IsFiniteSet(Requests)
  /\ AdminChat \in Sessions
  /\ SessOf \in [Requests \cup Replies -> Sessions]
  \* In the administrator's own chat requestAdminOnly falls back to request.
  /\ ViaAdmin \subseteq {r \in Requests : SessOf[r] # AdminChat}
  /\ Entitled \in [Requests -> SUBSET Replies]
  /\ Allows \subseteq Replies
  /\ Requests \cap Replies = {}
  /\ None \notin Requests \cup Replies

VARIABLES lock,         \* locks: the request that holds each session's mutex
          pending,      \* pending: the registered request of each session
          adminPending, \* adminPending[adminSKey]
          pc,           \* control point of each request
          outcome,      \* what the tool call was told
          ch,           \* resultCh of each request: a reply's verdict, or None
          rp,           \* control point of each reply
          target        \* the request a reply was matched with

vars == <<lock, pending, adminPending, pc, outcome, ch, rp, target>>

Outcomes == {"none", "allowed", "denied", "stopped", "timeout"}

Init ==
  /\ lock = [s \in Sessions |-> None]
  /\ pending = [s \in Sessions |-> None] /\ adminPending = None
  /\ pc = [r \in Requests |-> "new"]
  /\ outcome = [r \in Requests |-> "none"]
  /\ ch = [r \in Requests |-> None]
  /\ rp = [p \in Replies |-> "new"]
  /\ target = [p \in Replies |-> None]
-------------------------------------------------------------------------------
Goto(r, p) == pc' = [pc EXCEPT ![r] = p]

\* The lock of the administrator's chat is always taken first.
LockAdmin(r) ==
  /\ pc[r] = "new" /\ r \in ViaAdmin /\ lock[AdminChat] = None
  /\ lock' = [lock EXCEPT ![AdminChat] = r]
  /\ Goto(r, "origin")
  /\ UNCHANGED <<pending, adminPending, outcome, ch, rp, target>>

LockOrigin(r) ==
  /\ pc[r] = IF r \in ViaAdmin THEN "origin" ELSE "new"
  /\ lock[SessOf[r]] = None
  /\ lock' = [lock EXCEPT ![SessOf[r]] = r]
  /\ Goto(r, "register")
  /\ UNCHANGED <<pending, adminPending, outcome, ch, rp, target>>

\* The request becomes the one a reply in its session is matched with.
Register(r) ==
  /\ pc[r] = "register" /\ Goto(r, "prompt")
  /\ pending' = [pending EXCEPT ![SessOf[r]] = r]
  /\ adminPending' = IF r \in ViaAdmin THEN r ELSE adminPending
  /\ UNCHANGED <<lock, outcome, ch, rp, target>>

\* The prompt is sent to the session, or to the administrator; if that fails the
\* request is answered in its session only.
Prompt(r) ==
  /\ pc[r] = "prompt" /\ Goto(r, "wait")
  /\ adminPending' \in {adminPending} \cup (IF adminPending = r THEN {None} ELSE {})
  /\ UNCHANGED <<lock, pending, outcome, ch, rp, target>>

\* The select: a verdict that has arrived, the cancelled context, or the timer.
Decide(r) ==
  /\ pc[r] = "wait" /\ ch[r] # None /\ Goto(r, "unregister")
  /\ ch' = [ch EXCEPT ![r] = None]
  /\ outcome' = [outcome EXCEPT ![r] = IF ch[r] \in Allows THEN "allowed"
                                                           ELSE "denied"]
  /\ UNCHANGED <<lock, pending, adminPending, rp, target>>

GiveUp(r) ==
  /\ pc[r] = "wait" /\ Goto(r, "unregister")
  /\ \E o \in {"stopped", "timeout"} : outcome' = [outcome EXCEPT ![r] = o]
  /\ UNCHANGED <<lock, pending, adminPending, ch, rp, target>>

\* The deferred function: request deletes the entry of its session, and
\* requestAdminOnly only what is still its own.
Unregister(r) ==
  /\ pc[r] = "unregister" /\ Goto(r, "unlock")
  /\ pending' = [pending EXCEPT ![SessOf[r]] =
                   IF r \in ViaAdmin /\ @ # r THEN @ ELSE None]
  /\ adminPending' = IF adminPending = r THEN None ELSE adminPending
  /\ UNCHANGED <<lock, outcome, ch, rp, target>>

\* Mutant: the mutex of the administrator's chat stays locked.
UnlockOrigin(r) ==
  /\ pc[r] = "unlock" /\ Goto(r, "done")
  /\ lock' = [lock EXCEPT ![SessOf[r]] = None]
  /\ UNCHANGED <<pending, adminPending, outcome, ch, rp, target>>

\* The deferred unlocks.
Unlock(r) ==
  /\ pc[r] = "unlock" /\ Goto(r, "done")
  /\ lock' = [s \in Sessions |-> IF lock[s] = r THEN None ELSE lock[s]]
  /\ UNCHANGED <<pending, adminPending, outcome, ch, rp, target>>
-------------------------------------------------------------------------------
\* The request a reply meant for: the one of its session, else in the
\* administrator's chat the one that waits for the administrator.
Match(p) ==
  LET s == SessOf[p] IN
    IF pending[s] = None /\ s = AdminChat THEN adminPending ELSE pending[s]

\* Mutant: whoever replies decides.
ReceiveFromAnyone(p) ==
  /\ rp[p] = "new"
  /\ target' = [target EXCEPT ![p] = Match(p)]
  /\ rp' = [rp EXCEPT ![p] = IF Match(p) = None THEN "chat" ELSE "send"]
  /\ UNCHANGED <<lock, pending, adminPending, pc, outcome, ch>>

\* tryHandleReply up to the send: an ordinary message if nothing is pending, a
\* hint if the sender may not decide.
Receive(p) ==
  /\ rp[p] = "new"
  /\ target' = [target EXCEPT ![p] = Match(p)]
  /\ rp' = [rp EXCEPT ![p] = IF Match(p) = None THEN "chat"
                             ELSE IF p \notin Entitled[Match(p)] THEN "hint"
                             ELSE "send"]
  /\ UNCHANGED <<lock, pending, adminPending, pc, outcome, ch>>

\* The send on resultCh, whose buffer holds one verdict.
Send(p) ==
  /\ rp[p] = "send" /\ ch[target[p]] = None
  /\ ch' = [ch EXCEPT ![target[p]] = p]
  /\ rp' = [rp EXCEPT ![p] = "sent"]
  /\ UNCHANGED <<lock, pending, adminPending, pc, outcome, target>>

Request(r) == \/ LockAdmin(r) \/ LockOrigin(r) \/ Register(r) \/ Prompt(r)
              \/ Decide(r) \/ GiveUp(r) \/ Unregister(r) \/ Unlock(r)

Next == \/ \E r \in Requests : Request(r)
        \/ \E p \in Replies : Receive(p) \/ Send(p)

Spec == Init /\ [][Next]_vars

\* A request's goroutine goes on: the timer ends every wait, and a sync.Mutex is
\* handed to the longest waiter.  Nobody has to reply.
FairSpec == Spec /\ \A r \in Requests : SF_vars(Request(r))
-------------------------------------------------------------------------------
TypeOK ==
  /\ lock \in [Sessions -> Requests \cup {None}]
  /\ pending \in [Sessions -> Requests \cup {None}]
  /\ adminPending \in ViaAdmin \cup {None}
  /\ pc \in [Requests -> {"new", "origin", "register", "prompt", "wait",
                          "unregister", "unlock", "done"}]
  /\ outcome \in [Requests -> Outcomes]
  /\ ch \in [Requests -> Replies \cup {None}]
  /\ rp \in [Replies -> {"new", "chat", "hint", "send", "sent"}]
  /\ target \in [Replies -> Requests \cup {None}]

Registered == {"prompt", "wait", "unregister"}

\* A request that waits for an answer can be answered: it stays the one its
\* session's replies are matched with, although tool calls run in parallel.
WaitingIsRegistered ==
  \A r \in Requests : pc[r] \in Registered <=> pending[SessOf[r]] = r

\* A reply in the administrator's chat can only mean one request: a request of
\* that chat and one of another session never wait there together.
AdminRepliesAreUnambiguous ==
  /\ adminPending # None => pending[AdminChat] = None
  /\ adminPending # None => pc[adminPending] \in Registered

\* A tool call runs only on the yes of someone entitled to decide this very
\* request: a late or foreign reply never decides another one.
AllowedByEntitled ==
  \A r \in Requests : outcome[r] = "allowed" =>
    \E p \in Allows \cap Entitled[r] : target[p] = r /\ rp[p] = "sent"

\* Every tool call that asks gets an outcome and gives its locks back, without
\* any reply and in whatever order calls of several sessions ask.
EveryRequestEnds == \A r \in Requests : <>(pc[r] = "done")

\* Claim of approval.go: because resultCh is buffered the send of a verdict does
\* not block, even if the waiting side has just left.
SendNeverBlocks ==
  \A p \in Replies : rp[p] = "send" /\ pc[target[p]] = "done" =>
    ch[target[p]] = None
================================================================================
