----------------------------- MODULE Agents_proofs -----------------------------
(***************************************************************************)
(* Theorems about Agents, for any sessions, requests, replies, subagents   *)
(* and bounds: its two safety invariants, part by part.                    *)
(***************************************************************************)
EXTENDS Agents, Sequences, FiniteSetTheorems, TLAPS

\* A step is a step of one component; the variables of the others stay.
LEMMA ApprovalSteps == [Next]_vars => [Approval!Next]_approvalVars
BY DEF Next, vars, InApproval, InTask, InSession, InTeam, approvalVars

LEMMA TaskSteps == [Next]_vars => [Task!Next]_taskVars
BY DEF Next, vars, InApproval, InTask, InSession, InTeam, taskVars

LEMMA SessionSteps == [Next]_vars => [Session!Next]_sessionVars
BY DEF Next, vars, InApproval, InTask, InSession, InTeam, sessionVars

LEMMA TeamSteps == [Next]_vars => [Team!Next]_teamVars
BY DEF Next, vars, InApproval, InTask, InSession, InTeam, teamVars
-------------------------------------------------------------------------------
(* The approval of tool calls.                                             *)

\* What the constants and the types say, in the form the proofs use.
Basics ==
  /\ AdminChat \in Sessions
  /\ \A x \in Requests \cup Replies : SessOf[x] \in Sessions
  /\ ViaAdmin \subseteq Requests /\ \A r \in ViaAdmin : SessOf[r] # AdminChat
  /\ \A r \in Requests : Entitled[r] \subseteq Replies
  /\ Allows \subseteq Replies /\ None \notin Requests \cup Replies

LEMMA ApprovalBasics == Basics
BY AgentsAssumption DEF Approval!ApprovalAssumption, Basics

LEMMA ApprovalTypeStep ==
  ASSUME Basics, Approval!TypeOK, [Approval!Next]_approvalVars PROVE Approval!TypeOK'
<1> USE DEF Basics, Approval!TypeOK
<1>1. ASSUME NEW r \in Requests, Approval!LockAdmin(r) PROVE Approval!TypeOK'
  BY <1>1 DEF Approval!LockAdmin, Approval!Goto
<1>2. ASSUME NEW r \in Requests, Approval!LockOrigin(r) PROVE Approval!TypeOK'
  BY <1>2 DEF Approval!LockOrigin, Approval!Goto
<1>3. ASSUME NEW r \in Requests, Approval!Register(r) PROVE Approval!TypeOK'
  BY <1>3 DEF Approval!Register, Approval!Goto
<1>4. ASSUME NEW r \in Requests, Approval!Prompt(r) PROVE Approval!TypeOK'
  BY <1>4 DEF Approval!Prompt, Approval!Goto
<1>5. ASSUME NEW r \in Requests, Approval!Decide(r) PROVE Approval!TypeOK'
  BY <1>5 DEF Approval!Decide, Approval!Goto, Approval!Outcomes
<1>6. ASSUME NEW r \in Requests, Approval!GiveUp(r) PROVE Approval!TypeOK'
  BY <1>6 DEF Approval!GiveUp, Approval!Goto, Approval!Outcomes
<1>7. ASSUME NEW r \in Requests, Approval!Unregister(r) PROVE Approval!TypeOK'
  BY <1>7 DEF Approval!Unregister, Approval!Goto
<1>8. ASSUME NEW r \in Requests, Approval!Unlock(r) PROVE Approval!TypeOK'
  BY <1>8 DEF Approval!Unlock, Approval!Goto
<1>9. ASSUME NEW p \in Replies, Approval!Receive(p) PROVE Approval!TypeOK'
  <2>1. Approval!Match(p) \in Requests \cup {None}
    BY DEF Approval!Match
  <2> QED
    BY <1>9, <2>1 DEF Approval!Receive
<1>10. ASSUME NEW p \in Replies, Approval!Send(p) PROVE Approval!TypeOK'
  <2>1. ch' = [ch EXCEPT ![target[p]] = p] /\ rp' = [rp EXCEPT ![p] = "sent"]
        /\ UNCHANGED <<lock, pending, adminPending, pc, outcome, target>>
    BY <1>10 DEF Approval!Send
  <2> QED
    BY <2>1
<1>11. CASE UNCHANGED approvalVars
  BY <1>11 DEF approvalVars
<1> QED
  BY <1>1, <1>2, <1>3, <1>4, <1>5, <1>6, <1>7, <1>8, <1>9, <1>10, <1>11 DEF Approval!Next,
      Approval!Request

\* Every variable keeps its type; adminPending names a request of requestAdminOnly.
LEMMA ApprovalTypes == Spec => []Approval!TypeOK
<1>1. Approval!Init => Approval!TypeOK
  BY ApprovalBasics DEF Approval!Init, Approval!TypeOK, Approval!Outcomes, Basics
<1>2. Approval!TypeOK /\ [Approval!Next]_approvalVars => Approval!TypeOK'
  BY ApprovalBasics, ApprovalTypeStep
<1> QED
  BY <1>1, <1>2, ApprovalSteps, PTL DEF Spec, Init
-------------------------------------------------------------------------------
Holding == {"register", "prompt", "wait", "unregister", "unlock"}

\* Who is past a lock holds it; what is registered is of its session.
Locked ==
  /\ \A r \in Requests : pc[r] \in Holding => lock[SessOf[r]] = r
  /\ \A r \in ViaAdmin : pc[r] \in Holding \cup {"origin"} => lock[AdminChat] = r
  /\ \A s \in Sessions : pending[s] # None => SessOf[pending[s]] = s
  /\ adminPending # None => pc[adminPending] \in Approval!Registered

\* A request takes no lock that is held.
LEMMA LockStep ==
  ASSUME Basics, Approval!TypeOK, Locked, Approval!WaitingIsRegistered,
      [Approval!Next]_approvalVars
  PROVE  Locked' /\ Approval!WaitingIsRegistered'
<1> USE DEF Basics, Approval!TypeOK, Locked, Approval!WaitingIsRegistered, Holding,
    Approval!Registered
<1> DEFINE Goal == Locked' /\ Approval!WaitingIsRegistered'
<1>1. ASSUME NEW r \in Requests, Approval!LockAdmin(r) PROVE Goal
  BY <1>1 DEF Approval!LockAdmin, Approval!Goto
<1>2. ASSUME NEW r \in Requests, Approval!LockOrigin(r) PROVE Goal
  <2>1. /\ \A q \in Requests : pc'[q] = IF q = r THEN "register" ELSE pc[q]
        /\ \A s \in Sessions : lock'[s] = IF s = SessOf[r] THEN r ELSE lock[s]
        /\ lock[SessOf[r]] = None /\ UNCHANGED <<pending, adminPending>>
        /\ pc[r] = IF r \in ViaAdmin THEN "origin" ELSE "new"
    BY <1>2 DEF Approval!LockOrigin, Approval!Goto
  <2> QED
    BY <2>1
<1>3. ASSUME NEW r \in Requests, Approval!Register(r) PROVE Goal
  <2>1. /\ \A q \in Requests : pc'[q] = IF q = r THEN "prompt" ELSE pc[q]
        /\ \A s \in Sessions : pending'[s] = IF s = SessOf[r] THEN r ELSE pending[s]
        /\ pc[r] = "register" /\ lock' = lock
        /\ adminPending' = IF r \in ViaAdmin THEN r ELSE adminPending
    BY <1>3 DEF Approval!Register, Approval!Goto
  <2>2. \A q \in Requests : SessOf[q] = SessOf[r] /\ pc[q] \in Holding => q = r
    BY <2>1
  <2> QED
    BY <2>1, <2>2
<1>4. ASSUME NEW r \in Requests, Approval!Prompt(r) PROVE Goal
  <2>1. /\ \A q \in Requests : pc'[q] = IF q = r THEN "wait" ELSE pc[q]
        /\ pc[r] = "prompt" /\ UNCHANGED <<lock, pending>>
        /\ adminPending' \in {adminPending, None}
    BY <1>4 DEF Approval!Prompt, Approval!Goto
  <2> QED
    BY <2>1
<1>5. ASSUME NEW r \in Requests, Approval!Decide(r) \/ Approval!GiveUp(r) PROVE Goal
  <2>1. /\ \A q \in Requests : pc'[q] = IF q = r THEN "unregister" ELSE pc[q]
        /\ pc[r] = "wait" /\ UNCHANGED <<lock, pending, adminPending>>
    BY <1>5 DEF Approval!Decide, Approval!GiveUp, Approval!Goto
  <2> QED
    BY <2>1
<1>6. ASSUME NEW r \in Requests, Approval!Unregister(r) PROVE Goal
  <2>1. /\ \A q \in Requests : pc'[q] = IF q = r THEN "unlock" ELSE pc[q]
        /\ pc[r] = "unregister" /\ lock' = lock
        /\ adminPending' = IF adminPending = r THEN None ELSE adminPending
    BY <1>6 DEF Approval!Unregister, Approval!Goto
  <2>2. \A s \in Sessions : pending'[s] = IF s = SessOf[r] THEN None ELSE pending[s]
    BY <1>6, <2>1 DEF Approval!Unregister
  <2>3. \A q \in Requests : SessOf[q] = SessOf[r] /\ pc[q] \in Holding => q = r
    BY <2>1
  <2> QED
    BY <2>1, <2>2, <2>3
<1>7. ASSUME NEW r \in Requests, Approval!Unlock(r) PROVE Goal
  <2>1. /\ \A q \in Requests : pc'[q] = IF q = r THEN "done" ELSE pc[q]
        /\ \A s \in Sessions : lock'[s] = IF lock[s] = r THEN None ELSE lock[s]
        /\ pc[r] = "unlock" /\ UNCHANGED <<pending, adminPending>>
    BY <1>7 DEF Approval!Unlock, Approval!Goto
  <2> QED
    BY <2>1
<1>8. ASSUME NEW p \in Replies, Approval!Receive(p) \/ Approval!Send(p) PROVE Goal
  BY <1>8 DEF Approval!Receive, Approval!Send
<1>9. CASE UNCHANGED approvalVars
  BY <1>9 DEF approvalVars
<1> QED
  BY <1>1, <1>2, <1>3, <1>4, <1>5, <1>6, <1>7, <1>8, <1>9 DEF Approval!Next, Approval!Request

LEMMA AlwaysLocked ==
  Spec => [](Locked /\ Approval!WaitingIsRegistered)
<1>1. Approval!Init => Locked /\ Approval!WaitingIsRegistered
  BY ApprovalBasics DEF Approval!Init, Locked, Approval!WaitingIsRegistered, Holding,
      Approval!Registered, Basics
<1>2. Approval!TypeOK /\ Locked /\ Approval!WaitingIsRegistered /\
    [Approval!Next]_approvalVars => (Locked /\ Approval!WaitingIsRegistered)'
  BY ApprovalBasics, LockStep
<1> QED
  BY <1>1, <1>2, ApprovalTypes, ApprovalSteps, PTL DEF Spec, Init

\* approval.go: a request that waits is the one the replies of its session are matched with,
\* however many tool calls ask at once.
THEOREM WaitingStaysRegistered == Spec => []Approval!WaitingIsRegistered
BY AlwaysLocked, PTL

\* approval.go: a reply in the administrator's chat can mean one request only.
THEOREM AdminKnowsWhich ==
  Spec => []Approval!AdminRepliesAreUnambiguous
<1>1. Approval!TypeOK /\ Locked /\ Approval!WaitingIsRegistered =>
    Approval!AdminRepliesAreUnambiguous
  <2> SUFFICES ASSUME Approval!TypeOK, Locked, Approval!WaitingIsRegistered, adminPending #
      None
               PROVE  pending[AdminChat] = None /\ pc[adminPending] \in Approval!Registered
    BY DEF Approval!AdminRepliesAreUnambiguous
  <2> USE ApprovalBasics DEF Basics
  <2>1. adminPending \in ViaAdmin /\ pc[adminPending] \in Approval!Registered
    BY DEF Approval!TypeOK, Locked
  <2>2. lock[AdminChat] = adminPending
    BY <2>1 DEF Locked, Approval!Registered, Holding
  <2>3. ASSUME pending[AdminChat] # None PROVE FALSE
    <3> DEFINE q == pending[AdminChat]
    <3>1. q \in Requests /\ SessOf[q] = AdminChat
      BY <2>3 DEF Approval!TypeOK, Locked
    <3>2. pc[q] \in Approval!Registered
      BY <3>1 DEF Approval!WaitingIsRegistered
    <3>3. lock[AdminChat] = q
      BY <3>1, <3>2 DEF Locked, Approval!Registered, Holding
    <3> QED
      BY <2>1, <2>2, <3>1, <3>3
  <2> QED
    BY <2>1, <2>3
<1> QED
  BY <1>1, ApprovalTypes, AlwaysLocked, PTL
-------------------------------------------------------------------------------
\* Where a verdict comes from, on its way from the reply to the request.
Verdicts ==
  /\ \A p \in Replies : rp[p] = "send" => target[p] \in Requests /\ p \in Entitled[target[p]]
  /\ \A r \in Requests : ch[r] # None =>
       target[ch[r]] = r /\ rp[ch[r]] = "sent" /\ ch[r] \in Entitled[r]

LEMMA VerdictStep ==
  ASSUME Basics, Approval!TypeOK, Verdicts, Approval!AllowedByEntitled,
      [Approval!Next]_approvalVars
  PROVE  Verdicts' /\ Approval!AllowedByEntitled'
<1> USE DEF Basics, Approval!TypeOK
<1> DEFINE Goal == Verdicts' /\ Approval!AllowedByEntitled'
<1>1. ASSUME NEW r \in Requests,
             \/ Approval!LockAdmin(r) \/ Approval!LockOrigin(r) \/ Approval!Register(r) \/
                 Approval!Prompt(r)
             \/ Approval!Unregister(r) \/ Approval!Unlock(r)
      PROVE  Goal
  <2>1. UNCHANGED <<outcome, ch, rp, target>>
    BY <1>1 DEF Approval!LockAdmin, Approval!LockOrigin, Approval!Register, Approval!Prompt,
        Approval!Unregister, Approval!Unlock
  <2> QED
    BY <2>1 DEF Verdicts, Approval!AllowedByEntitled
<1>2. ASSUME NEW r \in Requests, Approval!Decide(r) PROVE Goal
  <2>1. /\ \A q \in Requests : ch'[q] = IF q = r THEN None ELSE ch[q]
        /\ \A q \in Requests : q # r => outcome'[q] = outcome[q]
        /\ outcome'[r] = "allowed" => ch[r] \in Allows
        /\ ch[r] # None /\ UNCHANGED <<rp, target>>
    BY <1>2 DEF Approval!Decide
  <2>2. Verdicts'
    BY <2>1 DEF Verdicts
  <2>3. Approval!AllowedByEntitled'
    BY <2>1 DEF Verdicts, Approval!AllowedByEntitled
  <2> QED
    BY <2>2, <2>3
<1>3. ASSUME NEW r \in Requests, Approval!GiveUp(r) PROVE Goal
  <2>1. /\ UNCHANGED <<ch, rp, target>> /\ outcome'[r] # "allowed"
        /\ \A q \in Requests : q # r => outcome'[q] = outcome[q]
    BY <1>3 DEF Approval!GiveUp
  <2> QED
    BY <2>1 DEF Verdicts, Approval!AllowedByEntitled
<1>4. ASSUME NEW p \in Replies, Approval!Receive(p) PROVE Goal
  <2>1. /\ rp[p] = "new" /\ UNCHANGED <<ch, outcome>>
        /\ \A x \in Replies : x # p => rp'[x] = rp[x] /\ target'[x] = target[x]
        /\ target'[p] = Approval!Match(p)
        /\ rp'[p] = "send" => Approval!Match(p) # None /\ p \in Entitled[Approval!Match(p)]
    BY <1>4 DEF Approval!Receive
  <2>2. Approval!Match(p) \in Requests \cup {None}
    BY DEF Approval!Match
  <2>3. Verdicts'
    BY <2>1, <2>2 DEF Verdicts
  <2>4. Approval!AllowedByEntitled'
    BY <2>1 DEF Approval!AllowedByEntitled
  <2> QED
    BY <2>3, <2>4
<1>5. ASSUME NEW p \in Replies, Approval!Send(p) PROVE Goal
  <2>1. target[p] \in Requests /\ p \in Entitled[target[p]]
    BY <1>5 DEF Approval!Send, Verdicts
  <2>2. /\ \A q \in Requests : ch'[q] = IF q = target[p] THEN p ELSE ch[q]
        /\ \A x \in Replies : rp'[x] = IF x = p THEN "sent" ELSE rp[x]
        /\ UNCHANGED <<outcome, target>>
    BY <1>5, <2>1 DEF Approval!Send
  <2>3. Verdicts'
    BY <2>1, <2>2 DEF Verdicts
  <2>4. Approval!AllowedByEntitled'
    BY <2>2 DEF Approval!AllowedByEntitled
  <2> QED
    BY <2>3, <2>4
<1>6. CASE UNCHANGED approvalVars
  BY <1>6 DEF approvalVars, Verdicts, Approval!AllowedByEntitled
<1> QED
  BY <1>1, <1>2, <1>3, <1>4, <1>5, <1>6 DEF Approval!Next, Approval!Request

\* approval.go: a tool call runs only on the yes of someone who may decide this very request;
\* late, double and foreign replies decide nothing.
THEOREM OnlyTheEntitledAllow == Spec => []Approval!AllowedByEntitled
<1>1. Approval!Init => Verdicts /\ Approval!AllowedByEntitled
  BY DEF Approval!Init, Verdicts, Approval!AllowedByEntitled
<1>2. Approval!TypeOK /\ Verdicts /\ Approval!AllowedByEntitled /\
    [Approval!Next]_approvalVars => (Verdicts /\ Approval!AllowedByEntitled)'
  BY ApprovalBasics, VerdictStep
<1> QED
  BY <1>1, <1>2, ApprovalTypes, ApprovalSteps, PTL DEF Spec, Init
-------------------------------------------------------------------------------
(* The subagents of one execution of a scheduled task.                     *)

\* Whose usage is accounted for; a feedback round is left when the AI is asked again; and
\* an answer follows a wait that nobody is left in, unless something cut it short.
TaskInv ==
  /\ Task!TypeOK
  /\ Task!In({"ended", "finished", "collected"}) \subseteq extra
  /\ taskPC \in {"wait", "collect", "feed"} => round < MaxRounds
  /\ taskPC = "collect" /\ time = "ample" => Task!Pending = {}
  /\ taskPC \in {"last", "take"} /\ ~gaveUp => Task!Pending = {}
  /\ Task!NoneIsLeftRunning /\ Task!RepliesWhenAllAreDone /\ Task!ReportedIsBilled

\* What a subagent does, or the AI with one.
LEMMA SubagentStep ==
  ASSUME TaskInv, NEW s \in TaskSubs, Task!Launch(s) \/ Task!CancelOne(s) \/ Task!Sub(s)
  PROVE  TaskInv'
<1> USE DEF TaskInv, Task!TypeOK, Task!In, Task!Pending, Task!States, Task!NoneIsLeftRunning,
            Task!RepliesWhenAllAreDone, Task!ReportedIsBilled
<1>1. CASE Task!Launch(s)
  BY <1>1 DEF Task!Launch
<1>2. CASE Task!CancelOne(s)
  BY <1>2 DEF Task!CancelOne
<1>3. CASE Task!SubReturns(s)
  BY <1>3 DEF Task!SubReturns
<1>4. CASE Task!SubPanics(s)
  BY <1>4 DEF Task!SubPanics
<1>5. CASE Task!MarkFinished(s)
  BY <1>5 DEF Task!MarkFinished
<1> QED
  BY <1>1, <1>2, <1>3, <1>4, <1>5 DEF Task!Sub

\* What the execution does.
LEMMA ExecutionStep == ASSUME TaskInv, Task!Execution PROVE TaskInv'
<1> MaxRounds \in Nat
  BY AgentsAssumption DEF Task!SubagentAssumption
<1> USE DEF TaskInv, Task!TypeOK, Task!In, Task!Pending, Task!CancelPending, Task!States,
            Task!NoneIsLeftRunning, Task!RepliesWhenAllAreDone, Task!ReportedIsBilled
<1>1. CASE Task!ChatReturns
  BY <1>1 DEF Task!ChatReturns
<1>2. CASE Task!ChatFails
  BY <1>2 DEF Task!ChatFails
<1>3. CASE Task!Loop
  <2>1. /\ taskPC = "loop" /\ taskPC' \in {"wait", "last"}
        /\ UNCHANGED <<time, st, taskCanceled, round, report, read, extra, taskBilled>>
    BY <1>3 DEF Task!Loop
  <2>2. gaveUp' \in BOOLEAN
    BY <1>3, Zenon DEF Task!Loop
  <2>3. taskPC' = "wait" => round < MaxRounds
    BY <1>3 DEF Task!Loop
  <2>4. ASSUME taskPC' = "last", Task!Pending # {} PROVE gaveUp'
    <3>1. round = MaxRounds
      BY <1>3, <2>4 DEF Task!Loop
    <3> QED
      BY <1>3, <2>4, <3>1 DEF Task!Loop
  <2> QED
    BY <2>1, <2>2, <2>3, <2>4
<1>4. CASE Task!Wait
  BY <1>4 DEF Task!Wait
<1>5. CASE Task!Collect
  BY <1>5 DEF Task!Collect
<1>6. CASE Task!FeedReturns
  BY <1>6 DEF Task!FeedReturns
<1>7. CASE Task!FeedFails
  BY <1>7 DEF Task!FeedFails
<1>8. CASE Task!Last
  BY <1>8 DEF Task!Last
<1>9. CASE Task!Take
  BY <1>9 DEF Task!Take
<1> QED
  BY <1>1, <1>2, <1>3, <1>4, <1>5, <1>6, <1>7, <1>8, <1>9 DEF Task!Execution

LEMMA TaskInvHolds == Spec => []TaskInv
<1>1. Task!Init => TaskInv
  <2> SUFFICES ASSUME Task!Init PROVE TaskInv
    OBVIOUS
  <2>1. MaxRounds \in Nat
    BY AgentsAssumption DEF Task!SubagentAssumption
  <2>2. Task!TypeOK
    <3>1. round \in 0..MaxRounds
      BY <2>1 DEF Task!Init
    <3> QED
      BY <3>1 DEF Task!Init, Task!TypeOK, Task!States
  <2>3. /\ Task!In({"ended", "finished", "collected"}) = {}
        /\ taskPC = "chat"
    BY DEF Task!Init, Task!In
  <2> QED
    BY <2>2, <2>3 DEF TaskInv, Task!NoneIsLeftRunning, Task!RepliesWhenAllAreDone,
                      Task!ReportedIsBilled
<1>2. TaskInv /\ [Task!Next]_taskVars => TaskInv'
  <2> SUFFICES ASSUME TaskInv, [Task!Next]_taskVars PROVE TaskInv'
    OBVIOUS
  <2>1. CASE Task!Tick
    BY <2>1 DEF Task!Tick, TaskInv, Task!TypeOK, Task!In, Task!Pending,
       Task!NoneIsLeftRunning, Task!RepliesWhenAllAreDone, Task!ReportedIsBilled
  <2>2. CASE UNCHANGED taskVars
    BY <2>2 DEF taskVars, TaskInv, Task!TypeOK, Task!In, Task!Pending,
       Task!NoneIsLeftRunning, Task!RepliesWhenAllAreDone, Task!ReportedIsBilled
  <2> QED
    BY <2>1, <2>2, SubagentStep, ExecutionStep DEF Task!Next
<1> QED
  BY <1>1, <1>2, TaskSteps, PTL DEF Spec, Init
-------------------------------------------------------------------------------
(* The background subagents of a session.                                  *)

\* What is listed in the group of the map will be removed from this very group, a group yet
\* to be made is empty, and there are no more of them than /stop leaves room for.
Listed ==
  /\ group <= groups /\ \A s \in SessionSubs : mine[s] <= groups
  /\ groups <= stops + (IF group = 0 THEN 0 ELSE 1)
  /\ \A g \in Session!Groups : g > groups => entries[g] = {}
  /\ group # 0 => \A s \in entries[group] : Session!Working(s) /\ mine[s] = group
  /\ \A s \in SessionSubs : sub[s] # "none" => mine[s] # 0
  /\ victim <= groups /\ (victim = group => victim = 0)

\* Tokens that are in an accumulator or in the log are those of a subagent that has added
\* its own, and each turn takes one accumulator at most.
Accounted ==
  /\ acc <= accs /\ taken <= accs /\ \A s \in SessionSubs : held[s] <= accs
  /\ accs <= (IF turn = "run" THEN turns - 1 ELSE turns) + (IF acc = 0 THEN 0 ELSE 1)
  /\ turn = "run" => turns > 0
  /\ \A s \in SessionSubs : sub[s] = "adding" => held[s] # 0
  /\ \A s \in SessionSubs :
       s \in billed \/ (\E c \in Session!Accs : s \in tokens[c]) => sub[s] \in {"ended", "removed"}

SessionInv == Session!TypeOK /\ Listed /\ Accounted /\ Session!NothingBilledTwice

\* A look-up leaves the group of the map as it is, or makes one of a new number.
LEMMA GroupIsFound ==
  ASSUME SessionInv, Session!GetGroup, UNCHANGED stops
  PROVE  /\ group' \in Session!Groups /\ groups' \in 0..(MaxStops + 1)
         /\ group' <= groups' /\ groups <= groups' /\ groups' <= stops' + 1
         /\ group' = group \/ group' > groups
<1> MaxTurns \in Nat /\ MaxStops \in Nat
  BY AgentsAssumption DEF Session!AsyncAssumption
<1> USE DEF SessionInv, Session!TypeOK, Listed, Session!Groups, Session!GetGroup
<1>1. CASE group = 0
  BY <1>1
<1>2. CASE group # 0
  BY <1>2
<1> QED
  BY <1>1, <1>2

\* What a subagent does, in the goroutine of its launcher and then in its own.
LEMMA LifeStep ==
  ASSUME SessionInv, NEW s \in SessionSubs,
         Session!Launch(s) \/ Session!Add(s) \/ Session!Goroutine(s) \/ Session!CancelOne(s)
  PROVE  SessionInv'
<1> MaxTurns \in Nat /\ MaxStops \in Nat
  BY AgentsAssumption DEF Session!AsyncAssumption
<1> USE DEF SessionInv, Session!TypeOK, Listed, Accounted, Session!NothingBilledTwice,
            Session!Groups, Session!Accs, Session!SubPCs, Session!Working, Session!Goto
<1>1. CASE Session!Launch(s)
  <2>1. /\ sub[s] = "none" /\ sub' = [sub EXCEPT ![s] = "found"]
        /\ mine' = [mine EXCEPT ![s] = group'] /\ Session!GetGroup
        /\ UNCHANGED <<entries, canceled, acc, accs, tokens, held, billed, taken>>
        /\ UNCHANGED <<turn, stop, victim, turns, stops>>
    BY <1>1 DEF Session!Launch, Session!usageVars
  <2>2. /\ group' \in Session!Groups /\ groups' \in 0..(MaxStops + 1)
        /\ group' <= groups' /\ groups <= groups' /\ groups' <= stops' + 1
        /\ group' = group \/ group' > groups
    BY <2>1, GroupIsFound
  <2>3. Session!TypeOK'
    BY <2>1, <2>2
  <2>4. Listed'
    BY <2>1, <2>2
  <2>5. Accounted' /\ Session!NothingBilledTwice'
    BY <2>1
  <2> QED
    BY <2>3, <2>4, <2>5
<1>2. CASE Session!Add(s)
  BY <1>2 DEF Session!Add, Session!usageVars
<1>3. CASE Session!Start(s)
  <2>1. /\ sub[s] = "added" /\ sub' = [sub EXCEPT ![s] = "running"]
        /\ mine' = [mine EXCEPT ![s] = group'] /\ Session!GetGroup
        /\ UNCHANGED <<entries, canceled, acc, accs, tokens, held, billed, taken>>
        /\ UNCHANGED <<turn, stop, victim, turns, stops>>
    BY <1>3 DEF Session!Start, Session!usageVars
  <2>2. /\ group' \in Session!Groups /\ groups' \in 0..(MaxStops + 1)
        /\ group' <= groups' /\ groups <= groups' /\ groups' <= stops' + 1
        /\ group' = group \/ group' > groups
    BY <2>1, GroupIsFound
  <2>3. Session!TypeOK'
    BY <2>1, <2>2
  <2>4. \A x \in entries'[group'] : Session!Working(x)' /\ mine'[x] = group'
    <3>1. CASE group' = group
      BY <3>1, <2>1, <2>2
    <3>2. CASE group' > groups
      BY <3>2, <2>1, <2>2
    <3> QED
      BY <2>2, <3>1, <3>2
  <2>6. Listed'
    BY <2>1, <2>2, <2>4
  <2>5. Accounted' /\ Session!NothingBilledTwice'
    BY <2>1
  <2> QED
    BY <2>3, <2>5, <2>6
<1>4. CASE Session!Run(s)
  <2>1. PICK l \in {"used", "ended"} :
          /\ sub[s] = "running" /\ sub' = [sub EXCEPT ![s] = l]
          /\ UNCHANGED <<group, groups, entries, mine, canceled>>
          /\ UNCHANGED <<acc, accs, tokens, held, billed, taken>>
          /\ UNCHANGED <<turn, stop, victim, turns, stops>>
    BY <1>4 DEF Session!Run, Session!launchVars, Session!usageVars
  <2> QED
    BY <2>1
<1>5. CASE Session!FindAcc(s)
  <2>1. /\ sub[s] = "used" /\ sub' = [sub EXCEPT ![s] = "adding"]
        /\ held' = [held EXCEPT ![s] = acc']
        /\ UNCHANGED <<group, groups, entries, mine, canceled, tokens, billed, taken>>
        /\ UNCHANGED <<turn, stop, victim, turns, stops>>
    BY <1>5 DEF Session!FindAcc, Session!launchVars
  <2>2. /\ acc' \in Session!Accs /\ accs' \in 0..(MaxTurns + 1)
        /\ acc' <= accs' /\ accs <= accs'
        /\ accs' <= (IF turn = "run" THEN turns - 1 ELSE turns) + 1
    BY <1>5 DEF Session!FindAcc
  <2>3. Session!TypeOK'
    BY <2>1, <2>2
  <2>4. Listed' /\ Session!NothingBilledTwice'
    BY <2>1
  <2>5. acc' # 0 /\ (\A x \in SessionSubs : held'[x] = IF x = s THEN acc' ELSE held[x])
    BY <2>1, <2>2
  <2>6. /\ acc' <= accs' /\ taken' <= accs' /\ (\A x \in SessionSubs : held'[x] <= accs')
        /\ \A x \in SessionSubs : sub'[x] = "adding" => held'[x] # 0
    BY <2>1, <2>2, <2>5
  <2>7. /\ accs' <= (IF turn' = "run" THEN turns' - 1 ELSE turns') + (IF acc' = 0 THEN 0 ELSE 1)
        /\ turn' = "run" => turns' > 0
    BY <2>1, <2>2, <2>5
  <2>8. \A x \in SessionSubs :
          x \in billed' \/ (\E c \in Session!Accs : x \in tokens'[c])
            => sub'[x] \in {"ended", "removed"}
    BY <2>1
  <2> QED
    BY <2>3, <2>4, <2>6, <2>7, <2>8
<1>6. CASE Session!AddUsage(s)
  BY <1>6 DEF Session!AddUsage, Session!launchVars
<1>7. CASE Session!Remove(s)
  BY <1>7 DEF Session!Remove, Session!usageVars
<1>8. CASE Session!CancelOne(s)
  BY <1>8 DEF Session!CancelOne, Session!launchVars, Session!usageVars
<1> QED
  BY <1>1, <1>2, <1>3, <1>4, <1>5, <1>6, <1>7, <1>8 DEF Session!Goroutine

\* What the turns and /stop do.
LEMMA TurnStep ==
  ASSUME SessionInv,
         \/ Session!List \/ Session!BeginTurn \/ Session!Panic \/ Session!TakeAcc
         \/ Session!Bill \/ Session!Stop \/ Session!CancelAll
  PROVE  SessionInv'
<1> MaxTurns \in Nat /\ MaxStops \in Nat
  BY AgentsAssumption DEF Session!AsyncAssumption
<1> USE DEF SessionInv, Session!TypeOK, Listed, Accounted, Session!NothingBilledTwice,
            Session!Groups, Session!Accs, Session!SubPCs, Session!Working
<1>1. CASE Session!List
  <2>1. /\ Session!GetGroup /\ group = 0
        /\ UNCHANGED <<entries, mine, sub, canceled, acc, accs, tokens, held, billed, taken>>
        /\ UNCHANGED <<turn, stop, victim, turns, stops>>
    BY <1>1 DEF Session!List, Session!usageVars
  <2>2. /\ group' \in Session!Groups /\ groups' \in 0..(MaxStops + 1)
        /\ group' <= groups' /\ groups <= groups' /\ groups' <= stops' + 1
        /\ group' = group \/ group' > groups
    BY <2>1, GroupIsFound
  <2>3. Session!TypeOK' /\ Accounted' /\ Session!NothingBilledTwice'
    BY <2>1, <2>2
  <2>4. Listed'
    BY <2>1, <2>2
  <2> QED
    BY <2>3, <2>4
<1>2. CASE Session!BeginTurn
  BY <1>2 DEF Session!BeginTurn, Session!launchVars, Session!usageVars
<1>3. CASE Session!Panic
  BY <1>3 DEF Session!Panic, Session!ToolsDone, Session!launchVars, Session!usageVars
<1>4. CASE Session!TakeAcc
  BY <1>4 DEF Session!TakeAcc, Session!ToolsDone, Session!launchVars
<1>5. CASE Session!Bill
  BY <1>5 DEF Session!Bill, Session!launchVars
<1>6. CASE Session!Stop
  BY <1>6 DEF Session!Stop, Session!usageVars
<1>7. CASE Session!CancelAll
  <2>1. /\ UNCHANGED <<group, groups, mine, sub, acc, accs, tokens, held, billed, taken>>
        /\ UNCHANGED <<turn, turns, stops>>
        /\ stop' = "idle" /\ victim' = 0
    BY <1>7 DEF Session!CancelAll, Session!usageVars
  <2>2. /\ canceled' \subseteq SessionSubs /\ entries' \in [Session!Groups -> SUBSET SessionSubs]
        /\ \A g \in Session!Groups : entries'[g] \subseteq entries[g]
    <3>1. CASE victim = 0
      BY <3>1, <1>7 DEF Session!CancelAll
    <3>2. CASE victim # 0
      BY <3>2, <1>7 DEF Session!CancelAll
    <3> QED
      BY <3>1, <3>2
  <2>3. Session!TypeOK' /\ Accounted' /\ Session!NothingBilledTwice'
    BY <2>1, <2>2
  <2>4. Listed'
    BY <2>1, <2>2
  <2> QED
    BY <2>3, <2>4
<1> QED
  BY <1>1, <1>2, <1>3, <1>4, <1>5, <1>6, <1>7

LEMMA SessionInvHolds == Spec => []SessionInv
<1>1. Session!Init => SessionInv
  BY AgentsAssumption DEF Session!AsyncAssumption, Session!Init, SessionInv, Session!TypeOK,
     Listed, Accounted, Session!NothingBilledTwice, Session!Groups, Session!Accs,
     Session!SubPCs, Session!Working
<1>2. SessionInv /\ [Session!Next]_sessionVars => SessionInv'
  <2> SUFFICES ASSUME SessionInv, [Session!Next]_sessionVars PROVE SessionInv'
    OBVIOUS
  <2>1. CASE UNCHANGED sessionVars
    BY <2>1 DEF sessionVars, SessionInv, Session!TypeOK, Listed, Accounted,
       Session!NothingBilledTwice, Session!Working
  <2> QED
    BY <2>1, LifeStep, TurnStep DEF Session!Next
<1> QED
  BY <1>1, <1>2, SessionSteps, PTL DEF Spec, Init
-------------------------------------------------------------------------------
(* The teams.                                                              *)

\* The sets of Team are finite in the sense of the library's theorems.
LEMMA TmFinite ==
  /\ \A S : Team!Cardinality(S) = Cardinality(S)
  /\ \A S : Team!IsFiniteSet(S) <=> IsFiniteSet(S)
BY DEF Team!Cardinality, Cardinality, Team!IsFiniteSet, IsFiniteSet

TmMember == [name : STRING, role : STRING]
TmSpec == [label : STRING, from : {"role", "builtin", "own", "global", "degraded"}]
TmState == {"new", "runs", "done", "panicked"}

\* The stored teams, and everything else.
TmStoreInv == /\ teams \in [Team!Scopes -> [TeamNames -> {Team!NoTeam} \cup Defined]]
              /\ Team!Limited /\ tWrites \in 0..MaxChanges
TmRunTypes ==
  /\ tAt \in {"idle", "refused", "resolve", "global", "wait", "reported"}
  /\ tCall \in TeamCalls \cup {Team!NoCall} /\ tNow \in 0..RequestTime /\ stopped \in BOOLEAN
  /\ specs \in Seq(TmSpec) /\ run \in Seq(TmState) /\ ends \in Seq(Int)
  /\ results \in Seq(Team!Results) /\ tReport \in Seq(Team!Results)
  /\ spent \in Nat /\ tQuota \in Nat /\ tExtra \in Nat
TmRunInv == /\ TmRunTypes /\ Team!RunIsPaced /\ Team!MembersAreNamed /\ Team!SpentIsBilled
            /\ Team!EndBeforeRequest /\ Team!ReportIsWhole

LEMMA TmParts == Team!IInv <=> TmStoreInv /\ TmRunInv
BY DEF Team!IInv, Team!TypeOK, TmStoreInv, TmRunTypes, TmRunInv, TmSpec, TmState

LEMMA TmPartsNext == ASSUME TmStoreInv', TmRunInv' PROVE Team!IInv'
BY DEF Team!IInv, Team!TypeOK, TmStoreInv, TmRunTypes, TmRunInv, TmSpec, TmState

LEMMA TmInit == ASSUME Team!TeamAssumption, Team!Init PROVE Team!IInv
<1>0. MaxChanges \in Nat /\ RequestTime \in Nat
  BY DEF Team!TeamAssumption
<1>a. teams \in [Team!Scopes -> [TeamNames -> {Team!NoTeam} \cup Defined]] /\ Team!Limited /\ tWrites = 0
  BY DEF Team!Init
<1>1. TmStoreInv
  BY <1>0, <1>a DEF TmStoreInv
<1>2. <<>> \in Seq(TmSpec) /\ <<>> \in Seq(TmState) /\ <<>> \in Seq(Int) /\ <<>> \in Seq(Team!Results)
  OBVIOUS
<1>3. /\ tNow = 0 /\ stopped = FALSE /\ tAt = "idle" /\ specs = <<>> /\ run = <<>>
      /\ ends = <<>>
      /\ results = <<>> /\ spent = 0 /\ tQuota = 0 /\ tExtra = 0 /\ tReport = <<>>
      /\ tCall = Team!NoCall /\ RequestTime \in Nat
  BY DEF Team!Init, Team!TeamAssumption
<1>b. tNow = 0 /\ 0 \in 0..RequestTime
  BY <1>0, <1>3
<1>d. stopped \in BOOLEAN
  BY <1>3, Zenon
<1>e. tCall \in TeamCalls \cup {Team!NoCall}
  BY <1>3, Zenon
<1>c. spent \in Nat /\ tQuota \in Nat /\ tExtra \in Nat
  BY <1>3
<1>4. TmRunTypes
  BY <1>2, <1>3, <1>b, <1>c, <1>d, <1>e, Zenon DEF TmRunTypes
<1>5. Team!Panicked = {}
  BY <1>3 DEF Team!Panicked
<1>6. Team!SpentIsBilled
  BY <1>3, <1>5, TmFinite, FS_EmptySet DEF Team!SpentIsBilled
<1>7. Team!RunIsPaced
  BY <1>3 DEF Team!RunIsPaced, Team!NoCall
<1>8. Team!MembersAreNamed
  BY <1>3 DEF Team!MembersAreNamed
<1>9. Team!EndBeforeRequest /\ Team!ReportIsWhole
  BY <1>3 DEF Team!EndBeforeRequest, Team!ReportIsWhole
<1> QED BY <1>1, <1>4, <1>6, <1>7, <1>8, <1>9, TmParts DEF TmRunInv

LEMMA TmSame ==
  ASSUME TmRunInv, UNCHANGED Team!runVars PROVE TmRunInv'
<1>1. UNCHANGED <<tNow, stopped, tCall, tAt, specs, run, ends, results, spent, tQuota, tExtra, tReport>>
  BY DEF Team!runVars
<1>2. TmRunTypes' /\ Team!RunIsPaced' /\ Team!MembersAreNamed'
  BY <1>1 DEF TmRunInv, TmRunTypes, Team!RunIsPaced, Team!MembersAreNamed
<1>3. Team!SpentIsBilled'
  BY <1>1 DEF TmRunInv, Team!SpentIsBilled, Team!Panicked
<1>4. Team!EndBeforeRequest' /\ Team!ReportIsWhole'
  BY <1>1 DEF TmRunInv, Team!EndBeforeRequest, Team!ReportIsWhole
<1> QED BY <1>2, <1>3, <1>4 DEF TmRunInv

LEMMA TmSameStore == ASSUME TmStoreInv, UNCHANGED Team!storeVars PROVE TmStoreInv'
BY DEF TmStoreInv, Team!storeVars, Team!Limited, Team!Stored

\* A change of one team adds at most that one.
LEMMA TmChange ==
  ASSUME Team!TeamAssumption, TmStoreInv, NEW scope \in Team!Scopes, NEW name \in TeamNames,
         NEW members \in {Team!NoTeam} \cup Defined, NEW ok \in BOOLEAN, Team!Change(scope, name, members, ok),
         \/ members = Team!NoTeam \/ name \in Team!Stored(scope) \/ Team!Cardinality(Team!Stored(scope)) < MaxTeams
  PROVE  TmStoreInv'
<1>0. /\ teams \in [Team!Scopes -> [TeamNames -> {Team!NoTeam} \cup Defined]]
      /\ Team!IsFiniteSet(TeamNames)
      /\ tWrites \in 0..MaxChanges /\ MaxChanges \in Nat /\ MaxTeams \in Nat
      /\ tWrites' = tWrites + 1 /\ tWrites < MaxChanges
  BY DEF TmStoreInv, Team!TeamAssumption, Team!Change
<1>1. CASE ~ok
  BY <1>0, <1>1 DEF TmStoreInv, Team!Change, Team!Limited, Team!Stored
<1>2. CASE ok
  <2>1. teams' = [teams EXCEPT ![scope][name] = members]
    BY <1>2 DEF Team!Change
  <2>2. teams' \in [Team!Scopes -> [TeamNames -> {Team!NoTeam} \cup Defined]]
    BY <1>0, <2>1
  <2>3. ASSUME NEW s \in Team!Scopes PROVE Team!Cardinality(Team!Stored(s)') <= MaxTeams
    <3>1. Team!Cardinality(Team!Stored(s)) <= MaxTeams /\ Team!IsFiniteSet(Team!Stored(s)) /\ Team!IsFiniteSet(Team!Stored(s)')
      BY <1>0, TmFinite, FS_Subset DEF TmStoreInv, Team!Limited, Team!Stored
    <3>2. Team!Cardinality(Team!Stored(s)) \in Nat /\ Team!Cardinality(Team!Stored(s)') \in Nat
      BY <3>1, TmFinite, FS_CardinalityType
    <3>3. CASE s # scope
      <4>1. Team!Stored(s)' = Team!Stored(s)
        BY <1>0, <2>1, <3>3 DEF Team!Stored
      <4> QED BY <3>1, <4>1
    <3>4. CASE s = scope /\ (members = Team!NoTeam \/ name \in Team!Stored(scope))
      <4>1. Team!Stored(s)' \subseteq Team!Stored(s)
        BY <1>0, <2>1, <3>4 DEF Team!Stored
      <4>2. Team!Cardinality(Team!Stored(s)') <= Team!Cardinality(Team!Stored(s))
        BY <3>1, <4>1, TmFinite, FS_Subset
      <4> QED BY <1>0, <3>1, <3>2, <4>2
    <3>5. CASE s = scope /\ Team!Cardinality(Team!Stored(scope)) < MaxTeams
      <4>1. Team!Stored(s)' \subseteq Team!Stored(s) \cup {name}
        BY <1>0, <2>1, <3>5 DEF Team!Stored
      <4>2. /\ Team!IsFiniteSet(Team!Stored(s) \cup {name})
            /\ \/ Team!Cardinality(Team!Stored(s) \cup {name}) = Team!Cardinality(Team!Stored(s))
               \/ Team!Cardinality(Team!Stored(s) \cup {name}) = Team!Cardinality(Team!Stored(s)) + 1
        BY <3>1, TmFinite, FS_AddElement
      <4>3. Team!Cardinality(Team!Stored(s)') <= Team!Cardinality(Team!Stored(s) \cup {name})
        BY <4>1, <4>2, TmFinite, FS_Subset
      <4> QED BY <1>0, <3>2, <3>5, <4>2, <4>3
    <3> QED BY <3>3, <3>4, <3>5
  <2> QED BY <1>0, <2>2, <2>3 DEF TmStoreInv, Team!Limited
<1> QED BY <1>1, <1>2

LEMMA TmStores ==
  ASSUME Team!TeamAssumption, Team!IInv, NEW scope \in Team!Scopes, NEW name \in TeamNames, NEW ok \in BOOLEAN,
         \/ Team!Delete(scope, name, ok)
         \/ \E members \in Defined : \/ Team!Create(scope, name, members, ok)
                                     \/ Team!Update(scope, name, members, ok)
  PROVE  Team!IInv'
<1>1. TmStoreInv /\ TmRunInv
  BY TmParts
<1>2. UNCHANGED Team!runVars
  BY DEF Team!Delete, Team!Create, Team!Update, Team!Change
<1>3. PICK members \in {Team!NoTeam} \cup Defined :
        /\ Team!Change(scope, name, members, ok)
        /\ \/ members = Team!NoTeam \/ name \in Team!Stored(scope) \/ Team!Cardinality(Team!Stored(scope)) < MaxTeams
  BY DEF Team!Delete, Team!Create, Team!Update
<1>4. TmStoreInv'
  BY <1>1, <1>3, TmChange
<1>5. TmRunInv'
  BY <1>1, <1>2, TmSame
<1> QED BY <1>4, <1>5, TmPartsNext

\* A step of the run: types and pace of what it changes; the rest follows.
LEMMA TmCall == ASSUME Team!TeamAssumption, Team!IInv, NEW c \in TeamCalls, Team!Call(c)
  PROVE  Team!IInv'
<1>0. TmStoreInv /\ TmRunInv
  BY TmParts
<1>1. TmStoreInv'
  BY <1>0, TmSameStore DEF Team!Call
<1>2. /\ tAt = "idle" /\ tCall' = c /\ tAt' \in {"resolve", "refused"} /\ specs = <<>>
      /\ run = <<>>
      /\ UNCHANGED <<tNow, stopped, specs, run, ends, results, spent, tQuota, tExtra, tReport>>
      /\ c.members \in Seq(TmMember) /\ tAt' # "reported" /\ tAt' # "idle" /\ tAt' # "global"
      /\ tAt' # "wait"
  BY <1>0 DEF Team!Call, TmRunInv, Team!RunIsPaced, Team!TeamAssumption, Team!Members, TmMember
<1>3. TmRunTypes'
  BY <1>0, <1>2 DEF TmRunInv, TmRunTypes
<1>p. Len(run) = Len(results) /\ Len(run) = Len(ends) /\ spent = 0
  BY <1>0, <1>2 DEF TmRunInv, Team!RunIsPaced
<1>q. Len(specs) = 0 /\ Len(c.members) \in Nat /\ DOMAIN specs = {} /\ DOMAIN run = {}
  BY <1>2
<1>4. Team!RunIsPaced'
  BY <1>2, <1>p, <1>q DEF Team!RunIsPaced
<1>5. Team!MembersAreNamed' /\ Team!ReportIsWhole'
  BY <1>2, <1>q DEF Team!MembersAreNamed, Team!ReportIsWhole
<1>6. Team!SpentIsBilled'
  BY <1>0, <1>2 DEF TmRunInv, Team!SpentIsBilled, Team!Panicked
<1>7. Team!EndBeforeRequest'
  BY <1>0, <1>2 DEF TmRunInv, Team!EndBeforeRequest
<1> QED BY <1>1, <1>3, <1>4, <1>5, <1>6, <1>7, TmPartsNext DEF TmRunInv

\* The next member is resolved, from wherever its role comes.
LEMMA TmSpecced ==
  ASSUME Team!TeamAssumption, Team!IInv, NEW from \in {"role", "builtin", "own", "global", "degraded"},
         tAt \in {"resolve", "global"}, Len(specs) < Len(tCall.members), Team!Spec1(from),
         tAt' = "resolve",
         UNCHANGED <<Team!storeVars, tNow, stopped, tCall, run, ends, results, spent, tQuota, tExtra, tReport>>
  PROVE  Team!IInv'
<1>0. TmStoreInv /\ TmRunInv
  BY TmParts
<1>1. TmStoreInv'
  BY <1>0, TmSameStore
<1>2. specs \in Seq(TmSpec) /\ tCall \in TeamCalls \cup {Team!NoCall} /\ tCall.members \in Seq(TmMember)
  <2>1. Team!NoCall.members \in Seq(TmMember)
    BY DEF Team!NoCall
  <2>2. \A c \in TeamCalls : c.members \in Seq(TmMember)
    BY DEF Team!TeamAssumption, Team!Members, TmMember
  <2>3. specs \in Seq(TmSpec) /\ tCall \in TeamCalls \cup {Team!NoCall}
    BY <1>0 DEF TmRunInv, TmRunTypes
  <2> QED BY <2>1, <2>2, <2>3
<1>u. tCall' = tCall /\ run' = run /\ ends' = ends /\ results' = results /\ spent' = spent
      /\ tQuota' = tQuota /\ tExtra' = tExtra /\ tReport' = tReport /\ tNow' = tNow
      /\ stopped' = stopped
  OBVIOUS
<1>v. Len(run) = Len(results) /\ Len(run) = Len(ends) /\ spent = 0 /\ run = <<>>
  BY <1>0 DEF TmRunInv, Team!RunIsPaced
<1>3. PICK s : s = [label |-> Team!Member.name, from |-> from]
  OBVIOUS
<1>4. s \in TmSpec /\ s.label = tCall.members[Len(specs) + 1].name
  <2>1. Team!Member = tCall.members[Len(specs) + 1]
    BY DEF Team!Member
  <2>2. Len(specs) + 1 \in 1..Len(tCall.members)
    BY <1>2
  <2>3. Team!Member \in TmMember
    BY <1>2, <2>1, <2>2
  <2>4. Team!Member.name \in STRING
    BY <2>3 DEF TmMember
  <2> QED BY <1>3, <2>1, <2>4 DEF TmSpec
<1>5. specs' = Append(specs, s)
  BY <1>3 DEF Team!Spec1
<1>6. /\ specs' \in Seq(TmSpec) /\ Len(specs') = Len(specs) + 1
      /\ \A i \in DOMAIN specs' : (i \in DOMAIN specs /\ specs'[i] = specs[i])
                                \/ (i = Len(specs) + 1 /\ specs'[i] = s)
  BY <1>2, <1>4, <1>5
<1>7. TmRunTypes'
  BY <1>0, <1>6 DEF TmRunInv, TmRunTypes
<1>8. Len(tCall.members) \in Nat /\ Len(specs) \in Nat /\ DOMAIN run = {}
  BY <1>2, <1>v
<1>9. Team!RunIsPaced'
  BY <1>6, <1>8, <1>u, <1>v DEF Team!RunIsPaced
<1>w. \A i \in DOMAIN specs : specs[i].label = tCall.members[i].name
  BY <1>0 DEF TmRunInv, Team!MembersAreNamed
<1>x. \A i \in DOMAIN specs' : specs'[i].label = tCall.members[i].name
  BY <1>4, <1>6, <1>w
<1>10. Team!MembersAreNamed'
  BY <1>8, <1>u, <1>x DEF Team!MembersAreNamed
<1>11. Team!SpentIsBilled'
  BY <1>0, <1>u DEF TmRunInv, Team!SpentIsBilled, Team!Panicked
<1>12. Team!EndBeforeRequest' /\ Team!ReportIsWhole'
  BY <1>8, <1>u DEF Team!EndBeforeRequest, Team!ReportIsWhole
<1> QED BY <1>1, <1>7, <1>9, <1>10, <1>11, <1>12, TmPartsNext DEF TmRunInv

LEMMA TmResolves ==
  ASSUME Team!TeamAssumption, Team!IInv, Team!Resolve \/ Team!ResolveGlobal PROVE Team!IInv'
<1>0. TmStoreInv /\ TmRunInv
  BY TmParts
<1>1. CASE Team!Resolve /\ UNCHANGED tAt
  BY <1>1, TmSpecced DEF Team!Resolve
<1>2. CASE Team!Resolve /\ tAt' # tAt
  <2>1. /\ tAt' = "global" /\ Len(specs) < Len(tCall.members) /\ tAt = "resolve"
        /\ UNCHANGED <<tNow, stopped, tCall, specs, run, ends, results, spent, tQuota, tExtra, tReport>>
    BY <1>2 DEF Team!Resolve
  <2>2. TmStoreInv'
    BY <1>0, <1>2, TmSameStore DEF Team!Resolve
  <2>3. TmRunTypes' /\ Team!RunIsPaced' /\ Team!MembersAreNamed'
    BY <1>0, <2>1 DEF TmRunInv, TmRunTypes, Team!RunIsPaced, Team!MembersAreNamed
  <2>4. Team!SpentIsBilled'
    BY <1>0, <2>1 DEF TmRunInv, Team!SpentIsBilled, Team!Panicked
  <2>5. Team!EndBeforeRequest' /\ Team!ReportIsWhole'
    BY <1>0, <2>1 DEF TmRunInv, Team!EndBeforeRequest, Team!ReportIsWhole
  <2> QED BY <2>2, <2>3, <2>4, <2>5, TmPartsNext DEF TmRunInv
<1>3. CASE Team!ResolveGlobal
  <2>1. tAt = "global" /\ tAt' = "resolve" /\ Len(specs) < Len(tCall.members)
    BY <1>0, <1>3 DEF Team!ResolveGlobal, TmRunInv, Team!RunIsPaced
  <2>2. PICK from \in {"global", "degraded"} : Team!Spec1(from)
    BY <1>3 DEF Team!ResolveGlobal
  <2> QED BY <1>3, <2>1, <2>2, TmSpecced DEF Team!ResolveGlobal
<1> QED BY <1>1, <1>2, <1>3

LEMMA TmExcept ==
  ASSUME NEW S, NEW s \in Seq(S), NEW i \in DOMAIN s, NEW e \in S, NEW t, t = [s EXCEPT ![i] = e]
  PROVE  /\ t \in Seq(S) /\ Len(t) = Len(s) /\ DOMAIN t = DOMAIN s
         /\ t[i] = e /\ \A j \in DOMAIN s : j # i => t[j] = s[j]
<1>1. DOMAIN s = 1..Len(s) /\ Len(s) \in Nat /\ \A j \in 1..Len(s) : s[j] \in S
  OBVIOUS
<1>2. DOMAIN t = 1..Len(s) /\ \A j \in 1..Len(s) : t[j] = IF j = i THEN e ELSE s[j]
  BY <1>1
<1>3. t \in Seq(S) /\ Len(t) = Len(s)
  BY <1>1, <1>2
<1> QED BY <1>1, <1>2, <1>3

\* What a step while the members work finds.
LEMMA TmWorking ==
  ASSUME Team!TeamAssumption, TmRunInv, tAt = "wait"
  PROVE  /\ run \in Seq(TmState) /\ ends \in Seq(Int) /\ results \in Seq(Team!Results) /\ specs \in Seq(TmSpec)
         /\ Len(run) = Len(specs) /\ Len(run) = Len(ends) /\ Len(run) = Len(results)
         /\ DOMAIN run = DOMAIN specs /\ DOMAIN run = DOMAIN ends /\ DOMAIN run = DOMAIN results
         /\ Len(specs) = Len(tCall.members)
         /\ tNow \in Nat /\ tNow <= RequestTime /\ RequestTime \in Nat /\ Reserve \in Nat
         /\ MemberTime \in Nat
         /\ tCall.timeout \in Int /\ spent \in Nat /\ tQuota \in Nat /\ tExtra \in Nat
<1>1. /\ run \in Seq(TmState) /\ ends \in Seq(Int) /\ results \in Seq(Team!Results)
      /\ specs \in Seq(TmSpec)
      /\ tCall \in TeamCalls \cup {Team!NoCall} /\ tNow \in 0..RequestTime
      /\ spent \in Nat /\ tQuota \in Nat /\ tExtra \in Nat
  BY DEF TmRunInv, TmRunTypes
<1>2. /\ Len(run) = Len(specs) /\ Len(run) = Len(ends) /\ Len(run) = Len(results)
      /\ Len(specs) = Len(tCall.members)
  BY DEF TmRunInv, Team!RunIsPaced
<1>3. /\ DOMAIN run = 1..Len(run) /\ DOMAIN ends = 1..Len(ends)
      /\ DOMAIN results = 1..Len(results)
      /\ DOMAIN specs = 1..Len(specs)
  BY <1>1
<1>4. RequestTime \in Nat /\ Reserve \in Nat /\ MemberTime \in Nat
  BY DEF Team!TeamAssumption
<1>5. Team!NoCall.timeout \in Int /\ \A c \in TeamCalls : c.timeout \in Int
  BY DEF Team!NoCall, Team!TeamAssumption
<1>6. tCall.timeout \in Int
  BY <1>1, <1>5
<1> QED BY <1>1, <1>2, <1>3, <1>4, <1>6

LEMMA TmMemberEnds ==
  ASSUME Team!TeamAssumption, Team!IInv, NEW i \in DOMAIN run, NEW failed \in BOOLEAN, NEW cost \in {0, 1},
         tAt = "wait", run[i] \in {"new", "runs"}, Team!MemberEnds(i, failed, cost), UNCHANGED ends
  PROVE  Team!IInv'
<1>0. TmStoreInv /\ TmRunInv
  BY TmParts
<1>1. TmStoreInv'
  BY <1>0, TmSameStore DEF Team!MemberEnds
<1>2. PICK r : r = [label |-> specs[i].label, failed |-> failed]
  OBVIOUS
<1>3. /\ run' = [run EXCEPT ![i] = "done"] /\ results' = [results EXCEPT ![i] = r]
      /\ spent' = spent + cost /\ tQuota' = tQuota + cost /\ tExtra' = tExtra + cost
      /\ tNow' = tNow /\ stopped' = stopped /\ tCall' = tCall /\ tAt' = tAt /\ specs' = specs
      /\ tReport' = tReport /\ ends' = ends
  BY <1>2 DEF Team!MemberEnds
<1>w. /\ run \in Seq(TmState) /\ ends \in Seq(Int) /\ results \in Seq(Team!Results)
      /\ specs \in Seq(TmSpec)
      /\ Len(run) = Len(specs) /\ Len(run) = Len(ends) /\ Len(run) = Len(results)
      /\ DOMAIN run = DOMAIN specs /\ DOMAIN run = DOMAIN results
      /\ Len(specs) = Len(tCall.members) /\ spent \in Nat /\ tQuota \in Nat /\ tExtra \in Nat
  BY <1>0, TmWorking
<1>4. r \in Team!Results /\ r.label = specs[i].label
  <2>0. i \in 1..Len(specs) /\ specs \in Seq(TmSpec)
    BY <1>w
  <2>1. specs[i] \in TmSpec
    BY <2>0
  <2>2. specs[i].label \in STRING
    BY <2>1 DEF TmSpec
  <2> QED BY <1>2, <2>2 DEF Team!Results
<1>5. /\ run' \in Seq(TmState) /\ Len(run') = Len(run) /\ DOMAIN run' = DOMAIN run
      /\ run'[i] = "done" /\ \A j \in DOMAIN run : j # i => run'[j] = run[j]
  <2>1. "done" \in TmState
    BY DEF TmState
  <2> QED BY <1>3, <1>w, <2>1, TmExcept
<1>6. /\ results' \in Seq(Team!Results) /\ Len(results') = Len(results)
      /\ DOMAIN results' = DOMAIN results
      /\ results'[i] = r /\ \A j \in DOMAIN results : j # i => results'[j] = results[j]
  BY <1>3, <1>4, <1>w, TmExcept
<1>7. spent' \in Nat /\ tQuota' \in Nat /\ tExtra' \in Nat
  BY <1>3, <1>w
<1>8. TmRunTypes'
  BY <1>0, <1>3, <1>5, <1>6, <1>7 DEF TmRunInv, TmRunTypes
<1>9. Team!RunIsPaced'
  BY <1>0, <1>3, <1>5, <1>6, <1>w DEF TmRunInv, Team!RunIsPaced
<1>10. Team!MembersAreNamed'
  BY <1>0, <1>3, <1>4, <1>5, <1>6, <1>w DEF TmRunInv, Team!MembersAreNamed
<1>11. Team!Panicked' = Team!Panicked
  BY <1>5 DEF Team!Panicked
<1>12. Team!SpentIsBilled'
  <2>1. tExtra = tQuota /\ tExtra + Team!Cardinality(Team!Panicked) = spent
    BY <1>0 DEF TmRunInv, Team!SpentIsBilled
  <2>2. Team!Cardinality(Team!Panicked) \in Int \/ cost = 0
    <3>1. Team!IsFiniteSet(DOMAIN run)
      <4>1. DOMAIN run = 1..Len(run) /\ Len(run) \in Nat
        BY <1>w
      <4> QED BY <4>1, TmFinite, FS_Interval
    <3>2. Team!IsFiniteSet(Team!Panicked)
      BY <3>1, TmFinite, FS_Subset DEF Team!Panicked
    <3> QED BY <3>2, TmFinite, FS_CardinalityType
  <2>3. tExtra' = tQuota' /\ tExtra' + Team!Cardinality(Team!Panicked) = spent'
    BY <1>3, <1>w, <2>1, <2>2
  <2> QED BY <1>11, <2>3 DEF Team!SpentIsBilled
<1>13. Team!EndBeforeRequest'
  BY <1>0, <1>3, <1>5 DEF TmRunInv, Team!EndBeforeRequest
<1>14. Team!ReportIsWhole'
  BY <1>3 DEF Team!ReportIsWhole
<1> QED BY <1>1, <1>8, <1>9, <1>10, <1>12, <1>13, <1>14, TmPartsNext DEF TmRunInv

LEMMA TmStarts == ASSUME Team!TeamAssumption, Team!IInv, Team!StartMembers PROVE Team!IInv'
<1>0. TmStoreInv /\ TmRunInv
  BY TmParts
<1>1. TmStoreInv'
  BY <1>0, TmSameStore DEF Team!StartMembers
<1>2. /\ tAt = "resolve" /\ Len(specs) = Len(tCall.members)
      /\ tNow' = tNow /\ stopped' = stopped /\ tCall' = tCall /\ specs' = specs
      /\ spent' = spent
      /\ tQuota' = tQuota /\ tExtra' = tExtra /\ tReport' = tReport
      /\ \/ /\ tAt' = "refused" /\ run' = run /\ ends' = ends /\ results' = results
         \/ /\ tAt' = "wait" /\ run' = [i \in DOMAIN specs |-> "new"]
            /\ ends' = [i \in DOMAIN specs |-> 0]
            /\ results' = [i \in DOMAIN specs |-> Team!Nothing]
  BY DEF Team!StartMembers
<1>3. run = <<>> /\ spent = 0 /\ Len(run) = Len(results) /\ Len(run) = Len(ends)
  BY <1>0, <1>2 DEF TmRunInv, Team!RunIsPaced
<1>4. specs \in Seq(TmSpec) /\ DOMAIN specs = 1..Len(specs) /\ Len(specs) \in Nat
  BY <1>0 DEF TmRunInv, TmRunTypes
<1>5. CASE tAt' = "refused"
  <2>1. run' = run /\ ends' = ends /\ results' = results
    BY <1>2, <1>5
  <2>2. TmRunTypes'
    BY <1>0, <1>2, <1>5, <2>1 DEF TmRunInv, TmRunTypes
  <2>3. Team!RunIsPaced' /\ Team!MembersAreNamed'
    BY <1>0, <1>2, <1>3, <1>5, <2>1 DEF TmRunInv, Team!RunIsPaced, Team!MembersAreNamed
  <2>4. Team!SpentIsBilled' /\ Team!EndBeforeRequest' /\ Team!ReportIsWhole'
    BY <1>0, <1>2, <1>5, <2>1 DEF TmRunInv, Team!SpentIsBilled, Team!Panicked,
       Team!EndBeforeRequest, Team!ReportIsWhole
  <2> QED BY <1>1, <2>2, <2>3, <2>4, TmPartsNext DEF TmRunInv
<1>6. CASE tAt' = "wait"
  <2>1. /\ run' = [i \in 1..Len(specs) |-> "new"] /\ ends' = [i \in 1..Len(specs) |-> 0]
        /\ results' = [i \in 1..Len(specs) |-> Team!Nothing]
    BY <1>2, <1>4, <1>6
  <2>2. "new" \in TmState /\ 0 \in Int /\ Team!Nothing \in Team!Results
    BY DEF TmState, Team!Results
  <2>3. /\ run' \in Seq(TmState) /\ ends' \in Seq(Int) /\ results' \in Seq(Team!Results)
        /\ Len(run') = Len(specs) /\ Len(ends') = Len(specs) /\ Len(results') = Len(specs)
    BY <1>4, <2>1, <2>2
  <2>4. TmRunTypes'
    BY <1>0, <1>2, <1>6, <2>3 DEF TmRunInv, TmRunTypes
  <2>5. Team!RunIsPaced'
    BY <1>0, <1>2, <1>6, <2>3 DEF TmRunInv, Team!RunIsPaced
  <2>6. \A i \in DOMAIN run' : run'[i] = "new"
    BY <2>1
  <2>7. Team!MembersAreNamed' /\ Team!EndBeforeRequest' /\ Team!ReportIsWhole'
    BY <1>0, <1>2, <1>6, <2>6 DEF TmRunInv, Team!MembersAreNamed, Team!EndBeforeRequest,
       Team!ReportIsWhole
  <2>8. Team!Panicked = {} /\ Team!Panicked' = {}
    BY <1>3, <2>6 DEF Team!Panicked
  <2>9. Team!SpentIsBilled'
    BY <1>0, <1>2, <2>8 DEF TmRunInv, Team!SpentIsBilled
  <2> QED BY <1>1, <2>4, <2>5, <2>7, <2>9, TmPartsNext DEF TmRunInv
<1> QED BY <1>2, <1>5, <1>6

\* A member's own end is before the request's reserve, at whatever moment it starts.
LEMMA TmMemberStarts == ASSUME Team!TeamAssumption, Team!IInv, NEW i \in DOMAIN run, Team!MemberStarts(i)
  PROVE  Team!IInv'
<1>0. TmStoreInv /\ TmRunInv
  BY TmParts
<1>1. TmStoreInv'
  BY <1>0, TmSameStore DEF Team!MemberStarts
<1>2. /\ tAt = "wait" /\ run[i] = "new" /\ run' = [run EXCEPT ![i] = "runs"]
      /\ ends' = [ends EXCEPT ![i] = tNow + Team!ResolveTimeout(tCall.timeout)]
      /\ tNow' = tNow /\ stopped' = stopped /\ tCall' = tCall /\ tAt' = tAt /\ specs' = specs
      /\ results' = results /\ spent' = spent /\ tQuota' = tQuota /\ tExtra' = tExtra
      /\ tReport' = tReport
      /\ Team!ResolveTimeout(tCall.timeout) > 0
  BY DEF Team!MemberStarts
<1>w. /\ run \in Seq(TmState) /\ ends \in Seq(Int) /\ DOMAIN run = DOMAIN ends
      /\ Len(run) = Len(specs) /\ Len(run) = Len(ends) /\ Len(run) = Len(results)
      /\ tNow \in Nat /\ RequestTime \in Nat /\ Reserve \in Nat /\ MemberTime \in Nat
      /\ tCall.timeout \in Int
  BY <1>0, <1>2, TmWorking
<1>3. Team!ResolveTimeout(tCall.timeout) \in Int /\ tNow + Team!ResolveTimeout(tCall.timeout) <= RequestTime - Reserve
  BY <1>w DEF Team!ResolveTimeout
<1>4. /\ run' \in Seq(TmState) /\ Len(run') = Len(run) /\ DOMAIN run' = DOMAIN run
      /\ run'[i] = "runs" /\ \A j \in DOMAIN run : j # i => run'[j] = run[j]
  <2>1. "runs" \in TmState
    BY DEF TmState
  <2> QED BY <1>2, <1>w, <2>1, TmExcept
<1>5. PICK e \in Int : e = tNow + Team!ResolveTimeout(tCall.timeout)
  BY <1>3, <1>w
<1>6. /\ ends' \in Seq(Int) /\ Len(ends') = Len(ends) /\ DOMAIN ends' = DOMAIN ends
      /\ ends'[i] = e /\ \A j \in DOMAIN ends : j # i => ends'[j] = ends[j]
  BY <1>2, <1>5, <1>w, TmExcept
<1>7. TmRunTypes'
  BY <1>0, <1>2, <1>4, <1>6 DEF TmRunInv, TmRunTypes
<1>8. Team!RunIsPaced'
  BY <1>0, <1>2, <1>4, <1>6, <1>w DEF TmRunInv, Team!RunIsPaced
<1>9. Team!MembersAreNamed' /\ Team!ReportIsWhole'
  BY <1>0, <1>2, <1>4 DEF TmRunInv, Team!MembersAreNamed, Team!ReportIsWhole
<1>10. Team!SpentIsBilled'
  <2>1. Team!Panicked' = Team!Panicked
    BY <1>2, <1>4 DEF Team!Panicked
  <2> QED BY <1>0, <1>2, <2>1 DEF TmRunInv, Team!SpentIsBilled
<1>11. Team!EndBeforeRequest'
  <2>1. e <= RequestTime - Reserve /\ tNow <= e
    BY <1>2, <1>3, <1>5, <1>w
  <2> QED BY <1>0, <1>2, <1>4, <1>6, <1>w, <2>1 DEF TmRunInv, Team!EndBeforeRequest
<1> QED BY <1>1, <1>7, <1>8, <1>9, <1>10, <1>11, TmPartsNext DEF TmRunInv

LEMMA TmPanics == ASSUME Team!TeamAssumption, Team!IInv, NEW i \in DOMAIN run, Team!MemberPanics(i)
  PROVE  Team!IInv'
<1>0. TmStoreInv /\ TmRunInv
  BY TmParts
<1>1. TmStoreInv'
  BY <1>0, TmSameStore DEF Team!MemberPanics
<1>2. /\ tAt = "wait" /\ run[i] = "runs" /\ run' = [run EXCEPT ![i] = "panicked"]
      /\ ends' = ends /\ tNow' = tNow /\ stopped' = stopped /\ tCall' = tCall /\ tAt' = tAt
      /\ specs' = specs
      /\ results' = results /\ spent' = spent + 1 /\ tQuota' = tQuota /\ tExtra' = tExtra
      /\ tReport' = tReport
  BY DEF Team!MemberPanics
<1>w. /\ run \in Seq(TmState) /\ DOMAIN run = DOMAIN ends
      /\ Len(run) = Len(specs) /\ Len(run) = Len(ends) /\ Len(run) = Len(results)
      /\ spent \in Nat /\ tExtra \in Nat
  BY <1>0, <1>2, TmWorking
<1>4. /\ run' \in Seq(TmState) /\ Len(run') = Len(run) /\ DOMAIN run' = DOMAIN run
      /\ run'[i] = "panicked" /\ \A j \in DOMAIN run : j # i => run'[j] = run[j]
  <2>1. "panicked" \in TmState
    BY DEF TmState
  <2> QED BY <1>2, <1>w, <2>1, TmExcept
<1>5. spent' \in Nat
  BY <1>2, <1>w
<1>7. TmRunTypes'
  BY <1>0, <1>2, <1>4, <1>5 DEF TmRunInv, TmRunTypes
<1>8. Team!RunIsPaced'
  BY <1>0, <1>2, <1>4, <1>w DEF TmRunInv, Team!RunIsPaced
<1>9. Team!MembersAreNamed' /\ Team!ReportIsWhole' /\ Team!EndBeforeRequest'
  BY <1>0, <1>2, <1>4 DEF TmRunInv, Team!MembersAreNamed, Team!ReportIsWhole,
     Team!EndBeforeRequest
<1>10. Team!SpentIsBilled'
  <2>1. Team!Panicked' = Team!Panicked \cup {i} /\ i \notin Team!Panicked
    BY <1>2, <1>4 DEF Team!Panicked
  <2>2. Team!IsFiniteSet(Team!Panicked)
    <3>1. DOMAIN run = 1..Len(run) /\ Len(run) \in Nat
      BY <1>w
    <3>2. Team!IsFiniteSet(DOMAIN run)
      BY <3>1, TmFinite, FS_Interval
    <3> QED BY <3>2, TmFinite, FS_Subset DEF Team!Panicked
  <2>3. Team!Cardinality(Team!Panicked') = Team!Cardinality(Team!Panicked) + 1 /\ Team!Cardinality(Team!Panicked) \in Nat
    BY <2>1, <2>2, TmFinite, FS_AddElement, FS_CardinalityType
  <2>4. tExtra = tQuota /\ tExtra + Team!Cardinality(Team!Panicked) = spent
    BY <1>0 DEF TmRunInv, Team!SpentIsBilled
  <2> QED BY <1>2, <1>w, <2>3, <2>4 DEF Team!SpentIsBilled
<1> QED BY <1>1, <1>7, <1>8, <1>9, <1>10, TmPartsNext DEF TmRunInv

LEMMA TmReports == ASSUME Team!TeamAssumption, Team!IInv, Team!Report PROVE Team!IInv'
<1>0. TmStoreInv /\ TmRunInv
  BY TmParts
<1>1. TmStoreInv'
  BY <1>0, TmSameStore DEF Team!Report
<1>2. /\ tAt = "wait" /\ tAt' = "reported" /\ tReport' = results /\ run' = run
      /\ ends' = ends /\ tNow' = tNow /\ stopped' = stopped /\ tCall' = tCall /\ specs' = specs
      /\ results' = results /\ spent' = spent /\ tQuota' = tQuota /\ tExtra' = tExtra
  BY DEF Team!Report
<1>w. /\ run \in Seq(TmState) /\ results \in Seq(Team!Results) /\ DOMAIN run = DOMAIN specs
      /\ DOMAIN run = DOMAIN results /\ Len(run) = Len(specs) /\ Len(run) = Len(results)
      /\ Len(specs) = Len(tCall.members)
  BY <1>0, <1>2, TmWorking
<1>3. TmRunTypes'
  BY <1>0, <1>2, <1>w DEF TmRunInv, TmRunTypes
<1>4. Team!RunIsPaced'
  BY <1>0, <1>2 DEF TmRunInv, Team!RunIsPaced
<1>5. Team!MembersAreNamed'
  BY <1>0, <1>2 DEF TmRunInv, Team!MembersAreNamed
<1>6. Team!SpentIsBilled' /\ Team!EndBeforeRequest'
  BY <1>0, <1>2 DEF TmRunInv, Team!SpentIsBilled, Team!Panicked, Team!EndBeforeRequest
<1>7. Team!ReportIsWhole'
  <2>1. Len(tReport') = Len(tCall'.members)
    BY <1>2, <1>w
  <2>2. \A j \in DOMAIN tReport' : run'[j] = "done" => tReport'[j].label = tCall'.members[j].name
    BY <1>0, <1>2, <1>w DEF TmRunInv, Team!MembersAreNamed
  <2>3. tExtra' = tQuota' /\ tExtra' + Team!Cardinality(Team!Panicked') = spent'
    BY <1>6 DEF Team!SpentIsBilled
  <2> QED BY <2>1, <2>2, <2>3 DEF Team!ReportIsWhole, Team!Panicked
<1> QED BY <1>1, <1>3, <1>4, <1>5, <1>6, <1>7, TmPartsNext DEF TmRunInv

\* /stop, and a moment that passes: nobody who runs is past its end.
LEMMA TmClock == ASSUME Team!TeamAssumption, Team!IInv, Team!Stop \/ Team!Tick PROVE Team!IInv'
<1>0. TmStoreInv /\ TmRunInv
  BY TmParts
<1>1. TmStoreInv'
  BY <1>0, TmSameStore DEF Team!Stop, Team!Tick
<1>2. /\ tReport' = tReport /\ run' = run /\ ends' = ends /\ tCall' = tCall /\ specs' = specs
      /\ results' = results /\ spent' = spent /\ tQuota' = tQuota /\ tExtra' = tExtra
      /\ tAt' = tAt
  BY DEF Team!Stop, Team!Tick
<1>3. /\ tNow \in 0..RequestTime /\ stopped \in BOOLEAN /\ RequestTime \in Nat
      /\ ends \in Seq(Int)
      /\ run \in Seq(TmState) /\ Len(run) = Len(ends)
  BY <1>0 DEF TmRunInv, TmRunTypes, Team!TeamAssumption, Team!RunIsPaced
<1>4. tNow' \in 0..RequestTime
  BY <1>3 DEF Team!Stop, Team!Tick
<1>5. stopped' \in BOOLEAN
  BY <1>3 DEF Team!Stop, Team!Tick
<1>6. TmRunTypes'
  BY <1>0, <1>2, <1>4, <1>5 DEF TmRunInv, TmRunTypes
<1>7. Team!RunIsPaced' /\ Team!MembersAreNamed' /\ Team!SpentIsBilled' /\ Team!ReportIsWhole'
  BY <1>0, <1>2 DEF TmRunInv, Team!RunIsPaced, Team!MembersAreNamed, Team!SpentIsBilled,
     Team!Panicked, Team!ReportIsWhole
<1>8. Team!EndBeforeRequest'
  <2>1. CASE Team!Stop
    BY <1>0, <1>2, <2>1 DEF TmRunInv, Team!EndBeforeRequest, Team!Stop
  <2>2. CASE Team!Tick
    <3>1. ASSUME NEW i \in DOMAIN run, run[i] = "runs"
          PROVE  ends[i] <= RequestTime - Reserve /\ tNow + 1 <= ends[i]
      <4>1. ends[i] <= RequestTime - Reserve /\ tNow < ends[i]
        BY <1>0, <2>2, <3>1 DEF TmRunInv, Team!EndBeforeRequest, Team!Tick
      <4>2. i \in 1..Len(ends)
        BY <1>3
      <4>3. ends[i] \in Int
        BY <1>3, <4>2
      <4> QED BY <1>3, <4>1, <4>3
    <3>2. tNow' = tNow + 1
      BY <2>2 DEF Team!Tick
    <3> QED BY <1>2, <3>1, <3>2 DEF Team!EndBeforeRequest
  <2> QED BY <2>1, <2>2
<1> QED BY <1>1, <1>6, <1>7, <1>8, TmPartsNext DEF TmRunInv

LEMMA TmStep == ASSUME Team!TeamAssumption, Team!IInv, Team!Next PROVE Team!IInv'
<1>1. CASE \E i \in DOMAIN run : Team!MemberLate(i) \/ Team!MemberTimesOut(i)
                               \/ \E failed \in BOOLEAN : Team!MemberAnswers(i, failed)
  <2>1. PICK i \in DOMAIN run, failed \in BOOLEAN, cost \in {0, 1} :
          /\ tAt = "wait" /\ run[i] \in {"new", "runs"}
          /\ Team!MemberEnds(i, failed, cost) /\ UNCHANGED ends
    BY <1>1, Zenon DEF Team!MemberLate, Team!MemberTimesOut, Team!MemberAnswers
  <2> QED BY <2>1, TmMemberEnds
<1>2. CASE \E i \in DOMAIN run : Team!MemberStarts(i) \/ Team!MemberPanics(i)
  BY <1>2, TmMemberStarts, TmPanics
<1>3. CASE Team!Resolve \/ Team!ResolveGlobal \/ Team!StartMembers \/ Team!Report \/ Team!Stop \/ Team!Tick
  BY <1>3, TmResolves, TmStarts, TmReports, TmClock
<1>4. CASE \E c \in TeamCalls : Team!Call(c)
  BY <1>4, TmCall
<1>5. CASE \E scope \in Team!Scopes, name \in TeamNames, ok \in BOOLEAN :
             \/ Team!Delete(scope, name, ok)
             \/ \E members \in Defined : \/ Team!Create(scope, name, members, ok)
                                         \/ Team!Update(scope, name, members, ok)
  BY <1>5, TmStores
<1> QED BY <1>1, <1>2, <1>3, <1>4, <1>5 DEF Team!Next, Team!Step

LEMMA TmStutter == ASSUME Team!IInv, UNCHANGED Team!vars PROVE Team!IInv'
<1>1. TmStoreInv /\ TmRunInv
  BY TmParts
<1>2. TmStoreInv'
  BY <1>1, TmSameStore DEF Team!vars, Team!storeVars
<1>3. TmRunInv'
  BY <1>1, TmSame DEF Team!vars, Team!runVars
<1> QED BY <1>2, <1>3, TmPartsNext

LEMMA TeamInvHolds == Spec => []Team!IInv
<1>1. Team!Init => Team!IInv
  BY AgentsAssumption, TmInit
<1>2. Team!IInv /\ [Team!Next]_teamVars => Team!IInv'
  BY AgentsAssumption, TmStep, TmStutter DEF teamVars, Team!vars
<1> QED
  BY <1>1, <1>2, TeamSteps, PTL DEF Spec, Init
-------------------------------------------------------------------------------
\* approval.go: in any interleaving of requests, replies, time-outs and cancellations a
\* waiting request is the one its session's replies are matched with, a reply in the
\* administrator's chat can mean one request only, and a call runs only on the yes of
\* someone who may decide it.
THEOREM RepliesDecide == Spec => []RepliesDecideTheirRequest
<1>1. TaskInv /\ SessionInv => Task!TypeOK /\ Session!TypeOK
  BY DEF TaskInv, SessionInv
<1>2. Team!IInv => Team!TypeOK
  BY DEF Team!IInv
<1> QED
  BY <1>1, <1>2, ApprovalTypes, TaskInvHolds, SessionInvHolds, TeamInvHolds,
     WaitingStaysRegistered, AdminKnowsWhich, OnlyTheEntitledAllow, PTL
     DEF RepliesDecideTheirRequest, TypeOK

\* clock.go, clocksubagent.go: when a task has ended its subagents are done or cancelled, it
\* has waited for them as long as it could, and what was reported is billed;
\* subagent_async.go, usageacc.go: what a session lists is running, and no tokens are
\* billed twice; team.go: whatever members a team has and however long they take, they end
\* before their request, and its report is what they did.
THEOREM SubagentsSettle == Spec => []SubagentsAreSettled
<1>1. TaskInv => /\ Task!NoneIsLeftRunning
                 /\ Task!RepliesWhenAllAreDone /\ Task!ReportedIsBilled
  BY DEF TaskInv
<1>2. SessionInv => Session!ListedIsRunning /\ Session!NothingBilledTwice
  BY DEF SessionInv, Listed, Session!ListedIsRunning
<1>3. Team!IInv => Team!EndBeforeRequest /\ Team!ReportIsWhole
  BY DEF Team!IInv
<1> QED
  BY <1>1, <1>2, <1>3, TaskInvHolds, SessionInvHolds, TeamInvHolds, PTL
     DEF SubagentsAreSettled
===============================================================================
