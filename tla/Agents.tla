--------------------------------- MODULE Agents ---------------------------------
(***************************************************************************)
(* What works beside a conversation: the approval of tool calls, the        *)
(* subagents of one execution of a scheduled task, the background subagents *)
(* of a session, and the teams.  They share no variable of the code, so a    *)
(* behaviour is about one of them, the scenario, and the variables of the   *)
(* others keep their initial values.                                        *)
(***************************************************************************)
EXTENDS Naturals, FiniteSets

CONSTANTS Sessions, AdminChat, Requests, Replies,    \* of Approval
          SessOf, ViaAdmin, Entitled, Allows, None,
          TaskSubs, MaxRounds,                       \* of ClockSubagents
          SessionSubs, MaxTurns, MaxStops,           \* of AsyncSubagents
          TeamCalls, Builtin, TeamNames, Defined,    \* of Team
          MaxTeams, MaxMembers, MemberTime, RequestTime, Reserve, MaxChanges

VARIABLES scenario,
          lock, pending, adminPending, pc, outcome, ch, rp, target,
          taskPC, time, st, taskCanceled, round, report, read, extra, taskBilled, gaveUp,
          group, groups, entries, sub, mine, canceled, acc, accs, tokens, held,
          billed, turn, taken, stop, victim, turns, stops,
          teams, told, tWrites, tNow, stopped, tCall, tAt, specs, run, ends, results,
          spent, tQuota, tExtra, tReport
-------------------------------------------------------------------------------
approvalVars == <<lock, pending, adminPending, pc, outcome, ch, rp, target>>
taskVars == <<taskPC, time, st, taskCanceled, round, report, read, extra, taskBilled, gaveUp>>
sessionVars == <<group, groups, entries, sub, mine, canceled, acc, accs, tokens, held,
                 billed, turn, taken, stop, victim, turns, stops>>
teamVars == <<teams, told, tWrites, tNow, stopped, tCall, tAt, specs, run, ends, results,
              spent, tQuota, tExtra, tReport>>

Approval == INSTANCE Approval

Task == INSTANCE ClockSubagents WITH
  Subs <- TaskSubs, pc <- taskPC, canceled <- taskCanceled, billed <- taskBilled

Session == INSTANCE AsyncSubagents WITH Subs <- SessionSubs

Team == INSTANCE Team WITH
  Calls <- TeamCalls, Timeout <- MemberTime, Deadline <- RequestTime, MaxWrites <- MaxChanges,
  writes <- tWrites, now <- tNow, call <- tCall, at <- tAt, quota <- tQuota, extra <- tExtra,
  report <- tReport

ASSUME AgentsAssumption ==
  /\ Approval!ApprovalAssumption /\ Task!SubagentAssumption /\ Session!AsyncAssumption
  /\ Team!TeamAssumption
-------------------------------------------------------------------------------
vars == <<scenario, approvalVars, taskVars, sessionVars, teamVars>>

Init == /\ scenario \in {"approval", "task", "session", "team"}
        /\ Approval!Init /\ Task!Init /\ Session!Init /\ Team!Init
        /\ scenario = "team" \/ \A s \in Team!Scopes : Team!Stored(s) = {}

\* A step of the scenario's component, with what the others leave alone.
InApproval(A) == /\ scenario = "approval" /\ A
                 /\ UNCHANGED <<scenario, taskVars, sessionVars, teamVars>>
InTask(A)     == /\ scenario = "task" /\ A
                 /\ UNCHANGED <<scenario, approvalVars, sessionVars, teamVars>>
InSession(A)  == /\ scenario = "session" /\ A
                 /\ UNCHANGED <<scenario, approvalVars, taskVars, teamVars>>
InTeam(A)     == /\ scenario = "team" /\ A
                 /\ UNCHANGED <<scenario, approvalVars, taskVars, sessionVars>>

Next == \/ InApproval(Approval!Next) \/ InTask(Task!Next) \/ InSession(Session!Next)
        \/ InTeam(Team!Next)

\* The fairness of the components whose progress is checked; the goroutines of a team go on
\* and time passes, but no model need answer.
Spec ==
  /\ Init /\ [][Next]_vars
  /\ \A r \in Requests : SF_vars(InApproval(Approval!Request(r)))
  /\ WF_vars(InTask(Task!Tick)) /\ WF_vars(InTask(Task!Execution))
  /\ WF_vars(InTeam(Team!Step)) /\ WF_vars(InTeam(Team!Tick))
-------------------------------------------------------------------------------
\* The variables of the components have the values they are declared for.
TypeOK == Approval!TypeOK /\ Task!TypeOK /\ Session!TypeOK /\ Team!TypeOK

\* approval.go: a waiting request is the one its session's replies are matched with,
\* a reply in the administrator's chat can mean one request only, and a tool call runs
\* only on the yes of someone entitled to decide this very request.
RepliesDecideTheirRequest ==
  /\ TypeOK
  /\ Approval!WaitingIsRegistered
  /\ Approval!AdminRepliesAreUnambiguous
  /\ Approval!AllowedByEntitled

\* clock.go, clocksubagent.go: when a task has ended no subagent runs on uncancelled, the
\* reply waited for all of them unless a limit or an error cut the wait short, and what
\* was reported to the AI is in the task's bill.  subagent_async.go, usageacc.go: of a
\* session, what subagent_list shows is running, so that no lookup that raced with /stop
\* leaves an ended subagent behind; and no token of a subagent is billed twice.  team.go:
\* the members of a team end before their request, and its report is what they did.
SubagentsAreSettled ==
  /\ Task!NoneIsLeftRunning
  /\ Task!RepliesWhenAllAreDone
  /\ Task!ReportedIsBilled
  /\ Session!ListedIsRunning /\ Session!NothingBilledTwice
  /\ Team!EndBeforeRequest /\ Team!ReportIsWhole

\* approval.go: every request gets an outcome and gives its locks back, with or without
\* a reply; clocksubagent.go: a task ends whatever its subagents do; team.go: the request
\* that started a team gets its report, though a member never answers.
EverythingEnds == /\ scenario = "approval" => Approval!EveryRequestEnds
                  /\ scenario = "task" => Task!TaskEnds
                  /\ scenario = "team" => Team!TeamReports
================================================================================
