---------------------------------- MODULE Team ----------------------------------
(***************************************************************************)
(* Agent teams (pluginaichat/team.go, teamtool.go, teampanel.go): the teams *)
(* kept for a conversation and for all of them, and one team_run, whose     *)
(* members are subagents (subagent.go) that run side by side while the      *)
(* request that started them waits.                                         *)
(***************************************************************************)
EXTENDS Integers, Sequences, FiniteSets

CONSTANTS Calls,      \* team_run calls: [members : sequence of [name, role], timeout]
          Builtin,    \* names of the predefined roles
          TeamNames, Defined, \* stored teams' names; the member lists they are given
          MaxTeams,   \* teamMaxPerScope
          MaxMembers, \* teamMaxMembers, and teamMaxStoredMembers
          Timeout,    \* the default time-out of a subagent
          Deadline,   \* when the request's own time is up
          Reserve,    \* subagentParentReserve
          MaxWrites   \* bound: changes of the stored teams

Members == Seq([name : STRING, role : STRING])
TeamAssumption ==
  /\ IsFiniteSet(TeamNames) /\ Defined \subseteq Members
  /\ Calls \subseteq [members : Members, timeout : Int]
  /\ {MaxTeams, MaxMembers, Timeout, Deadline, Reserve, MaxWrites} \subseteq Nat
  /\ Timeout > 0 /\ Reserve < Deadline

VARIABLES teams,   \* teams[scope][name]: the members stored, or NoTeam
          told,    \* what the last change answered: [scope, name, is]
          writes,
          now, stopped,
          call, at,  \* the call being served and its step
          specs,     \* the members resolved: [label, from]
          run,       \* run[i]: the step of member i
          ends,      \* ends[i]: when its context ends
          results,   \* results[i] as runTeamMember leaves it
          spent,     \* tokens of the members that ran
          quota, extra,
          report

vars == <<teams, told, writes, now, stopped, call, at, specs, run, ends, results, spent,
          quota, extra, report>>

Scopes  == {"own", "global"}
NoTeam  == <<>>
\* A name or a role that is not given is "none".
NoCall  == [members |-> <<>>, timeout |-> 0]
Nothing == [label |-> "none", failed |-> FALSE]  \* the zero value of teamMemberResult

Stored(scope) == {n \in TeamNames : teams[scope][n] # NoTeam}
Limited == \A s \in Scopes : Cardinality(Stored(s)) <= MaxTeams

Init ==
  /\ teams \in [Scopes -> [TeamNames -> {NoTeam} \cup Defined]] /\ Limited
  /\ told = [scope |-> "own", name |-> "none", is |-> "none"] /\ writes = 0
  /\ now = 0 /\ stopped = FALSE
  /\ call = NoCall /\ at = "idle" /\ specs = <<>> /\ run = <<>> /\ ends = <<>>
  /\ results = <<>> /\ spent = 0 /\ quota = 0 /\ extra = 0 /\ report = <<>>
-------------------------------------------------------------------------------
(* The stored teams.  Every change holds the manager's lock from its checks *)
(* to its write; the store may refuse the write.                            *)
runVars == <<now, stopped, call, at, specs, run, ends, results, spent, quota, extra, report>>

\* validateTeamMembers: not empty, not too many, no name twice.
Valid(members) ==
  /\ Len(members) \in 1..MaxMembers
  /\ \A i \in DOMAIN members : members[i].name # "none"
  /\ \A i, j \in DOMAIN members : i # j => members[i].name # members[j].name

Change(scope, name, members, ok) ==
  /\ writes < MaxWrites /\ writes' = writes + 1 /\ UNCHANGED runVars
  /\ teams' = IF ok THEN [teams EXCEPT ![scope][name] = members] ELSE teams

\* The conversation's tools reach its own scope, the panel every one.
Create(scope, name, members, ok) ==
  /\ Valid(members) /\ name \notin Stored(scope) /\ Cardinality(Stored(scope)) < MaxTeams
  /\ Change(scope, name, members, ok)
  /\ told' = [scope |-> scope, name |-> name, is |-> IF ok THEN "saved" ELSE "failed"]

Update(scope, name, members, ok) ==
  /\ Valid(members) /\ name \in Stored(scope)
  /\ Change(scope, name, members, ok)
  /\ told' = [scope |-> scope, name |-> name, is |-> IF ok THEN "saved" ELSE "failed"]

\* delete answers that the team was there, whatever the store says.
Delete(scope, name, ok) ==
  /\ name \in Stored(scope)
  /\ Change(scope, name, NoTeam, ok)
  /\ told' = [scope |-> scope, name |-> name, is |-> "deleted"]
-------------------------------------------------------------------------------
(* One team_run.                                                           *)
storeVars == <<teams, told, writes>>

Call(c) ==
  /\ at = "idle" /\ call = NoCall
  /\ call' = c
  /\ at' = IF Valid(c.members) THEN "resolve" ELSE "refused"
  /\ UNCHANGED <<storeVars, now, stopped, specs, run, ends, results, spent, quota, extra, report>>

Member == call.members[Len(specs) + 1]
HasRole(scope, name) ==
  \E t \in Stored(scope) : \E i \in DOMAIN teams[scope][t] :
    teams[scope][t][i].name = name /\ teams[scope][t][i].role # "none"
Spec1(from) == specs' = Append(specs, [label |-> Member.name, from |-> from])

\* resolveTeamMemberSpec: the role given, a predefined one, the conversation's teams, those of
\* all; each list is read under the lock, but not the two together.
Resolve ==
  /\ at = "resolve" /\ Len(specs) < Len(call.members)
  /\ \/ Member.role # "none" /\ Spec1("role") /\ UNCHANGED at
     \/ Member.role = "none" /\ Member.name \in Builtin /\ Spec1("builtin") /\ UNCHANGED at
     \/ /\ Member.role = "none" /\ Member.name \notin Builtin
        /\ IF HasRole("own", Member.name) THEN Spec1("own") /\ UNCHANGED at
           ELSE at' = "global" /\ UNCHANGED specs
  /\ UNCHANGED <<storeVars, now, stopped, call, run, ends, results, spent, quota, extra, report>>
ResolveGlobal ==
  /\ at = "global" /\ at' = "resolve"
  /\ Spec1(IF HasRole("global", Member.name) THEN "global" ELSE "degraded")
  /\ UNCHANGED <<storeVars, now, stopped, call, run, ends, results, spent, quota, extra, report>>

\* resolveSubagentTimeout: not positive when the request has too little time left.
ResolveTimeout(timeout) ==
  LET want   == IF timeout > 0 THEN timeout ELSE Timeout
      budget == Deadline - now - Reserve IN
  IF want > budget THEN budget ELSE want

\* runTeam's own check, and a goroutine for each member.
StartMembers ==
  /\ at = "resolve" /\ Len(specs) = Len(call.members)
  /\ IF ResolveTimeout(call.timeout) <= 0 THEN at' = "refused" /\ UNCHANGED <<run, ends, results>>
     ELSE /\ at' = "wait"
          /\ run'     = [i \in DOMAIN specs |-> "new"]
          /\ ends'    = [i \in DOMAIN specs |-> 0]
          /\ results' = [i \in DOMAIN specs |-> Nothing]
  /\ UNCHANGED <<storeVars, now, stopped, call, specs, spent, quota, extra, report>>

MemberEnds(i, failed, tokens) ==
  /\ run' = [run EXCEPT ![i] = "done"]
  /\ results' = [results EXCEPT ![i] = [label |-> specs[i].label, failed |-> failed]]
  /\ spent' = spent + tokens /\ quota' = quota + tokens /\ extra' = extra + tokens
  /\ UNCHANGED <<storeVars, now, stopped, call, at, specs, report>>

\* runSubagentWithOptions: the member's context ends in time, or it cannot start any more.
MemberStarts(i) ==
  /\ at = "wait" /\ run[i] = "new" /\ ~stopped /\ ResolveTimeout(call.timeout) > 0
  /\ run' = [run EXCEPT ![i] = "runs"]
  /\ ends' = [ends EXCEPT ![i] = now + ResolveTimeout(call.timeout)]
  /\ UNCHANGED <<storeVars, now, stopped, call, at, specs, results, spent, quota, extra, report>>
MemberLate(i) ==
  /\ at = "wait" /\ run[i] = "new" /\ (stopped \/ ResolveTimeout(call.timeout) <= 0)
  /\ MemberEnds(i, TRUE, 0) /\ UNCHANGED ends

\* It answers or fails, with the tokens spent till then; on time-out or /stop it fails.
MemberAnswers(i, failed) ==
  /\ at = "wait" /\ run[i] = "runs" /\ MemberEnds(i, failed, 1) /\ UNCHANGED ends
\* Mutant: a member listens to /stop alone.
MemberStops(i) ==
  /\ at = "wait" /\ run[i] = "runs" /\ stopped
  /\ MemberEnds(i, TRUE, 1) /\ UNCHANGED ends
MemberTimesOut(i) ==
  /\ at = "wait" /\ run[i] = "runs" /\ (now >= ends[i] \/ stopped)
  /\ MemberEnds(i, TRUE, 1) /\ UNCHANGED ends

\* bot.Go recovers the panic of a tool or a hook; the result stays as it was made.
MemberPanics(i) ==
  /\ at = "wait" /\ run[i] = "runs"
  /\ run' = [run EXCEPT ![i] = "panicked"] /\ spent' = spent + 1
  /\ UNCHANGED <<storeVars, now, stopped, call, at, specs, ends, results, quota, extra, report>>

\* wg.Wait, buildTeamReport.
Report ==
  /\ at = "wait" /\ \A i \in DOMAIN run : run[i] \in {"done", "panicked"}
  /\ at' = "reported" /\ report' = results
  /\ UNCHANGED <<storeVars, now, stopped, call, specs, run, ends, results, spent, quota, extra>>

\* /stop or the request's time-out cancel the context all members' contexts come from.
Stop == /\ ~stopped /\ at # "reported" /\ stopped' = TRUE
        /\ UNCHANGED <<storeVars, now, call, at, specs, run, ends, results, spent, quota, extra, report>>

\* Members give up when their time is up: what they do listens to its context.
Tick == /\ now < Deadline /\ \A i \in DOMAIN run : run[i] = "runs" => now < ends[i]
        /\ now' = now + 1
        /\ UNCHANGED <<storeVars, stopped, call, at, specs, run, ends, results, spent, quota, extra, report>>

\* What goes on by itself: a model need not answer, but its time is kept.
Step   == \/ Resolve \/ ResolveGlobal \/ StartMembers \/ Report
          \/ \E i \in DOMAIN run : MemberStarts(i) \/ MemberLate(i) \/ MemberTimesOut(i)
Next   == \/ Step \/ Stop \/ Tick \/ \E c \in Calls : Call(c)
          \/ \E i \in DOMAIN run :
               MemberPanics(i) \/ \E failed \in BOOLEAN : MemberAnswers(i, failed)
          \/ \E scope \in Scopes, name \in TeamNames, ok \in BOOLEAN :
               \/ Delete(scope, name, ok)
               \/ \E members \in Defined : Create(scope, name, members, ok) \/ Update(scope, name, members, ok)
Spec   == Init /\ [][Next]_vars /\ WF_vars(Step) /\ WF_vars(Tick)
-------------------------------------------------------------------------------
Results == {Nothing} \cup [label : STRING, failed : BOOLEAN]
TypeOK ==
  /\ teams \in [Scopes -> [TeamNames -> {NoTeam} \cup Defined]] /\ Limited
  /\ writes \in 0..MaxWrites
  /\ at \in {"idle", "refused", "resolve", "global", "wait", "reported"}
  /\ call \in Calls \cup {NoCall} /\ now \in 0..Deadline /\ stopped \in BOOLEAN
  /\ specs \in Seq([label : STRING, from : {"role", "builtin", "own", "global", "degraded"}])
  /\ run \in Seq({"new", "runs", "done", "panicked"}) /\ ends \in Seq(Int)
  /\ results \in Seq(Results) /\ report \in Seq(Results)
  /\ {spent, quota, extra} \subseteq Nat

\* The members' time is up while the request still has its reserve to answer in
\* (subagent.go:57, team.go:330): none of them outlives Deadline - Reserve.
EndBeforeRequest ==
  \A i \in DOMAIN run : run[i] = "runs" => /\ ends[i] <= Deadline - Reserve
                                           /\ now <= ends[i]

\* The report has a block for every member, in the order of the call, a failure shown as one;
\* and what its members spent is in the request's account and the quota before the report is
\* (team.go:367-371), but for those that panicked.
ReportIsWhole ==
  at = "reported" =>
    /\ Len(report) = Len(call.members)
    /\ \A i \in DOMAIN report : run[i] = "done" => report[i].label = call.members[i].name
    /\ extra = quota /\ extra + Cardinality({i \in DOMAIN run : run[i] = "panicked"}) = spent

\* Why these hold: members are resolved in the order of the call, and all of them before they
\* start; whoever is done has its own result; and what was spent is billed, or of a panic.
RunIsPaced ==
  /\ Len(specs) <= Len(call.members)
  /\ at = "idle" => specs = <<>>
  /\ at = "global" => Len(specs) < Len(call.members)
  /\ Len(run) = Len(results) /\ Len(run) = Len(ends)
  /\ IF at \in {"wait", "reported"} THEN Len(run) = Len(specs) /\ Len(specs) = Len(call.members)
     ELSE run = <<>> /\ spent = 0
MembersAreNamed ==
  /\ \A i \in DOMAIN specs : specs[i].label = call.members[i].name
  /\ \A i \in DOMAIN run : run[i] = "done" => results[i].label = specs[i].label
  /\ at = "reported" => report = results
Panicked == {i \in DOMAIN run : run[i] = "panicked"}
SpentIsBilled == extra = quota /\ extra + Cardinality(Panicked) = spent
IInv == /\ TypeOK /\ RunIsPaced /\ MembersAreNamed /\ SpentIsBilled
        /\ EndBeforeRequest /\ ReportIsWhole

\* The request that started a team gets its report, though a member's model never answers.
TeamReports == (at = "wait") ~> (at = "reported")
-------------------------------------------------------------------------------
(* Claims of the sources that do not hold of this model.                   *)

\* "A member's failure goes into the report" (team.go:328): a panic is counted as a success.
PanicIsReported == at = "reported" => \A i \in DOMAIN run : run[i] = "panicked" => report[i].failed

\* "Deleted" (teamtool.go:203): the team is not there any more.
DeletedIsGone == told.is = "deleted" => told.name \notin Stored(told.scope)
===============================================================================
