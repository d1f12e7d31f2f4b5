------------------------------ MODULE AsyncSubagents ------------------------------
(***************************************************************************)
(* The background subagents of one session: the group that lists them for   *)
(* subagent_list, subagent_cancel and /stop (pluginaichat/                  *)
(* subagent_async.go, subagenttool.go) and the accumulator that carries     *)
(* their tokens into the next entry of the query log (usageacc.go,          *)
(* querylog.go).  Groups and accumulators are objects in a concurrent map:  *)
(* looking one up and using it are two steps.  How results reach the        *)
(* conversation is modelled in ChatSession.                                 *)
(***************************************************************************)
EXTENDS Naturals

CONSTANTS Subs,
          MaxTurns,    \* bound: turns of the conversation
          MaxStops     \* bound: /stop commands

\* What the constants are; instances assume it.
AsyncAssumption == MaxTurns \in Nat /\ MaxStops \in Nat

\* Objects made by LoadOrStore; 0 stands for none.
Groups == 1..(MaxStops + 1)
Accs   == 1..(MaxTurns + 1)

VARIABLES
  group,    \* the session's group in the map
  groups,   \* groups made so far
  entries,  \* entries[g]: subagents listed in group g
  sub,      \* the step of each subagent
  mine,     \* the group each subagent has looked up
  canceled, \* subagents whose context is cancelled
  acc, accs, \* the accumulator in the map, those made so far
  tokens,   \* tokens[c]: the subagents whose tokens are in accumulator c
  held,     \* the accumulator each subagent has looked up
  billed,   \* the subagents whose tokens have entered the query log
  turn,     \* the step of the conversation
  taken,    \* the accumulator the turn has taken out of the map
  stop,     \* the step of /stop
  victim,   \* the group /stop has taken out of the map
  turns, stops

vars == <<group, groups, entries, sub, mine, canceled, acc, accs, tokens, held, billed,
          turn, taken, stop, victim, turns, stops>>
launchVars == <<group, groups, entries, mine>>
usageVars  == <<acc, accs, tokens, held, billed, taken>>

\* The life of a subagent, as its launcher and then its own goroutine see it.
SubPCs == {"none", "found", "added", "running", "used", "adding", "ended", "removed"}

Init ==
  /\ group = 0 /\ groups = 0 /\ entries = [g \in Groups |-> {}]
  /\ sub = [s \in Subs |-> "none"] /\ mine = [s \in Subs |-> 0] /\ canceled = {}
  /\ acc = 0 /\ accs = 0 /\ tokens = [c \in Accs |-> {}]
  /\ held = [s \in Subs |-> 0] /\ billed = {}
  /\ turn = "idle" /\ taken = 0 /\ stop = "idle" /\ victim = 0
  /\ turns = 0 /\ stops = 0
-------------------------------------------------------------------------------
Goto(s, l) == sub' = [sub EXCEPT ![s] = l]

\* LoadOrStore: the group of the session, made if there is none.
GetGroup ==
  /\ group' = IF group = 0 THEN groups + 1 ELSE group
  /\ groups' = IF group = 0 THEN groups + 1 ELSE groups

BeginTurn ==
  /\ turn = "idle" /\ turns < MaxTurns
  /\ turn' = "run" /\ turns' = turns + 1
  /\ UNCHANGED <<launchVars, sub, canceled, usageVars, stop, victim, stops>>

\* launchAsyncSubagent, called by a tool of the turn: look up the group ...
Launch(s) ==
  /\ sub[s] = "none" /\ turn = "run"
  /\ GetGroup /\ mine' = [mine EXCEPT ![s] = group'] /\ Goto(s, "found")
  /\ UNCHANGED <<entries, canceled, usageVars, turn, stop, victim, turns, stops>>

\* ... and enter the subagent, with its goroutine.
Add(s) ==
  /\ sub[s] = "found" /\ Goto(s, "added")
  /\ entries' = [entries EXCEPT ![mine[s]] = @ \cup {s}]
  /\ UNCHANGED <<group, groups, mine, canceled, usageVars, turn, stop, victim, turns, stops>>

\* The goroutine begins: the receiver of the deferred remove is looked up now.
Start(s) ==
  /\ sub[s] = "added"
  /\ GetGroup /\ mine' = [mine EXCEPT ![s] = group'] /\ Goto(s, "running")
  /\ UNCHANGED <<entries, canceled, usageVars, turn, stop, victim, turns, stops>>

\* runSubagent returns, cancelled or not.  One that used no token, or panicked, has
\* nothing to add.
Run(s) ==
  /\ sub[s] = "running"
  /\ Goto(s, "used") \/ Goto(s, "ended")
  /\ UNCHANGED <<launchVars, canceled, usageVars, turn, stop, victim, turns, stops>>

\* addExtraUsage: LoadOrStore ...
FindAcc(s) ==
  /\ sub[s] = "used" /\ Goto(s, "adding")
  /\ acc' = IF acc = 0 THEN accs + 1 ELSE acc
  /\ accs' = IF acc = 0 THEN accs + 1 ELSE accs
  /\ held' = [held EXCEPT ![s] = acc']
  /\ UNCHANGED <<launchVars, canceled, tokens, billed, taken, turn, stop, victim, turns, stops>>

\* ... and add.
AddUsage(s) ==
  /\ sub[s] = "adding" /\ Goto(s, "ended")
  /\ tokens' = [tokens EXCEPT ![held[s]] = @ \cup {s}]
  /\ UNCHANGED <<launchVars, canceled, acc, accs, held, billed, taken>>
  /\ UNCHANGED <<turn, stop, victim, turns, stops>>

\* Mutant: the entry stays when the subagent has been cancelled.
RemoveUnlessCanceled(s) ==
  /\ sub[s] = "ended" /\ Goto(s, "removed")
  /\ entries' = IF s \in canceled THEN entries ELSE [entries EXCEPT ![mine[s]] = @ \ {s}]
  /\ UNCHANGED <<group, groups, mine, canceled, usageVars, turn, stop, victim, turns, stops>>

\* The result has been delivered or dropped: the deferred remove.
Remove(s) ==
  /\ sub[s] = "ended" /\ Goto(s, "removed")
  /\ entries' = [entries EXCEPT ![mine[s]] = @ \ {s}]
  /\ UNCHANGED <<group, groups, mine, canceled, usageVars, turn, stop, victim, turns, stops>>

\* subagent_list, a tool of the turn, makes the group it shows if there is none.
List ==
  /\ turn = "run" /\ group = 0 /\ GetGroup
  /\ UNCHANGED <<entries, mine, sub, canceled, usageVars, turn, stop, victim, turns, stops>>

\* subagent_cancel, a tool of the turn, by the id of a listed subagent.
CancelOne(s) ==
  /\ turn = "run" /\ group # 0 /\ s \in entries[group] /\ s \notin canceled
  /\ canceled' = canceled \cup {s}
  /\ UNCHANGED <<launchVars, sub, usageVars, turn, stop, victim, turns, stops>>

\* The tools of the turn have returned.
ToolsDone == turn = "run" /\ \A s \in Subs : sub[s] # "found"

\* A panic of the turn: finishQuery is not called.
Panic ==
  /\ ToolsDone /\ turn' = "idle"
  /\ UNCHANGED <<launchVars, sub, canceled, usageVars, stop, victim, turns, stops>>

\* finishQuery of the turn takes the accumulator out of the map ...
TakeAcc ==
  /\ ToolsDone /\ turn' = "bill" /\ taken' = acc /\ acc' = 0
  /\ UNCHANGED <<launchVars, sub, canceled, accs, tokens, held, billed, stop, victim, turns, stops>>

\* ... and bills what is in it.
Bill ==
  /\ turn = "bill" /\ turn' = "idle" /\ taken' = 0
  /\ billed' = billed \cup (IF taken = 0 THEN {} ELSE tokens[taken])
  /\ tokens' = [c \in Accs |-> IF c = taken THEN {} ELSE tokens[c]]
  /\ UNCHANGED <<launchVars, sub, canceled, acc, accs, held, stop, victim, turns, stops>>

\* /stop, cancelAsyncSubagents: the group leaves the map ...
Stop ==
  /\ stop = "idle" /\ stops < MaxStops /\ stops' = stops + 1
  /\ victim' = group /\ group' = 0
  /\ stop' = "cancel"
  /\ UNCHANGED <<groups, entries, mine, sub, canceled, usageVars, turn, turns>>

\* ... and everything in it is cancelled.
CancelAll ==
  /\ stop = "cancel" /\ stop' = "idle" /\ victim' = 0
  /\ IF victim = 0 THEN UNCHANGED <<canceled, entries>>
     ELSE /\ canceled' = canceled \cup entries[victim]
          /\ entries' = [entries EXCEPT ![victim] = {}]
  /\ UNCHANGED <<group, groups, mine, sub, usageVars, turn, turns, stops>>

Goroutine(s) == Start(s) \/ Run(s) \/ FindAcc(s) \/ AddUsage(s) \/ Remove(s)

Next ==
  \/ \E s \in Subs : Launch(s) \/ Add(s) \/ Goroutine(s) \/ CancelOne(s)
  \/ List \/ BeginTurn \/ Panic \/ TakeAcc \/ Bill \/ Stop \/ CancelAll

Spec == Init /\ [][Next]_vars
-------------------------------------------------------------------------------
TypeOK ==
  /\ group \in {0} \cup Groups /\ groups \in 0..(MaxStops + 1)
  /\ entries \in [Groups -> SUBSET Subs]
  /\ sub \in [Subs -> SubPCs] /\ mine \in [Subs -> {0} \cup Groups]
  /\ canceled \subseteq Subs
  /\ acc \in {0} \cup Accs /\ accs \in 0..(MaxTurns + 1)
  /\ tokens \in [Accs -> SUBSET Subs] /\ held \in [Subs -> {0} \cup Accs]
  /\ billed \subseteq Subs
  /\ turn \in {"idle", "run", "bill"} /\ taken \in {0} \cup Accs
  /\ stop \in {"idle", "cancel"} /\ victim \in {0} \cup Groups
  /\ turns \in 0..MaxTurns /\ stops \in 0..MaxStops

Working(s) == sub[s] \in {"added", "running", "used", "adding", "ended"}

\* What subagent_list shows is really running: no lookup that raced with /stop leaves
\* the entry of a subagent that has ended behind.
ListedIsRunning == group # 0 => \A s \in entries[group] : Working(s)

\* No token is billed twice, whatever turn and subagents do at the same time: what is in
\* the log is in no accumulator any more, and nothing is in two of them.
NothingBilledTwice ==
  \A c \in Accs :
    /\ tokens[c] \cap billed = {}
    /\ \A d \in Accs \ {c} : tokens[c] \cap tokens[d] = {}

\* Claim of listRunningSubagents and cancelAsyncSubagents: every running subagent
\* of the session that has not been cancelled is listed, so that it can be.
RunningIsListed ==
  stop = "idle" => \A s \in Subs : Working(s) /\ s \notin canceled => group # 0 /\ s \in entries[group]

\* Claim of usageacc.go: the tokens of a subagent enter one of the next log entries;
\* until then they are in an accumulator a turn will take.
UsageIsKept ==
  turn # "bill" => billed \cup (IF acc = 0 THEN {} ELSE tokens[acc]) =
                      {s \in Subs : held[s] # 0 /\ sub[s] # "adding"}
================================================================================
