----------------------------- MODULE ClockSubagents -----------------------------
(***************************************************************************)
(* One execution of a scheduled task (executeTask in pluginaichat/clock.go)*)
(* whose AI delegates work to background subagents (clocksubagent.go): the *)
(* chat rounds, the wait for the subagents, the rounds that feed their     *)
(* results back, and the accounting of their token usage.                  *)
(*                                                                         *)
(* The execution is one goroutine and each subagent another one.  Time is  *)
(* only what the code compares it with: more than the reserve is left of   *)
(* the task's budget ("ample"), less ("reserve"), or nothing ("over").     *)
(***************************************************************************)
EXTENDS Naturals

CONSTANTS Subs,       \* subagents the AI may launch
          MaxRounds   \* clockSubagentMaxRounds (5 in the code)

\* What the constants are; instances assume it.
SubagentAssumption == MaxRounds \in Nat

VARIABLES pc,       \* control point of executeTask and drainClockSubagents
          time,
          st,       \* where each subagent is
          canceled, \* subagents whose context was cancelled on purpose
          round,    \* feedback rounds so far
          report,   \* subagents in the report of the current round
          read,     \* subagents whose results the AI has worked into an answer
          extra,    \* subagents whose usage is in the accumulator
          billed,   \* subagents whose usage was merged into the task's
          gaveUp    \* history: an error or a limit ended the waiting

vars == <<pc, time, st, canceled, round, report, read, extra, billed, gaveUp>>

\* running: the goroutine works; ended: its usage is accounted for, but it is
\* not marked as finished; finished: marked; collected: taken out of the set;
\* crashed: it panicked and will never be marked.
States == {"none", "running", "ended", "finished", "collected", "crashed"}

Init ==
  /\ pc = "chat" /\ time = "ample"
  /\ st = [s \in Subs |-> "none"]
  /\ canceled = {} /\ round = 0
  /\ report = {} /\ read = {} /\ extra = {} /\ billed = {}
  /\ gaveUp = FALSE
-------------------------------------------------------------------------------
In(S) == {s \in Subs : st[s] \in S}

\* hasPending: entries that are not finished.
Pending == In({"running", "ended", "crashed"})

\* cancelPending; deferred in executeTask, so it also runs on every return.
CancelPending == canceled' = canceled \cup Pending

\* The budget passes.
Tick ==
  /\ time # "over"
  /\ time' = IF time = "ample" THEN "reserve" ELSE "over"
  /\ UNCHANGED <<pc, st, canceled, round, report, read, extra, billed, gaveUp>>

\* subagent_run during a chat round: refused if only the reserve is left.
Launch(s) ==
  /\ pc \in {"chat", "feed"} /\ time = "ample" /\ st[s] = "none"
  /\ st' = [st EXCEPT ![s] = "running"]
  /\ UNCHANGED <<pc, time, canceled, round, report, read, extra, billed, gaveUp>>

\* subagent_cancel during a chat round.
CancelOne(s) ==
  /\ pc \in {"chat", "feed"} /\ s \in Pending
  /\ canceled' = canceled \cup {s}
  /\ UNCHANGED <<pc, time, st, round, report, read, extra, billed, gaveUp>>

\* runSubagent returns, with a result, an error or because it was cancelled.
SubReturns(s) ==
  /\ st[s] = "running"
  /\ st' = [st EXCEPT ![s] = "ended"]
  /\ extra' = extra \cup {s}
  /\ UNCHANGED <<pc, time, canceled, round, report, read, billed, gaveUp>>

\* runSubagent panics; the goroutine's recover keeps the process alive.
SubPanics(s) ==
  /\ st[s] = "running"
  /\ st' = [st EXCEPT ![s] = "crashed"]
  /\ UNCHANGED <<pc, time, canceled, round, report, read, extra, billed, gaveUp>>

\* markFinished.
MarkFinished(s) ==
  /\ st[s] = "ended"
  /\ st' = [st EXCEPT ![s] = "finished"]
  /\ UNCHANGED <<pc, time, canceled, round, report, read, extra, billed, gaveUp>>
-------------------------------------------------------------------------------
\* The first chat round answers; subagents that are still pending are awaited.
ChatReturns ==
  /\ pc = "chat"
  /\ pc' = IF Pending # {} THEN "loop" ELSE "take"
  /\ UNCHANGED <<time, st, canceled, round, report, read, extra, billed, gaveUp>>

\* The chat fails or the budget is over: no reply, the usage so far is billed.
ChatFails ==
  /\ pc = "chat" /\ pc' = "done"
  /\ gaveUp' = TRUE
  /\ billed' = extra
  /\ CancelPending
  /\ UNCHANGED <<time, st, round, report, read, extra>>

\* The loop condition of drainClockSubagents.
Loop ==
  /\ pc = "loop"
  /\ pc' = IF round < MaxRounds /\ Pending # {} THEN "wait" ELSE "last"
  /\ gaveUp' = (gaveUp \/ (round = MaxRounds /\ Pending # {}))
  /\ UNCHANGED <<time, st, canceled, round, report, read, extra, billed>>

\* waitAll returns when all are finished or only the reserve is left.
Wait ==
  /\ pc = "wait" /\ pc' = "collect"
  /\ Pending = {} \/ time # "ample"
  /\ UNCHANGED <<time, st, canceled, round, report, read, extra, billed, gaveUp>>

\* collectFinished: nothing came in time, or there is a report to feed back.
Collect ==
  /\ pc = "collect"
  /\ report' = In({"finished"})
  /\ st' = [s \in Subs |-> IF st[s] = "finished" THEN "collected" ELSE st[s]]
  /\ IF report' = {} THEN pc' = "last" /\ CancelPending
                     ELSE pc' = "feed" /\ UNCHANGED canceled
  /\ gaveUp' = (gaveUp \/ time # "ample")
  /\ UNCHANGED <<time, round, read, extra, billed>>

\* The AI answers the report; its new answer replaces the last one.
FeedReturns ==
  /\ pc = "feed" /\ pc' = "loop"
  /\ round' = round + 1
  /\ read' = read \cup report /\ report' = {}
  /\ UNCHANGED <<time, st, canceled, extra, billed, gaveUp>>

\* The feedback round fails: the last answer stays.
FeedFails ==
  /\ pc = "feed" /\ pc' = "last"
  /\ gaveUp' = TRUE /\ report' = {}
  /\ UNCHANGED <<time, st, canceled, round, read, extra, billed>>

\* After the loop whatever still runs is cancelled.
Last ==
  /\ pc = "last" /\ pc' = "take"
  /\ CancelPending
  /\ UNCHANGED <<time, st, round, report, read, extra, billed, gaveUp>>

\* extra.take, the reply is sent, and executeTask returns.
Take ==
  /\ pc = "take" /\ pc' = "done"
  /\ billed' = extra
  /\ CancelPending
  /\ UNCHANGED <<time, st, round, report, read, extra, gaveUp>>

Sub(s) == SubReturns(s) \/ SubPanics(s) \/ MarkFinished(s)
Execution == \/ ChatReturns \/ ChatFails \/ Loop \/ Wait \/ Collect
             \/ FeedReturns \/ FeedFails \/ Last \/ Take

Next == \/ Tick \/ Execution
        \/ \E s \in Subs : Launch(s) \/ CancelOne(s) \/ Sub(s)

Spec == Init /\ [][Next]_vars

\* Time passes and the execution's goroutine goes on; a chat round ends at the
\* latest with an error when the context expires.  Nothing is assumed of the
\* subagents: one may hang or panic.
FairSpec == Spec /\ WF_vars(Tick) /\ WF_vars(Execution)
-------------------------------------------------------------------------------
TypeOK ==
  /\ pc \in {"chat", "loop", "wait", "collect", "feed", "last", "take", "done"}
  /\ time \in {"ample", "reserve", "over"}
  /\ st \in [Subs -> States]
  /\ canceled \subseteq Subs /\ round \in 0..MaxRounds
  /\ report \subseteq Subs /\ read \subseteq Subs
  /\ extra \subseteq Subs /\ billed \subseteq Subs
  /\ gaveUp \in BOOLEAN

\* When the execution is over, every subagent that still works was cancelled:
\* none keeps spending tokens for a task that has ended.
NoneIsLeftRunning ==
  pc = "done" => \A s \in Subs : st[s] = "running" => s \in canceled

\* The reply goes out while a subagent is pending only if the chat failed, the
\* budget or the rounds ran out: the wait is not cut short otherwise.
RepliesWhenAllAreDone ==
  pc = "done" /\ ~gaveUp => Pending = {}

\* A result that was reported to the AI has also been paid for: the usage of a
\* collected subagent is in the task's log and quota.
ReportedIsBilled ==
  pc = "done" => In({"collected"}) \subseteq billed

\* Claim of the tool's description and of clocksubagent.go: the results of all
\* subagents are reported to the AI before the final reply.
AllResultsAreReported ==
  pc = "done" /\ ~gaveUp => In({"finished"}) = {}

\* The execution ends, whatever the subagents do.
TaskEnds == <>(pc = "done")
================================================================================
