---------------------------------- MODULE Quota ----------------------------------
(***************************************************************************)
(* The daily token quota (pluginaichat/quota.go) as its callers use it: a   *)
(* request checks it, runs, and adds what it used; a conversation's own     *)
(* requests come one after the other, its subagents and scheduled tasks     *)
(* beside them.  Counters are read and written one by one in a store that   *)
(* outlives the process; a read that fails is taken for 0, a write that      *)
(* fails is logged.                                                         *)
(***************************************************************************)
EXTENDS Integers, FiniteSets

CONSTANTS Sessions,
          Requests,   \* requests and tasks, each with its session
          SessionOf,
          Checked,    \* those that check the quota first: all but subagents (subagent_async.go:143)
          Serial,     \* those serialised by the session's lock
          Cost,       \* Cost[r]: tokens it uses; 0 when the provider reports none
          DailyLimit, GlobalLimit, \* 0 is no limit
          Days,       \* the days, 1..n
          KeepDays,   \* of pruneOld
          Faults,     \* what of the store may fail: "writes", "reads"
          MaxResets, MaxCrashes

Scopes == Sessions \cup {"global"}
None   == "none"

QuotaAssumption ==
  /\ IsFiniteSet(Requests) /\ SessionOf \in [Requests -> Sessions] /\ Cost \in [Requests -> Nat]
  /\ Checked \cup Serial \subseteq Requests /\ "global" \notin Sessions /\ None \notin Requests
  /\ {DailyLimit, GlobalLimit, KeepDays, MaxResets, MaxCrashes} \subseteq Nat /\ Days \in Nat \ {0}
  /\ Faults \subseteq {"writes", "reads"}

VARIABLES day,
          count,   \* count[d][k]: the stored counters
          step,    \* step[r] of every request
          half,    \* the request that has counted for its session and not yet for all
          used,    \* used[d][k]: what has really been used and added since the last reset
          opened,  \* opened[r]: what had really been used when its check let r through
          lost,    \* tokens whose second counter was lost in a crash
          resets, crashes

vars == <<day, count, step, half, used, opened, lost, resets, crashes>>

Init ==
  /\ day = 1 /\ count = [d \in 1..Days |-> [k \in Scopes |-> 0]] /\ used = count
  /\ step = [r \in Requests |-> "new"] /\ half = None /\ lost = 0
  /\ opened = [r \in Requests |-> [own |-> 0, global |-> 0]]
  /\ resets = 0 /\ crashes = 0

Free(r) == r \in Serial => \A q \in Serial \ {r} : SessionOf[q] = SessionOf[r] => step[q] # "runs"

\* readLocked: what is read of a counter today.
Seen(k) == {count[day][k]} \cup IF "reads" \in Faults THEN {0} ELSE {}
\* incrLocked.
Counted(k, delta) ==
  \/ \E seen \in Seen(k) : count' = [count EXCEPT ![day][k] = seen + delta]
  \/ "writes" \in Faults /\ UNCHANGED count

Denied(own, global) == \/ DailyLimit > 0 /\ own >= DailyLimit
                       \/ GlobalLimit > 0 /\ global >= GlobalLimit

\* Check, under the manager's lock like every call: not while another one counts.
Check(r) ==
  /\ step[r] = "new" /\ Free(r) /\ half = None
  /\ \E own \in Seen(SessionOf[r]), global \in Seen("global") :
       step' = [step EXCEPT ![r] = IF r \in Checked /\ Denied(own, global) THEN "denied" ELSE "runs"]
  /\ opened' = [opened EXCEPT ![r] = [own |-> used[day][SessionOf[r]], global |-> used[day]["global"]]]
  /\ UNCHANGED <<day, count, half, used, lost, resets, crashes>>

\* Add on the day it ends: the session's counter, then everybody's.
CountSession(r) ==
  /\ step[r] = "runs" /\ half = None
  /\ IF Cost[r] = 0 THEN step' = [step EXCEPT ![r] = "done"] /\ UNCHANGED <<count, used, half>>
     ELSE /\ Counted(SessionOf[r], Cost[r])
          /\ used' = [used EXCEPT ![day][SessionOf[r]] = @ + Cost[r], ![day]["global"] = @ + Cost[r]]
          /\ half' = r /\ UNCHANGED step
  /\ UNCHANGED <<day, opened, lost, resets, crashes>>

CountGlobal(r) ==
  /\ half = r /\ half' = None /\ step' = [step EXCEPT ![r] = "done"]
  /\ Counted("global", Cost[r])
  /\ UNCHANGED <<day, used, opened, lost, resets, crashes>>

\* Mutant: without the manager's lock, so also while a request has counted for its session only.
ResetUnlocked(scope) ==
  /\ resets < MaxResets /\ resets' = resets + 1
  /\ LET gone == IF scope = "all" THEN Scopes ELSE {scope} IN
     /\ count' = [count EXCEPT ![day] = [k \in Scopes |-> IF k \in gone THEN 0 ELSE @[k]]]
     /\ used'  = [used EXCEPT ![day] = [k \in Scopes |-> IF k \in gone THEN 0 ELSE @[k]]]
  /\ UNCHANGED <<day, step, half, opened, lost, crashes>>

\* What a deletion of them deletes; it may have to list them first.
Deleted(all, listed, gone) ==
  /\ gone \subseteq all
  /\ \/ gone = all \/ "writes" \in Faults
     \/ listed /\ gone = {} /\ "reads" \in Faults

\* Reset from the panel: the day's counters, or one session's; the counter of all then keeps
\* it.  Of those it does not delete, or does not even list, nobody but the log is told.
Reset(scope) ==
  /\ half = None /\ resets < MaxResets /\ resets' = resets + 1
  /\ \E gone \in SUBSET Scopes :
       /\ Deleted(IF scope = "all" THEN Scopes ELSE {scope}, scope = "all", gone)
       /\ count' = [count EXCEPT ![day] = [k \in Scopes |-> IF k \in gone THEN 0 ELSE @[k]]]
       /\ used'  = [used EXCEPT ![day] = [k \in Scopes |-> IF k \in gone THEN 0 ELSE @[k]]]
  /\ UNCHANGED <<day, step, half, opened, lost, crashes>>

\* pruneOld, when the program starts: what it does not delete stays.
Old == {d \in 1..Days : d < day - KeepDays}
Restart ==
  /\ crashes < MaxCrashes /\ crashes' = crashes + 1
  /\ step' = [r \in Requests |-> IF step[r] = "runs" THEN "killed" ELSE step[r]]
  /\ half' = None /\ lost' = IF half = None THEN lost ELSE lost + Cost[half]
  /\ \E gone \in SUBSET (Old \X Scopes) :
       /\ Deleted(Old \X Scopes, TRUE, gone)
       /\ count' = [d \in 1..Days |-> [k \in Scopes |-> IF <<d, k>> \in gone THEN 0 ELSE count[d][k]]]
  /\ UNCHANGED <<day, used, opened, resets>>

Midnight == /\ half = None /\ day < Days /\ day' = day + 1
            /\ UNCHANGED <<count, step, half, used, opened, lost, resets, crashes>>

Next == Restart \/ Midnight \/ (\E s \in Sessions \cup {"all"} : Reset(s))
        \/ \E r \in Requests : Check(r) \/ CountSession(r) \/ CountGlobal(r)
Spec == Init /\ [][Next]_vars
-------------------------------------------------------------------------------
Counters == [1..Days -> [Scopes -> Nat]]
TypeOK ==
  /\ day \in 1..Days /\ half \in Requests \cup {None} /\ lost \in Nat
  /\ step \in [Requests -> {"new", "denied", "runs", "done", "killed"}]
  /\ opened \in [Requests -> [own : Nat, global : Nat]]
  /\ count \in Counters /\ used \in Counters

\* Nothing is counted that was not used, whatever fails: nobody is turned away before the day's
\* tokens are gone.  And while the store answers, of what was used only the counter of all can
\* miss any, by what a crash fell between (quota.go:76-93), of the days that are not pruned.
CountsAreUse ==
  \A d \in 1..Days :
    /\ \A k \in Scopes : count[d][k] <= used[d][k]
    /\ Faults = {} =>
         /\ d >= day - KeepDays => \A s \in Sessions : count[d][s] = used[d][s]
         /\ (d = day /\ half = None) => count[d]["global"] + lost >= used[d]["global"]

\* Whoever was let through came before the tokens were really gone, those included that were
\* being added meanwhile; a crash between the counters may hide some (quota.go:51, 85).
LetThroughBelow ==
  Faults = {} => \A r \in Checked : step[r] \in {"runs", "done", "killed"} =>
    /\ DailyLimit > 0 => opened[r].own < DailyLimit
    /\ GlobalLimit > 0 => opened[r].global < GlobalLimit + lost

\* A session whose requests are all checked and all behind its lock passes its limit by the
\* last of them only, whatever is reset or killed between (quota.go:26).
InOrder(s) == \A r \in Requests : SessionOf[r] = s => r \in Checked \cap Serial
PassedByTheLast ==
  (Faults = {} /\ DailyLimit > 0) => \A s \in Sessions : InOrder(s) =>
    \/ count[day][s] < DailyLimit
    \/ \E r \in Requests : SessionOf[r] = s /\ count[day][s] < DailyLimit + Cost[r]

\* Why these hold: while a request has counted for its session only, the counter of all
\* misses just its tokens and what was lost; nothing is counted for days to come; and while a
\* request runs that has the lock of its session, nobody else counts for that.
HalfIsRest ==
  half # None =>
    /\ step[half] = "runs"
    /\ count[day]["global"] + Cost[half] <= used[day]["global"]
    /\ Faults = {} => used[day]["global"] <= count[day]["global"] + Cost[half] + lost
FutureIsZero == \A d \in 1..Days : d > day => \A k \in Scopes : count[d][k] = 0 /\ used[d][k] = 0
OneRuns ==
  /\ \A q, r \in Serial : SessionOf[q] = SessionOf[r] /\ step[q] = "runs" /\ step[r] = "runs" => q = r
  /\ \A r \in Requests : (Faults = {} /\ InOrder(SessionOf[r]) /\ DailyLimit > 0
                           /\ step[r] = "runs" /\ half # r) => count[day][SessionOf[r]] < DailyLimit
IInv == /\ TypeOK /\ HalfIsRest /\ FutureIsZero /\ OneRuns
        /\ CountsAreUse /\ LetThroughBelow /\ PassedByTheLast
-------------------------------------------------------------------------------
(* Claims of the sources that do not hold of this model.                   *)

\* "No overdraft of a session" (quota.go:26): it is passed by its last request at most; but
\* scheduled tasks check beside the session's requests, and subagents do not check at all.
SessionIsNotOverdrawn ==
  DailyLimit > 0 => \A s \in Sessions :
    \/ count[day][s] < DailyLimit
    \/ \E r \in Requests : count[day][s] < DailyLimit + Cost[r]

\* "The counters are kept" (quota.go:23): what is added where the counter cannot be read
\* replaces it, and what cannot be written is missing from it.
UseIsCounted == half = None => \A s \in Sessions : count[day][s] = used[day][s]
===============================================================================
