------------------------------- MODULE PluginUnload -------------------------------
(***************************************************************************)
(* The unload hooks of the plugins (core/unload.go) and the ways into them: *)
(* the restart of the process (sysrestart, unix), /exit (AniaBot.Stop) and  *)
(* the removal of one plugin by the marketplace (UnloadPlugin).  Each way   *)
(* runs in a goroutine of its own; restarts exclude each other.             *)
(***************************************************************************)
EXTENDS Naturals, Sequences

CONSTANTS Plugins,    \* number of plugins with an unload hook, in starting order
          Restarts,   \* requests to restart: /reboot, panel, update, marketplace
          Exits,      \* /exit commands
          Removals,   \* removals by the marketplace
          Target,     \* the plugin of each removal
          Hanging,    \* plugins whose hook never returns
          ExecFails   \* replacing the process may fail

Hooks    == 1..Plugins
Actors   == Restarts \cup Exits \cup Removals

\* What the constants are; instances assume it.
UnloadAssumption ==
  /\ Plugins \in Nat
  /\ Restarts \cap Exits = {} /\ (Restarts \cup Exits) \cap Removals = {}
  /\ Target \in [Removals -> Hooks]
  /\ Hanging \subseteq Hooks /\ ExecFails \in BOOLEAN

VARIABLES marked,   \* unloadedPlugins
          calls,    \* the hooks called so far, in order, with the reason
          running,  \* plugins whose hook has not returned
          mutex,    \* restartMu: the set of its holder
          started,  \* restartStarted
          pc, at,   \* each actor's step and its place in the sweep
          ended     \* the process is gone

vars == <<marked, calls, running, mutex, started, pc, at, ended>>

Init ==
  /\ marked = {} /\ calls = <<>> /\ running = {}
  /\ mutex = {} /\ started = FALSE /\ ended = FALSE
  /\ pc = [a \in Actors |-> "idle"]
  /\ at = [a \in Actors |-> 0]
-------------------------------------------------------------------------------
Goto(a, l) == pc' = [pc EXCEPT ![a] = l]

\* The plugin an actor is at: a sweep goes from the last plugin to the first.
Current(a) == IF a \in Removals THEN Target[a] ELSE at[a]
Reason(a)  == IF a \in Removals THEN "uninstall" ELSE "shutdown"

Request(a) ==
  /\ pc[a] = "idle"
  /\ IF a \in Restarts THEN Goto(a, "lock") /\ UNCHANGED at
     ELSE Goto(a, "mark") /\ at' = [at EXCEPT ![a] = Plugins]
  /\ UNCHANGED <<marked, calls, running, mutex, started>>

\* sysrestart.Self: a second request finds the first one under way and gives up.
Lock(a) ==
  /\ pc[a] = "lock" /\ mutex = {}
  /\ IF started THEN Goto(a, "done") /\ UNCHANGED <<mutex, started, at>>
     ELSE /\ mutex' = {a} /\ started' = TRUE
          /\ Goto(a, "mark") /\ at' = [at EXCEPT ![a] = Plugins]
  /\ UNCHANGED <<marked, calls, running>>

\* What follows once the hook of the current plugin has been dealt with.
Advance(a) ==
  IF a \in Removals THEN Goto(a, "removed") /\ UNCHANGED at
  ELSE Goto(a, "mark") /\ at' = [at EXCEPT ![a] = @ - 1]

\* markUnloaded, under the mutex of the marks: the first one calls the hook.
Mark(a) ==
  /\ pc[a] = "mark" /\ at[a] > 0
  /\ IF Current(a) \in marked THEN Advance(a) /\ UNCHANGED marked
     ELSE marked' = marked \cup {Current(a)} /\ Goto(a, "call") /\ UNCHANGED at
  /\ UNCHANGED <<calls, running, mutex, started>>

Call(a) ==
  /\ pc[a] = "call" /\ Goto(a, "hook")
  /\ calls' = Append(calls, [plugin |-> Current(a), reason |-> Reason(a)])
  /\ running' = running \cup {Current(a)}
  /\ UNCHANGED <<marked, mutex, started, at>>

\* The hook returns, with an error or a panic too; nobody takes it from a hook that
\* does not.
Return(a) ==
  /\ pc[a] = "hook" /\ Current(a) \notin Hanging
  /\ running' = running \ {Current(a)} /\ Advance(a)
  /\ UNCHANGED <<marked, calls, mutex, started>>

\* Mutant: the sweep stops one plugin early.
SweptEarly(a) ==
  /\ pc[a] = "mark" /\ a \notin Removals /\ at[a] <= 1
  /\ ended' = TRUE
  /\ UNCHANGED <<marked, calls, running, mutex, started, pc, at>>

\* Mutant: a restart that failed keeps the mutex.
SweptLocked(a) ==
  /\ pc[a] = "mark" /\ at[a] = 0
  /\ \/ ended' = TRUE /\ UNCHANGED <<mutex, started, pc>>
     \/ /\ a \in Restarts /\ ExecFails
        /\ started' = FALSE /\ Goto(a, "done") /\ UNCHANGED <<mutex, ended>>
  /\ UNCHANGED <<marked, calls, running, at>>

\* The end of a sweep: the process ends or is replaced; if that fails it goes on as
\* if nothing had happened.
Swept(a) ==
  /\ pc[a] = "mark" /\ at[a] = 0
  /\ \/ ended' = TRUE /\ UNCHANGED <<mutex, started, pc>>
     \/ /\ a \in Restarts /\ ExecFails
        /\ mutex' = {} /\ started' = FALSE /\ Goto(a, "done") /\ UNCHANGED ended
  /\ UNCHANGED <<marked, calls, running, at>>

Step(a) == (Lock(a) \/ Mark(a) \/ Call(a) \/ Return(a)) /\ UNCHANGED ended

Next == ~ended /\ \E a \in Actors :
          (Request(a) /\ UNCHANGED ended) \/ Step(a) \/ Swept(a)

Spec == Init /\ [][Next]_vars

\* The goroutines go on; restartMu is fair to those who wait for it.
FairSpec == Spec /\ \A a \in Actors : SF_vars(~ended /\ (Step(a) \/ Swept(a)))
-------------------------------------------------------------------------------
TypeOK ==
  /\ marked \subseteq Hooks /\ running \subseteq marked
  /\ calls \in Seq([plugin : Hooks, reason : {"shutdown", "uninstall"}])
  /\ mutex \subseteq Restarts /\ \A a, b \in mutex : a = b
  /\ started \in BOOLEAN /\ ended \in BOOLEAN
  /\ pc \in [Actors -> {"idle", "lock", "mark", "call", "hook", "removed", "done"}]
  /\ at \in [Actors -> 0..Plugins]

\* Whatever restarts, exits, removals and failed restarts meet, no hook is called
\* twice in a process.
HookOnce ==
  \A i, j \in DOMAIN calls : calls[i].plugin = calls[j].plugin => i = j

\* Neither /exit nor a removal has come yet.
OnlyRestarts == \A a \in Exits \cup Removals : pc[a] = "idle"

\* The process does not end before every hook has been called and has returned.
CleanedBeforeEnd ==
  ended => running = {} /\ \A p \in Hooks :
             \E i \in DOMAIN calls : calls[i].plugin = p

\* Plugins are shut down in the reverse order of their start.
ReverseOrder ==
  \A i, j \in DOMAIN calls :
    /\ calls[i].reason = "shutdown" /\ calls[j].reason = "shutdown" /\ i < j
    => calls[i].plugin > calls[j].plugin

\* Claim of the marketplace guide: a plugin that is removed has been told so.
RemovalIsTold ==
  \A a \in Removals : pc[a] = "removed" =>
    \E i \in DOMAIN calls : calls[i] = [plugin |-> Target[a], reason |-> "uninstall"]

\* Every request comes to its end, unless the process ends first.
RequestsEnd ==
  \A a \in Actors : pc[a] # "idle" ~> (ended \/ pc[a] \in {"removed", "done"})
================================================================================
