---------------------------------- MODULE Core ----------------------------------
(***************************************************************************)
(* Two parts of the core: the dispatch of events and the unload hooks of    *)
(* the plugins.  They share no variable of the code, so a behaviour is      *)
(* about one of them, the scenario, and the variables of the other keep     *)
(* their initial values.                                                    *)
(***************************************************************************)
EXTENDS Naturals, Sequences, FiniteSets

CONSTANTS Deliveries, EventOf, Keyless, FromSelf, Notices,   \* of EventDispatch
          Plugins, Deaf, Environments,
          Hooked, Restarts, Exits, Removals, Target,          \* of PluginUnload
          Hanging, ExecFails

VARIABLES scenario,
          env, keys, up, pc, seen, crashes,
          marked, calls, running, mutex, started, step, at, ended

dispatchVars == <<env, keys, up, pc, seen, crashes>>
unloadVars   == <<marked, calls, running, mutex, started, step, at, ended>>
vars == <<scenario, dispatchVars, unloadVars>>

Dispatch == INSTANCE EventDispatch
Unload   == INSTANCE PluginUnload WITH Plugins <- Hooked, pc <- step

ASSUME CoreAssumption == Dispatch!DispatchAssumption /\ Unload!UnloadAssumption
-------------------------------------------------------------------------------
Init == /\ scenario \in {"dispatch", "unload"}
        /\ Dispatch!Init /\ Unload!Init

\* A step of the scenario's component, with what the other one leaves alone.
InDispatch(A) == scenario = "dispatch" /\ A /\ UNCHANGED <<scenario, unloadVars>>
InUnload(A)   == scenario = "unload" /\ A /\ UNCHANGED <<scenario, dispatchVars>>

Next == InDispatch(Dispatch!Next) \/ InUnload(Unload!Next)

\* The goroutines of the restarts go on, and so do those that wait for restartMu; and
\* those of the deliveries, as in FairSpec of either module.
Restarting(a) == InUnload(~ended /\ (Unload!Step(a) \/ Unload!Swept(a)))
Delivering(d) == InDispatch(UNCHANGED env /\ Dispatch!Step(d))

Spec == /\ Init /\ [][Next]_vars
        /\ \A a \in Restarts : SF_vars(Restarting(a))
        /\ \A d \in Deliveries : WF_vars(Delivering(d))
-------------------------------------------------------------------------------
\* The variables have the values they are declared for.
TypeOK == Dispatch!TypeOK /\ Unload!TypeOK

\* dedup.go, core.go, execute.go: with a store that can be reached and keeps its keys the
\* plugins see an event with a key once, however many deliveries run at the same time, and
\* with a server even across a crash and lost replies; whatever the store does, nothing but
\* a plugin that keeps a message cuts the chain short; and as long as no reply is lost and
\* the process lives, a delivery is dropped only when another one of its event is handled.
DispatchedOnceAndWhole ==
  /\ TypeOK
  /\ Dispatch!HandledOnce
  /\ Dispatch!ChainIsComplete
  /\ ~env.lost /\ env.crashes = 0 => Dispatch!NeverSwallowed

\* unload.go, restart_unix.go: no hook is called twice, whatever restarts, exits and
\* removals meet; with restarts only, all hooks have been called and have returned
\* before the process is replaced, in the reverse order of the start.
HooksRunOnceInOrder ==
  /\ Unload!HookOnce
  /\ Unload!OnlyRestarts => Unload!CleanedBeforeEnd /\ Unload!ReverseOrder

\* restart_unix.go: every request to restart ends, whichever fails and whatever it meets;
\* dedup.go, core.go: of the deliveries of an event one goes through the chain to its end.
Waiting(a) == scenario = "unload" /\ step[a] \in {"lock", "mark", "call", "hook"} /\ ~ended
EverythingEnds == /\ \A a \in Restarts : Waiting(a) ~> ~Waiting(a)
                  /\ scenario = "dispatch" => Dispatch!EventsAreHandled
================================================================================
