------------------------------ MODULE EventDispatch ------------------------------
(***************************************************************************)
(* How the core takes the events of the platform adapters: onGroupEvent,   *)
(* onFriendEvent and broadcastNotice with the claim of the event's         *)
(* deduplication key (core/core.go, dedup.go, notice.go, execute.go).      *)
(*                                                                         *)
(* Platforms deliver at least once: an event has several deliveries, each  *)
(* in a goroutine of its adapter.  The keys live in the cache store: a map *)
(* of the process, or a redis server that outlives it, may be out of reach *)
(* and may execute a command whose reply gets lost (the client then sends  *)
(* it again).                                                              *)
(***************************************************************************)
EXTENDS Naturals, Sequences, FiniteSets

CONSTANTS Deliveries,  \* deliveries of events, with their goroutines
          EventOf,     \* the event of each delivery
          Keyless,     \* events without a deduplication key
          FromSelf,    \* messages of the bot itself
          Notices,     \* events that are broadcast: no plugin can stop them
          Plugins,     \* number of plugins, in the order of Meta.Order
          Deaf,        \* plugins that do not support the platform
          Environments \* what may happen around the core

Events == {EventOf[d] : d \in Deliveries}
Chain  == (1..Plugins) \ Deaf
ChainLength == Cardinality(Chain)

\* What the constants are; instances assume it.  In an environment only some deliveries
\* are made; the cache store is a redis server (remote) that may be out of reach (outages)
\* or whose replies may be lost (lost); a delivery may come after the key's ten minutes
\* (expire); and the process may crash so many times.
DispatchAssumption ==
  /\ Keyless \cup FromSelf \cup Notices \subseteq Events
  /\ FromSelf \cap Notices = {}
  /\ Plugins \in Nat
  /\ Environments \subseteq [made : SUBSET Deliveries, remote : BOOLEAN, outages : BOOLEAN,
                             lost : BOOLEAN, expire : BOOLEAN, crashes : Nat]
  /\ \A e \in Environments : e.outages \/ e.lost => e.remote

VARIABLES env,     \* the environment, the same throughout a behaviour
          keys,    \* events whose key is in the store
          up,      \* the store can be reached
          pc,      \* control point of each delivery
          seen,    \* seen[d]: what the plugins of the chain made of d so far
          crashes

vars == <<env, keys, up, pc, seen, crashes>>

\* lost: the process died with it; dropped: taken for a duplicate.
PCs == {"new", "claim", "check", "chain", "ignored", "dropped", "done", "lost"}

Init ==
  /\ env \in Environments
  /\ keys = {} /\ up = TRUE /\ crashes = 0
  /\ pc = [d \in Deliveries |-> "new"]
  /\ seen = [d \in Deliveries |-> <<>>]
-------------------------------------------------------------------------------
Goto(d, p) == pc' = [pc EXCEPT ![d] = p]

\* The adapter calls the trigger: the bot's own messages are ignored, events
\* without a key are not deduplicated.
Receive(d) ==
  /\ pc[d] = "new" /\ d \in env.made
  /\ Goto(d, CASE EventOf[d] \in FromSelf -> "ignored"
               [] EventOf[d] \in Keyless \ FromSelf -> "chain"
               [] OTHER -> "claim")
  /\ UNCHANGED <<keys, up, seen, crashes>>

\* Mutant: the claim does not look for an existing key.
ClaimBlindly(d) ==
  /\ pc[d] = "claim" /\ keys' = keys \cup {EventOf[d]}
  /\ Goto(d, "chain")
  /\ UNCHANGED <<up, seen, crashes>>

\* tryClaimEvent: SetString with WithCheckExist, SET NX on the server.
Claim(d) ==
  /\ pc[d] = "claim"
  /\ \/ /\ up /\ EventOf[d] \notin keys
        /\ keys' = keys \cup {EventOf[d]} /\ Goto(d, "chain")
     \/ /\ ~up \/ EventOf[d] \in keys
        /\ keys' = keys /\ Goto(d, "check")
     \/ /\ env.lost /\ up
        /\ keys' = keys \cup {EventOf[d]} /\ Goto(d, "check")
  /\ UNCHANGED <<up, seen, crashes>>

\* tryClaimEvent: GetString tells a duplicate from a store that is out of order.
Check(d) ==
  /\ pc[d] = "check"
  /\ Goto(d, IF up /\ EventOf[d] \in keys THEN "dropped" ELSE "chain")
  /\ UNCHANGED <<keys, up, seen, crashes>>

\* Whether the next plugin gets the event after this outcome.
GoesOn(d, out) == EventOf[d] \in Notices \/ out \in {"next", "panic"}

\* The next plugin of the chain handles the event, within its timeout: it lets the
\* event pass, keeps it, or panics.
Handle(d) ==
  /\ pc[d] = "chain" /\ Len(seen[d]) < ChainLength
  /\ \E out \in {"next", "stop", "panic"} :
       /\ seen' = [seen EXCEPT ![d] = Append(@, out)]
       /\ Goto(d, IF GoesOn(d, out) THEN "chain" ELSE "done")
  /\ UNCHANGED <<keys, up, crashes>>

\* The chain is at its end.
Finish(d) ==
  /\ pc[d] = "chain" /\ Len(seen[d]) = ChainLength
  /\ Goto(d, "done")
  /\ UNCHANGED <<keys, up, seen, crashes>>
-------------------------------------------------------------------------------
(* The store and the process.                                              *)

Expire(e) ==
  /\ env.expire /\ e \in keys /\ keys' = keys \ {e}
  /\ UNCHANGED <<up, pc, seen, crashes>>

Outage == env.outages /\ up' = ~up /\ UNCHANGED <<keys, pc, seen, crashes>>

\* The process dies: a local store is empty afterwards, a server's is not, and
\* deliveries not yet made come after the restart.
Crash ==
  /\ crashes < env.crashes /\ crashes' = crashes + 1
  /\ keys' = IF env.remote THEN keys ELSE {}
  /\ pc' = [d \in Deliveries |->
              IF pc[d] \in {"claim", "check", "chain"} THEN "lost" ELSE pc[d]]
  /\ UNCHANGED <<up, seen>>

Step(d) == Receive(d) \/ Claim(d) \/ Check(d) \/ Handle(d) \/ Finish(d)
Next == /\ UNCHANGED env
        /\ \/ \E d \in Deliveries : Step(d)
           \/ \E e \in Events : Expire(e)
           \/ Outage \/ Crash

Spec == Init /\ [][Next]_vars

\* Each goroutine goes on: store calls and plugins have timeouts.
FairSpec == Spec /\ \A d \in Deliveries : WF_vars(UNCHANGED env /\ Step(d))
-------------------------------------------------------------------------------
TypeOK ==
  /\ env \in Environments
  /\ keys \subseteq Events /\ up \in BOOLEAN /\ crashes \in 0..env.crashes
  /\ pc \in [Deliveries -> PCs]
  /\ seen \in [Deliveries -> Seq({"next", "stop", "panic"})]
  /\ \A d \in Deliveries : Len(seen[d]) <= ChainLength

Began(d) == pc[d] \in {"chain", "done"} \/ seen[d] # <<>>

\* As long as the store answers and duplicates come in time, the plugins see an
\* event with a key once, however many deliveries run at the same time; with a
\* server this even survives a restart.
HandledOnce ==
  ~env.outages /\ ~env.expire /\ (env.remote \/ env.crashes = 0) =>
    \A a, b \in Deliveries :
      EventOf[a] = EventOf[b] /\ EventOf[a] \notin Keyless /\ Began(a) /\ Began(b)
        => a = b

\* Claim of dedup.go: handling an event twice is better than swallowing it; a
\* delivery is dropped only if another one of the event is handled.  (It may be
\* swallowed when the claim's reply is lost, or the process dies after the claim.)
NeverSwallowed ==
  \A d \in Deliveries : pc[d] = "dropped" =>
    \E d2 \in Deliveries \ {d} :
      EventOf[d2] = EventOf[d] /\ pc[d2] \in {"chain", "done"}

\* The chain is cut by nothing but a plugin that keeps a message: neither a panic
\* nor another goroutine's duplicate makes a plugin miss its turn.
ChainIsComplete ==
  \A d \in Deliveries : pc[d] = "done" =>
    \/ Len(seen[d]) = ChainLength
    \/ EventOf[d] \notin Notices /\ seen[d][Len(seen[d])] = "stop"

\* While the process lives and no reply is lost every event that arrived comes to its
\* end in one of its deliveries.
EventsAreHandled ==
  \A e \in Events \ (Keyless \cup FromSelf) :
    ~env.lost /\ (\E d \in Deliveries : EventOf[d] = e /\ pc[d] = "claim")
      ~> \E d \in Deliveries : EventOf[d] = e /\ pc[d] \in {"done", "lost"}
================================================================================
