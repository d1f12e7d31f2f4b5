------------------------------ MODULE Core_proofs ------------------------------
(***************************************************************************)
(* Theorems about Core: for any deliveries, events, plugins, environments,  *)
(* restarts, exits and removals.                                            *)
(***************************************************************************)
EXTENDS Core, TLAPS, FiniteSetTheorems

\* A step of Core is a step of each component, or leaves it alone.
LEMMA DispatchSteps == [Next]_vars => [Dispatch!Next]_dispatchVars
BY DEF Next, vars, InDispatch, InUnload, dispatchVars

LEMMA UnloadSteps == [Next]_vars => [Unload!Next]_unloadVars
BY DEF Next, vars, InDispatch, InUnload, unloadVars

LEMMA Assumptions == Dispatch!DispatchAssumption /\ Unload!UnloadAssumption
BY CoreAssumption
-------------------------------------------------------------------------------
(* The dispatch of events.                                                  *)

LEMMA ChainIsFinite == Dispatch!ChainLength \in Nat
<1>1. IsFiniteSet(1..Plugins)
  BY Assumptions, FS_Interval DEF Dispatch!DispatchAssumption
<1>2. IsFiniteSet(Dispatch!Chain)
  BY <1>1, FS_Subset DEF Dispatch!Chain
<1> QED
  BY <1>2, FS_CardinalityType DEF Dispatch!ChainLength, Cardinality, Dispatch!Cardinality

\* What a step of one delivery keeps, and what it may not touch.
LEMMA DispatchTypesStep == ASSUME Dispatch!TypeOK, [Dispatch!Next]_dispatchVars
                           PROVE  Dispatch!TypeOK'
<1> USE DEF Dispatch!TypeOK
<1>0. env' = env
  BY DEF Dispatch!Next, dispatchVars
<1>1. ASSUME NEW d \in Deliveries, Dispatch!Receive(d) PROVE Dispatch!TypeOK'
  BY <1>0, <1>1 DEF Dispatch!Receive, Dispatch!Goto, Dispatch!PCs
<1>2. ASSUME NEW d \in Deliveries, Dispatch!Claim(d) PROVE Dispatch!TypeOK'
  <2>1. keys' \subseteq Dispatch!Events
    BY <1>2 DEF Dispatch!Claim, Dispatch!Events
  <2>2. pc' \in [Deliveries -> Dispatch!PCs]
    BY <1>2 DEF Dispatch!Claim, Dispatch!Goto, Dispatch!PCs
  <2> QED
    BY <1>0, <1>2, <2>1, <2>2 DEF Dispatch!Claim
<1>3. ASSUME NEW d \in Deliveries, Dispatch!Check(d) PROVE Dispatch!TypeOK'
  BY <1>0, <1>3 DEF Dispatch!Check, Dispatch!Goto, Dispatch!PCs
<1>4. ASSUME NEW d \in Deliveries, Dispatch!Handle(d) PROVE Dispatch!TypeOK'
  <2>1. PICK out \in {"next", "stop", "panic"} :
          /\ seen' = [seen EXCEPT ![d] = Append(@, out)]
          /\ Dispatch!Goto(d, IF Dispatch!GoesOn(d, out) THEN "chain" ELSE "done")
    BY <1>4 DEF Dispatch!Handle
  <2>a. seen' \in [Deliveries -> Seq({"next", "stop", "panic"})]
    BY <2>1
  <2>2. \A x \in Deliveries : Len(seen'[x]) <= Dispatch!ChainLength
    <3> TAKE x \in Deliveries
    <3>1. CASE x = d
      BY <1>4, <2>1, <3>1, ChainIsFinite DEF Dispatch!Handle
    <3>2. CASE x # d
      BY <2>1, <3>2
    <3> QED
      BY <3>1, <3>2
  <2>3. pc' \in [Deliveries -> Dispatch!PCs]
    BY <2>1 DEF Dispatch!Goto, Dispatch!PCs
  <2> QED
    BY <1>0, <1>4, <2>a, <2>2, <2>3 DEF Dispatch!Handle
<1>5. ASSUME NEW d \in Deliveries, Dispatch!Finish(d) PROVE Dispatch!TypeOK'
  BY <1>0, <1>5 DEF Dispatch!Finish, Dispatch!Goto, Dispatch!PCs
<1>6. ASSUME NEW e \in Dispatch!Events, Dispatch!Expire(e) PROVE Dispatch!TypeOK'
  BY <1>0, <1>6 DEF Dispatch!Expire
<1>7. CASE Dispatch!Outage
  BY <1>0, <1>7 DEF Dispatch!Outage
<1>8. CASE Dispatch!Crash
  <2>1. env.crashes \in Nat
    BY Assumptions DEF Dispatch!DispatchAssumption
  <2>2. crashes' \in 0..env'.crashes
    BY <1>0, <1>8, <2>1 DEF Dispatch!Crash
  <2>3. pc' \in [Deliveries -> Dispatch!PCs] /\ keys' \subseteq Dispatch!Events
    BY <1>8 DEF Dispatch!Crash, Dispatch!PCs
  <2> QED
    BY <1>0, <1>8, <2>2, <2>3 DEF Dispatch!Crash
<1>9. CASE UNCHANGED dispatchVars
  BY <1>9 DEF dispatchVars
<1> QED
  BY <1>1, <1>2, <1>3, <1>4, <1>5, <1>6, <1>7, <1>8, <1>9 DEF Dispatch!Next, Dispatch!Step

LEMMA DispatchTypes == Spec => []Dispatch!TypeOK
<1>1. Init => Dispatch!TypeOK
  <2> SUFFICES ASSUME Dispatch!Init PROVE Dispatch!TypeOK
    BY DEF Init
  <2>1. env.crashes \in Nat
    BY Assumptions DEF Dispatch!DispatchAssumption, Dispatch!Init
  <2>2. 0 \in 0..env.crashes
    BY <2>1
  <2> QED
    BY <2>2, ChainIsFinite DEF Dispatch!Init, Dispatch!TypeOK, Dispatch!PCs
<1> QED
  BY <1>1, DispatchTypesStep, DispatchSteps, PTL DEF Spec
-------------------------------------------------------------------------------
\* The conditions under which an event reaches the plugins once.
StoreIsSound == ~env.outages /\ ~env.expire /\ (env.remote \/ env.crashes = 0)

Keyed(d) == EventOf[d] \notin Keyless

\* The key of an event is there from the claim on; it is what tells the deliveries apart.
Claimed ==
  /\ up
  /\ \A d \in Deliveries : pc[d] = "check" => EventOf[d] \in keys
  /\ \A d \in Deliveries : Keyed(d) /\ Dispatch!Began(d) => EventOf[d] \in keys
  /\ \A a, b \in Deliveries :
       EventOf[a] = EventOf[b] /\ Keyed(a) /\ Dispatch!Began(a) /\ Dispatch!Began(b) => a = b

\* A delivery moves on, the keys grow, and it begins nothing that was not begun.
LEMMA ClaimedStays ==
  ASSUME Dispatch!TypeOK, Claimed, NEW d \in Deliveries, NEW p, Dispatch!Goto(d, p), up' = up,
         keys \subseteq keys', UNCHANGED seen,
         p = "check" => EventOf[d] \in keys',
         p \in {"chain", "done"} => Dispatch!Began(d) \/ ~Keyed(d)
  PROVE  Claimed'
<1>1. \A x \in Deliveries : pc'[x] = IF x = d THEN p ELSE pc[x]
  BY DEF Dispatch!Goto, Dispatch!TypeOK
<1>2. \A x \in Deliveries : Keyed(x) /\ Dispatch!Began(x)' => Dispatch!Began(x)
  BY <1>1 DEF Dispatch!Began
<1>3. \A x \in Deliveries : Keyed(x)' = Keyed(x)
  BY DEF Keyed
<1> QED
  BY <1>1, <1>2, <1>3 DEF Claimed, Keyed

LEMMA ClaimedStep ==
  ASSUME StoreIsSound, Dispatch!TypeOK, Claimed, [Dispatch!Next]_dispatchVars
  PROVE  Claimed'
<1>1. ASSUME NEW d \in Deliveries, Dispatch!Receive(d) PROVE Claimed'
  <2>1. CASE EventOf[d] \in FromSelf
    <3>1. Dispatch!Goto(d, "ignored")
      BY <1>1, <2>1 DEF Dispatch!Receive
    <3> QED
      BY <1>1, <3>1, ClaimedStays DEF Dispatch!Receive
  <2>2. CASE EventOf[d] \in Keyless \ FromSelf
    <3>1. Dispatch!Goto(d, "chain")
      BY <1>1, <2>2 DEF Dispatch!Receive
    <3> QED
      BY <1>1, <2>2, <3>1, ClaimedStays DEF Dispatch!Receive, Keyed
  <2>3. CASE EventOf[d] \notin FromSelf \cup Keyless
    <3>1. Dispatch!Goto(d, "claim")
      BY <1>1, <2>3 DEF Dispatch!Receive
    <3> QED
      BY <1>1, <3>1, ClaimedStays DEF Dispatch!Receive
  <2> QED
    BY <2>1, <2>2, <2>3
<1>2. ASSUME NEW d \in Deliveries, Dispatch!Claim(d) PROVE Claimed'
  <2>1. CASE EventOf[d] \notin keys /\ keys' = keys \cup {EventOf[d]} /\ Dispatch!Goto(d, "chain")
    <3>1. \A x \in Deliveries : pc'[x] = IF x = d THEN "chain" ELSE pc[x]
      BY <2>1 DEF Dispatch!Goto, Dispatch!TypeOK
    <3>2. \A x \in Deliveries : x # d => (Dispatch!Began(x)' <=> Dispatch!Began(x))
      BY <1>2, <3>1 DEF Dispatch!Began, Dispatch!Claim
    <3>3. \A x \in Deliveries : Keyed(x) /\ Dispatch!Began(x) => EventOf[x] # EventOf[d]
      BY <2>1 DEF Claimed
    <3>4. \A a, b \in Deliveries :
            EventOf[a] = EventOf[b] /\ Keyed(a) /\ Dispatch!Began(a)' /\ Dispatch!Began(b)' => a = b
      <4> TAKE a, b \in Deliveries
      <4> HAVE EventOf[a] = EventOf[b] /\ Keyed(a) /\ Dispatch!Began(a)' /\ Dispatch!Began(b)'
      <4>1. Keyed(b)
        BY DEF Keyed
      <4>2. CASE a = d \/ b = d
        BY <3>2, <3>3, <4>1, <4>2
      <4>3. CASE a # d /\ b # d
        BY <3>2, <4>3 DEF Claimed
      <4> QED
        BY <4>2, <4>3
    <3>5. \A x \in Deliveries : Keyed(x) /\ Dispatch!Began(x)' => EventOf[x] \in keys'
      BY <2>1, <3>2 DEF Claimed
    <3>6. \A x \in Deliveries : pc'[x] = "check" => EventOf[x] \in keys'
      BY <2>1, <3>1 DEF Claimed
    <3>7. up'
      BY <1>2 DEF Dispatch!Claim, Claimed
    <3> QED
      BY <3>4, <3>5, <3>6, <3>7 DEF Claimed, Keyed
  <2>2. CASE (~up \/ EventOf[d] \in keys) /\ keys' = keys /\ Dispatch!Goto(d, "check")
    <3>1. EventOf[d] \in keys'
      BY <2>2 DEF Claimed
    <3> QED
      BY <1>2, <2>2, <3>1, ClaimedStays DEF Dispatch!Claim
  <2>3. CASE keys' = keys \cup {EventOf[d]} /\ Dispatch!Goto(d, "check")
    BY <1>2, <2>3, ClaimedStays DEF Dispatch!Claim
  <2> QED
    BY <1>2, <2>1, <2>2, <2>3 DEF Dispatch!Claim
<1>3. ASSUME NEW d \in Deliveries, Dispatch!Check(d) PROVE Claimed'
  <2>1. Dispatch!Goto(d, "dropped")
    BY <1>3 DEF Dispatch!Check, Claimed
  <2> QED
    BY <1>3, <2>1, ClaimedStays DEF Dispatch!Check
<1>4. ASSUME NEW d \in Deliveries, Dispatch!Handle(d) PROVE Claimed'
  <2>1. /\ \A x \in Deliveries : x # d => pc'[x] = pc[x] /\ seen'[x] = seen[x]
        /\ pc[d] = "chain" /\ pc'[d] \in {"chain", "done"} /\ keys' = keys /\ up' = up
    BY <1>4 DEF Dispatch!Handle, Dispatch!Goto, Dispatch!TypeOK
  <2>2. \A x \in Deliveries : Dispatch!Began(x)' <=> Dispatch!Began(x)
    BY <2>1 DEF Dispatch!Began
  <2> QED
    BY <2>1, <2>2 DEF Claimed, Keyed
<1>5. ASSUME NEW d \in Deliveries, Dispatch!Finish(d) PROVE Claimed'
  <2>1. Dispatch!Began(d)
    BY <1>5 DEF Dispatch!Finish, Dispatch!Began
  <2> QED
    BY <1>5, <2>1, ClaimedStays DEF Dispatch!Finish
<1>6. ASSUME NEW e \in Dispatch!Events, Dispatch!Expire(e) PROVE Claimed'
  BY <1>6 DEF Dispatch!Expire, StoreIsSound
<1>7. CASE Dispatch!Outage
  BY <1>7 DEF Dispatch!Outage, StoreIsSound
<1>8. CASE Dispatch!Crash
  <2>1. env.crashes # 0
    BY <1>8 DEF Dispatch!Crash, Dispatch!TypeOK
  <2>2. env.remote /\ keys' = keys /\ UNCHANGED <<up, seen>>
    BY <1>8, <2>1 DEF Dispatch!Crash, StoreIsSound
  <2>3. \A x \in Deliveries : pc'[x] = pc[x] \/ pc'[x] = "lost"
    BY <1>8 DEF Dispatch!Crash
  <2>4. \A x \in Deliveries : Dispatch!Began(x)' => Dispatch!Began(x)
    BY <2>2, <2>3 DEF Dispatch!Began
  <2> QED
    BY <2>2, <2>3, <2>4 DEF Claimed, Keyed
<1>9. CASE UNCHANGED dispatchVars
  BY <1>9 DEF dispatchVars, Claimed, Keyed, Dispatch!Began
<1> QED
  BY <1>1, <1>2, <1>3, <1>4, <1>5, <1>6, <1>7, <1>8, <1>9 DEF Dispatch!Next, Dispatch!Step

\* tryClaimEvent lets one delivery of an event with a key through to the plugins, however
\* many deliveries run and whatever replies of the server are lost, as long as the store can
\* be reached and keeps its keys.
THEOREM PluginsSeeItOnce == Spec => []Dispatch!HandledOnce
<1>1. Init => (StoreIsSound => Claimed)
  BY DEF Init, Dispatch!Init, Claimed, Dispatch!Began
<1>2. [Dispatch!Next]_dispatchVars => (StoreIsSound' => StoreIsSound)
  BY DEF Dispatch!Next, dispatchVars, StoreIsSound
<1>3. Dispatch!TypeOK /\ (StoreIsSound => Claimed) /\ [Next]_vars
        => (StoreIsSound => Claimed)'
  BY <1>2, ClaimedStep, DispatchSteps
<1>4. (StoreIsSound => Claimed) => Dispatch!HandledOnce
  BY DEF Claimed, Dispatch!HandledOnce, Keyed, StoreIsSound
<1> QED
  BY <1>1, <1>3, <1>4, DispatchTypes, PTL DEF Spec
-------------------------------------------------------------------------------
\* Nothing but a plugin that keeps a message ends the chain early: no panic, no duplicate
\* and no crash makes a plugin miss a message that is done.
THEOREM ChainsAreWhole == Spec => []Dispatch!ChainIsComplete
<1>1. Init => Dispatch!ChainIsComplete
  BY DEF Init, Dispatch!Init, Dispatch!ChainIsComplete
<1>2. Dispatch!TypeOK /\ Dispatch!ChainIsComplete /\ [Dispatch!Next]_dispatchVars
        => Dispatch!ChainIsComplete'
  <2> SUFFICES ASSUME Dispatch!TypeOK, Dispatch!ChainIsComplete,
                      [Dispatch!Next]_dispatchVars, NEW d \in Deliveries, pc'[d] = "done"
               PROVE  \/ Len(seen'[d]) = Dispatch!ChainLength
                      \/ EventOf[d] \notin Notices /\ seen'[d][Len(seen'[d])] = "stop"
    BY DEF Dispatch!ChainIsComplete
  <2>1. CASE pc[d] = "done"
    <3>1. ASSUME NEW x \in Deliveries, Dispatch!Handle(x) PROVE x # d
      BY <2>1, <3>1 DEF Dispatch!Handle
    <3>2. seen'[d] = seen[d]
      BY <3>1 DEF Dispatch!Next, Dispatch!Step, dispatchVars, Dispatch!Receive, Dispatch!Claim,
                  Dispatch!Check, Dispatch!Handle, Dispatch!Finish, Dispatch!Expire,
                  Dispatch!Outage, Dispatch!Crash, Dispatch!TypeOK
    <3> QED
      BY <2>1, <3>2 DEF Dispatch!ChainIsComplete
  <2>2. ASSUME pc[d] # "done", Dispatch!Handle(d) PROVE
                      \/ Len(seen'[d]) = Dispatch!ChainLength
                      \/ EventOf[d] \notin Notices /\ seen'[d][Len(seen'[d])] = "stop"
    <3>1. PICK out \in {"next", "stop", "panic"} :
            /\ seen' = [seen EXCEPT ![d] = Append(@, out)]
            /\ Dispatch!Goto(d, IF Dispatch!GoesOn(d, out) THEN "chain" ELSE "done")
      BY <2>2 DEF Dispatch!Handle
    <3>2. ~Dispatch!GoesOn(d, out)
      BY <3>1 DEF Dispatch!Goto, Dispatch!TypeOK
    <3>3. out = "stop" /\ EventOf[d] \notin Notices
      BY <3>1, <3>2 DEF Dispatch!GoesOn
    <3>4. seen'[d] = Append(seen[d], out) /\ seen[d] \in Seq({"next", "stop", "panic"})
      BY <3>1 DEF Dispatch!TypeOK
    <3> QED
      BY <3>3, <3>4
  <2>3. CASE Dispatch!Finish(d)
    BY <2>3 DEF Dispatch!Finish
  <2>4. pc[d] = "done" \/ Dispatch!Handle(d) \/ Dispatch!Finish(d)
    <3> SUFFICES ASSUME pc[d] # "done" PROVE Dispatch!Handle(d) \/ Dispatch!Finish(d)
      OBVIOUS
    <3>1. ASSUME NEW x \in Deliveries,
                 Dispatch!Receive(x) \/ Dispatch!Claim(x) \/ Dispatch!Check(x)
          PROVE  FALSE
      BY <3>1 DEF Dispatch!Receive, Dispatch!Claim, Dispatch!Check, Dispatch!Goto, Dispatch!TypeOK
    <3>2. ASSUME NEW x \in Deliveries, x # d, Dispatch!Handle(x) \/ Dispatch!Finish(x) PROVE FALSE
      BY <3>2 DEF Dispatch!Handle, Dispatch!Finish, Dispatch!Goto, Dispatch!TypeOK
    <3>3. ~Dispatch!Outage /\ ~Dispatch!Crash /\ ~UNCHANGED dispatchVars
          /\ \A e \in Dispatch!Events : ~Dispatch!Expire(e)
      BY DEF Dispatch!Outage, Dispatch!Crash, Dispatch!Expire, dispatchVars
    <3> QED
      BY <3>1, <3>2, <3>3 DEF Dispatch!Next, Dispatch!Step
  <2> QED
    BY <2>1, <2>2, <2>3, <2>4
<1> QED
  BY <1>1, <1>2, DispatchSteps, DispatchTypes, PTL DEF Spec
-------------------------------------------------------------------------------
\* No reply is lost and the process lives.
RepliesArrive == ~env.lost /\ env.crashes = 0

\* A key in the store belongs to an event that some delivery carries to the plugins, and
\* a delivery that was taken for a duplicate leaves its event to another one.
KeysAreHandled ==
  /\ \A e \in keys : \E d \in Deliveries :
       EventOf[d] = e /\ pc[d] \in {"chain", "done"}
  /\ Dispatch!NeverSwallowed

\* A delivery that moves on keeps what it handles, claims for itself and gives up nothing
\* that is not another one's.
LEMMA KeysAreHandledStays ==
  ASSUME KeysAreHandled, NEW d \in Deliveries,
         \A x \in Deliveries \ {d} : pc'[x] = pc[x],
         pc[d] \in {"chain", "done"} => pc'[d] \in {"chain", "done"},
         \A e \in keys' \ keys : e = EventOf[d] /\ pc'[d] = "chain",
         pc'[d] = "dropped" => pc[d] = "check" /\ EventOf[d] \in keys
  PROVE  KeysAreHandled'
<1>1. \A x \in Deliveries : pc[x] \in {"chain", "done"} => pc'[x] \in {"chain", "done"}
  OBVIOUS
<1>2. ASSUME NEW e \in keys'
      PROVE  \E x \in Deliveries : EventOf[x] = e /\ pc'[x] \in {"chain", "done"}
  <2>1. CASE e \in keys
    BY <1>1, <2>1 DEF KeysAreHandled
  <2>2. CASE e \notin keys
    BY <1>1, <2>2
  <2> QED
    BY <2>1, <2>2
<1>3. ASSUME NEW x \in Deliveries, pc'[x] = "dropped"
      PROVE  \E y \in Deliveries \ {x} :
               EventOf[y] = EventOf[x] /\ pc'[y] \in {"chain", "done"}
  <2>1. CASE pc[x] = "dropped"
    BY <1>1, <2>1 DEF KeysAreHandled, Dispatch!NeverSwallowed
  <2>2. CASE pc[x] # "dropped"
    <3>1. pc[x] = "check" /\ EventOf[x] \in keys
      BY <1>3, <2>2
    <3>2. PICK y \in Deliveries : EventOf[y] = EventOf[x] /\ pc[y] \in {"chain", "done"}
      BY <3>1 DEF KeysAreHandled
    <3> QED
      BY <1>1, <3>1, <3>2
  <2> QED
    BY <2>1, <2>2
<1> QED
  BY <1>2, <1>3 DEF KeysAreHandled, Dispatch!NeverSwallowed

LEMMA KeysAreHandledStep ==
  ASSUME RepliesArrive, Dispatch!TypeOK, KeysAreHandled, [Dispatch!Next]_dispatchVars
  PROVE  KeysAreHandled'
<1>1. ASSUME NEW d \in Deliveries, Dispatch!Receive(d) PROVE KeysAreHandled'
  <2>1. \A x \in Deliveries \ {d} : pc'[x] = pc[x]
    BY <1>1 DEF Dispatch!Receive, Dispatch!Goto, Dispatch!TypeOK
  <2>2. pc[d] = "new" /\ pc'[d] \in {"ignored", "chain", "claim"} /\ keys' = keys
    BY <1>1 DEF Dispatch!Receive, Dispatch!Goto, Dispatch!TypeOK
  <2> QED
    BY <2>1, <2>2, KeysAreHandledStays
<1>2. ASSUME NEW d \in Deliveries, Dispatch!Claim(d) PROVE KeysAreHandled'
  <2>1. \A x \in Deliveries \ {d} : pc'[x] = pc[x]
    BY <1>2 DEF Dispatch!Claim, Dispatch!Goto, Dispatch!TypeOK
  <2>2. /\ pc[d] = "claim"
        /\ \/ pc'[d] = "chain" /\ keys' = keys \cup {EventOf[d]}
           \/ pc'[d] = "check" /\ keys' = keys
    BY <1>2 DEF Dispatch!Claim, Dispatch!Goto, Dispatch!TypeOK, RepliesArrive
  <2> QED
    BY <2>1, <2>2, KeysAreHandledStays
<1>3. ASSUME NEW d \in Deliveries, Dispatch!Check(d) PROVE KeysAreHandled'
  <2>1. \A x \in Deliveries \ {d} : pc'[x] = pc[x]
    BY <1>3 DEF Dispatch!Check, Dispatch!Goto, Dispatch!TypeOK
  <2>2. /\ pc[d] = "check" /\ keys' = keys
        /\ pc'[d] \in {"chain", "dropped"}
        /\ pc'[d] = "dropped" => EventOf[d] \in keys
    BY <1>3 DEF Dispatch!Check, Dispatch!Goto, Dispatch!TypeOK
  <2> QED
    BY <2>1, <2>2, KeysAreHandledStays
<1>4. ASSUME NEW d \in Deliveries, Dispatch!Handle(d) PROVE KeysAreHandled'
  <2>1. \A x \in Deliveries \ {d} : pc'[x] = pc[x]
    BY <1>4 DEF Dispatch!Handle, Dispatch!Goto, Dispatch!TypeOK
  <2>2. pc[d] = "chain" /\ pc'[d] \in {"chain", "done"} /\ keys' = keys
    BY <1>4 DEF Dispatch!Handle, Dispatch!Goto, Dispatch!TypeOK
  <2> QED
    BY <2>1, <2>2, KeysAreHandledStays
<1>5. ASSUME NEW d \in Deliveries, Dispatch!Finish(d) PROVE KeysAreHandled'
  <2>1. \A x \in Deliveries \ {d} : pc'[x] = pc[x]
    BY <1>5 DEF Dispatch!Finish, Dispatch!Goto, Dispatch!TypeOK
  <2>2. pc[d] = "chain" /\ pc'[d] = "done" /\ keys' = keys
    BY <1>5 DEF Dispatch!Finish, Dispatch!Goto, Dispatch!TypeOK
  <2> QED
    BY <2>1, <2>2, KeysAreHandledStays
<1>6. ASSUME pc' = pc, keys' \subseteq keys PROVE KeysAreHandled'
  BY <1>6 DEF KeysAreHandled, Dispatch!NeverSwallowed
<1>7. ASSUME NEW e \in Dispatch!Events, Dispatch!Expire(e) PROVE KeysAreHandled'
  BY <1>6, <1>7 DEF Dispatch!Expire
<1>8. CASE Dispatch!Outage
  BY <1>6, <1>8 DEF Dispatch!Outage
<1>9. ~Dispatch!Crash
  BY DEF Dispatch!Crash, Dispatch!TypeOK, RepliesArrive
<1>10. CASE UNCHANGED dispatchVars
  BY <1>6, <1>10 DEF dispatchVars
<1> QED
  BY <1>1, <1>2, <1>3, <1>4, <1>5, <1>7, <1>8, <1>9, <1>10 DEF Dispatch!Next, Dispatch!Step

\* The claim of dedup.go: as long as no reply is lost and the process lives, whatever the
\* server's outages and the keys' expiry, a delivery is dropped only when another delivery
\* of its event is with the plugins or has been.
THEOREM NothingIsSwallowed == Spec => [](RepliesArrive => Dispatch!NeverSwallowed)
<1>1. Init => KeysAreHandled
  BY DEF Init, Dispatch!Init, KeysAreHandled, Dispatch!NeverSwallowed
<1>2. [Dispatch!Next]_dispatchVars => (RepliesArrive' => RepliesArrive)
  BY DEF Dispatch!Next, dispatchVars, RepliesArrive
<1>3. Dispatch!TypeOK /\ (RepliesArrive => KeysAreHandled) /\ [Next]_vars
        => (RepliesArrive => KeysAreHandled)'
  BY <1>2, KeysAreHandledStep, DispatchSteps
<1>4. (RepliesArrive => KeysAreHandled) => (RepliesArrive => Dispatch!NeverSwallowed)
  BY DEF KeysAreHandled
<1> QED
  BY <1>1, <1>3, <1>4, DispatchTypes, PTL DEF Spec
-------------------------------------------------------------------------------
(* The unload hooks.                                                        *)

\* Only restarts wait for restartMu; a plugin whose hook an actor is about to call, or has
\* called, is marked.
UnloadTypes ==
  /\ Unload!TypeOK
  /\ \A a \in Unload!Actors : step[a] = "lock" => a \in Restarts
  /\ \A a \in Unload!Actors : step[a] \in {"call", "hook"} =>
       at[a] > 0 /\ Unload!Current(a) \in marked

LEMMA CurrentIsAHook ==
  ASSUME UnloadTypes, NEW a \in Unload!Actors, at[a] > 0
  PROVE  Unload!Current(a) \in Unload!Hooks
<1>1. Hooked \in Nat /\ Target \in [Removals -> Unload!Hooks]
  BY Assumptions DEF Unload!UnloadAssumption
<1>2. at[a] \in 0..Hooked
  BY DEF UnloadTypes, Unload!TypeOK
<1> QED
  BY <1>1, <1>2 DEF Unload!Current, Unload!Hooks

LEMMA UnloadTypesStep == ASSUME UnloadTypes, [Unload!Next]_unloadVars PROVE UnloadTypes'
<1>0. /\ Hooked \in Nat
      /\ \A a \in Unload!Actors : at[a] \in 0..Hooked
      /\ Restarts \subseteq Unload!Actors
      /\ Hooked \in 0..Hooked
  BY Assumptions DEF Unload!UnloadAssumption, UnloadTypes, Unload!TypeOK, Unload!Actors
<1> USE <1>0 DEF UnloadTypes, Unload!TypeOK
<1>1. ASSUME NEW a \in Unload!Actors, Unload!Request(a), UNCHANGED ended PROVE UnloadTypes'
  <2>1. CASE a \in Restarts
    BY <1>1, <2>1 DEF Unload!Request, Unload!Goto, Unload!Current
  <2>2. CASE a \notin Restarts
    BY <1>1, <2>2 DEF Unload!Request, Unload!Goto, Unload!Current
  <2> QED
    BY <2>1, <2>2
<1>2. ASSUME NEW a \in Unload!Actors, Unload!Lock(a), UNCHANGED ended PROVE UnloadTypes'
  <2>1. CASE started
    BY <1>2, <2>1 DEF Unload!Lock, Unload!Goto, Unload!Current
  <2>2. CASE ~started
    BY <1>2, <2>2 DEF Unload!Lock, Unload!Goto, Unload!Current
  <2> QED
    BY <2>1, <2>2
<1>3. ASSUME NEW a \in Unload!Actors, at[a] > 0, Unload!Advance(a), marked \subseteq marked',
             marked' \subseteq Unload!Hooks, running' \subseteq marked',
             UNCHANGED <<calls, mutex, started, ended>>
      PROVE  UnloadTypes'
  <2>1. CASE a \in Removals
    BY <1>3, <2>1 DEF Unload!Advance, Unload!Goto, Unload!Current
  <2>2. CASE a \notin Removals
    <3>1. at[a] - 1 \in 0..Hooked
      BY <1>3
    <3> QED
      BY <1>3, <2>2, <3>1 DEF Unload!Advance, Unload!Goto, Unload!Current
  <2> QED
    BY <2>1, <2>2
<1>4. ASSUME NEW a \in Unload!Actors, Unload!Mark(a), UNCHANGED ended PROVE UnloadTypes'
  <2>1. CASE Unload!Current(a) \in marked
    BY <1>3, <1>4, <2>1 DEF Unload!Mark
  <2>2. CASE Unload!Current(a) \notin marked
    <3>1. Unload!Current(a) \in Unload!Hooks
      BY <1>4, CurrentIsAHook DEF Unload!Mark
    <3> QED
      BY <1>4, <2>2, <3>1 DEF Unload!Mark, Unload!Goto, Unload!Current
  <2> QED
    BY <2>1, <2>2
<1>5. ASSUME NEW a \in Unload!Actors, Unload!Call(a), UNCHANGED ended PROVE UnloadTypes'
  <2>1. Unload!Current(a) \in marked
    BY <1>5 DEF Unload!Call
  <2>2. [plugin |-> Unload!Current(a), reason |-> Unload!Reason(a)]
          \in [plugin : Unload!Hooks, reason : {"shutdown", "uninstall"}]
    BY <2>1 DEF Unload!Reason
  <2>3. calls' \in Seq([plugin : Unload!Hooks, reason : {"shutdown", "uninstall"}])
    BY <1>5, <2>2 DEF Unload!Call
  <2> QED
    BY <1>5, <2>1, <2>3 DEF Unload!Call, Unload!Goto, Unload!Current
<1>6. ASSUME NEW a \in Unload!Actors, Unload!Return(a), UNCHANGED ended PROVE UnloadTypes'
  BY <1>3, <1>6 DEF Unload!Return
<1>7. ASSUME NEW a \in Unload!Actors, Unload!Swept(a) PROVE UnloadTypes'
  BY <1>7 DEF Unload!Swept, Unload!Goto, Unload!Current
<1>8. CASE UNCHANGED unloadVars
  BY <1>8 DEF unloadVars, Unload!Current
<1> QED
  BY <1>1, <1>2, <1>4, <1>5, <1>6, <1>7, <1>8 DEF Unload!Next, Unload!Step

LEMMA UnloadTypesHold == Spec => []UnloadTypes
<1>1. Init => UnloadTypes
  <2>1. Hooked \in Nat
    BY Assumptions DEF Unload!UnloadAssumption
  <2>2. 0 \in 0..Hooked
    BY <2>1
  <2> SUFFICES ASSUME Unload!Init PROVE UnloadTypes
    BY DEF Init
  <2>3. /\ step \in [Unload!Actors -> {"idle", "lock", "mark", "call", "hook", "removed", "done"}]
        /\ at \in [Unload!Actors -> 0..Hooked]
        /\ \A a \in Unload!Actors : step[a] = "idle"
    BY <2>2 DEF Unload!Init
  <2>4. calls \in Seq([plugin : Unload!Hooks, reason : {"shutdown", "uninstall"}])
    BY DEF Unload!Init
  <2> QED
    BY <2>3, <2>4 DEF Unload!Init, UnloadTypes, Unload!TypeOK
<1> QED
  BY <1>1, UnloadTypesStep, UnloadSteps, PTL DEF Spec
-------------------------------------------------------------------------------
\* The plugins whose hook has been called.
Called == {calls[i].plugin : i \in DOMAIN calls}

\* Each mark is taken by one actor, who calls the hook once.
CalledOnce ==
  /\ Unload!HookOnce
  /\ Called \subseteq marked
  /\ \A a \in Unload!Actors : step[a] = "call" => Unload!Current(a) \notin Called
  /\ \A a, b \in Unload!Actors :
       step[a] = "call" /\ step[b] = "call" /\ Unload!Current(a) = Unload!Current(b) => a = b

\* A call goes to the end of the list.
LEMMA CallAppends ==
  ASSUME UnloadTypes, NEW a \in Unload!Actors, Unload!Call(a)
  PROVE  /\ DOMAIN calls = 1..Len(calls) /\ DOMAIN calls' = 1..(Len(calls) + 1)
         /\ Len(calls) \in Nat
         /\ \A i \in 1..Len(calls) : calls'[i] = calls[i]
         /\ calls'[Len(calls) + 1] = [plugin |-> Unload!Current(a), reason |-> Unload!Reason(a)]
         /\ calls'[Len(calls) + 1].plugin = Unload!Current(a)
         /\ Called' = Called \cup {Unload!Current(a)}
<1>1. calls \in Seq([plugin : Unload!Hooks, reason : {"shutdown", "uninstall"}])
  BY DEF UnloadTypes, Unload!TypeOK
<1>2. calls' = Append(calls, [plugin |-> Unload!Current(a), reason |-> Unload!Reason(a)])
  BY DEF Unload!Call
<1>3. /\ DOMAIN calls = 1..Len(calls) /\ DOMAIN calls' = 1..(Len(calls) + 1)
      /\ Len(calls) \in Nat
      /\ \A i \in 1..Len(calls) : calls'[i] = calls[i]
      /\ calls'[Len(calls) + 1] = [plugin |-> Unload!Current(a), reason |-> Unload!Reason(a)]
  BY <1>1, <1>2
<1>4. calls'[Len(calls) + 1].plugin = Unload!Current(a)
  BY <1>3
<1>5. Called' = {calls'[i].plugin : i \in 1..(Len(calls) + 1)}
  BY <1>3 DEF Called
<1>6. Called = {calls[i].plugin : i \in 1..Len(calls)}
  BY <1>3 DEF Called
<1>7. Called' = Called \cup {Unload!Current(a)}
  BY <1>3, <1>4, <1>5, <1>6
<1> QED
  BY <1>3, <1>4, <1>7

\* A step that calls nothing and lets nobody to a call keeps it.
LEMMA CalledOnceStays ==
  ASSUME CalledOnce, calls' = calls, marked \subseteq marked',
         \A a \in Unload!Actors : step'[a] = "call" =>
           step[a] = "call" /\ Unload!Current(a)' = Unload!Current(a)
  PROVE  CalledOnce'
BY DEF CalledOnce, Called, Unload!HookOnce

LEMMA CalledOnceStep ==
  ASSUME UnloadTypes, CalledOnce, [Unload!Next]_unloadVars PROVE CalledOnce'
<1> USE DEF Unload!Goto
<1>0. /\ step \in [Unload!Actors -> {"idle", "lock", "mark", "call", "hook", "removed", "done"}]
      /\ at \in [Unload!Actors -> 0..Hooked]
  BY DEF UnloadTypes, Unload!TypeOK
<1>1. ASSUME NEW a \in Unload!Actors, NEW p, step' = [step EXCEPT ![a] = p], p # "call",
             \A b \in Unload!Actors \ {a} : at'[b] = at[b],
             calls' = calls, marked' = marked
      PROVE  CalledOnce'
  <2>1. \A b \in Unload!Actors : step'[b] = "call" => b # a /\ step[b] = "call"
    BY <1>0, <1>1
  <2>2. \A b \in Unload!Actors : step'[b] = "call" => Unload!Current(b)' = Unload!Current(b)
    BY <1>1, <2>1 DEF Unload!Current
  <2> QED
    BY <1>1, <2>1, <2>2, CalledOnceStays
<1>2. ASSUME NEW a \in Unload!Actors, Unload!Request(a) PROVE CalledOnce'
  <2>1. CASE a \in Restarts
    BY <1>1, <1>2, <2>1 DEF Unload!Request
  <2>2. CASE a \notin Restarts
    <3>1. at' = [at EXCEPT ![a] = Hooked] /\ step' = [step EXCEPT ![a] = "mark"]
      BY <1>2, <2>2 DEF Unload!Request
    <3>2. \A b \in Unload!Actors \ {a} : at'[b] = at[b]
      BY <1>0, <3>1
    <3> QED
      BY <1>1, <1>2, <3>1, <3>2 DEF Unload!Request
  <2> QED
    BY <2>1, <2>2
<1>3. ASSUME NEW a \in Unload!Actors, Unload!Lock(a) PROVE CalledOnce'
  <2>1. CASE started
    BY <1>1, <1>3, <2>1 DEF Unload!Lock
  <2>2. CASE ~started
    <3>1. at' = [at EXCEPT ![a] = Hooked] /\ step' = [step EXCEPT ![a] = "mark"]
      BY <1>3, <2>2 DEF Unload!Lock
    <3>2. \A b \in Unload!Actors \ {a} : at'[b] = at[b]
      BY <1>0, <3>1
    <3> QED
      BY <1>1, <1>3, <3>1, <3>2 DEF Unload!Lock
  <2> QED
    BY <2>1, <2>2
<1>4. ASSUME NEW a \in Unload!Actors, Unload!Advance(a), calls' = calls, marked' = marked
      PROVE  CalledOnce'
  <2>1. CASE a \in Removals
    BY <1>1, <1>4, <2>1 DEF Unload!Advance
  <2>2. CASE a \notin Removals
    <3>1. at' = [at EXCEPT ![a] = @ - 1] /\ step' = [step EXCEPT ![a] = "mark"]
      BY <1>4, <2>2 DEF Unload!Advance
    <3>2. \A b \in Unload!Actors \ {a} : at'[b] = at[b]
      BY <1>0, <3>1
    <3> QED
      BY <1>1, <1>4, <3>1, <3>2
  <2> QED
    BY <2>1, <2>2
<1>5. ASSUME NEW a \in Unload!Actors, Unload!Mark(a) PROVE CalledOnce'
  <2>1. CASE Unload!Current(a) \in marked
    BY <1>4, <1>5, <2>1 DEF Unload!Mark
  <2>2. CASE Unload!Current(a) \notin marked
    <3>1. /\ marked' = marked \cup {Unload!Current(a)} /\ calls' = calls /\ at' = at
          /\ step' = [step EXCEPT ![a] = "call"]
      BY <1>5, <2>2 DEF Unload!Mark
    <3>2. \A b \in Unload!Actors : step'[b] = "call" => b = a \/ step[b] = "call"
      BY <1>0, <3>1
    <3>3. \A b \in Unload!Actors : Unload!Current(b)' = Unload!Current(b)
      BY <3>1 DEF Unload!Current
    <3>4. \A b \in Unload!Actors : step[b] = "call" => Unload!Current(b) # Unload!Current(a)
      BY <2>2 DEF UnloadTypes
    <3>5. Unload!HookOnce' /\ Called' = Called
      BY <3>1 DEF CalledOnce, Unload!HookOnce, Called
    <3>6. \A b, c \in Unload!Actors :
            step'[b] = "call" /\ step'[c] = "call" /\ Unload!Current(b) = Unload!Current(c)
              => b = c
      BY <3>2, <3>4 DEF CalledOnce
    <3>7. \A b \in Unload!Actors : step'[b] = "call" => Unload!Current(b) \notin Called
      BY <2>2, <3>2 DEF CalledOnce
    <3> QED
      BY <3>1, <3>3, <3>5, <3>6, <3>7 DEF CalledOnce
  <2> QED
    BY <2>1, <2>2
<1>6. ASSUME NEW a \in Unload!Actors, Unload!Call(a) PROVE CalledOnce'
  <2>1. /\ step[a] = "call" /\ marked' = marked /\ at' = at
        /\ step' = [step EXCEPT ![a] = "hook"]
    BY <1>6 DEF Unload!Call
  <2>2. \A b \in Unload!Actors : step'[b] = "call" => b # a /\ step[b] = "call"
    BY <1>0, <2>1
  <2>3. \A b \in Unload!Actors : Unload!Current(b)' = Unload!Current(b)
    BY <2>1 DEF Unload!Current
  <2>4. Unload!Current(a) \notin Called /\ Unload!Current(a) \in marked
    BY <2>1 DEF CalledOnce, UnloadTypes
  <2>5. Called' \subseteq marked'
    BY <1>6, <2>1, <2>4, CallAppends DEF CalledOnce
  <2>6. \A b \in Unload!Actors : step'[b] = "call" => Unload!Current(b)' \notin Called'
    <3> SUFFICES ASSUME NEW b \in Unload!Actors, step'[b] = "call"
                 PROVE  Unload!Current(b) \notin Called'
      BY <2>3
    <3>1. b # a /\ step[b] = "call"
      BY <2>2
    <3>2. Unload!Current(b) # Unload!Current(a) /\ Unload!Current(b) \notin Called
      BY <2>1, <3>1 DEF CalledOnce
    <3>3. Called' = Called \cup {Unload!Current(a)}
      BY <1>6, CallAppends
    <3> QED
      BY <3>2, <3>3
  <2>7. Unload!HookOnce'
    <3> DEFINE n == Len(calls)
    <3>0. /\ DOMAIN calls = 1..n /\ DOMAIN calls' = 1..(n + 1) /\ n \in Nat
          /\ \A k \in 1..n : calls'[k] = calls[k]
          /\ calls'[n + 1].plugin = Unload!Current(a)
      BY <1>6, CallAppends
    <3> HIDE DEF n
    <3> SUFFICES ASSUME NEW i \in DOMAIN calls', NEW j \in DOMAIN calls',
                        calls'[i].plugin = calls'[j].plugin
                 PROVE  i = j
      BY DEF Unload!HookOnce
    <3>1. \A k \in 1..n : calls[k].plugin \in Called
      BY <3>0 DEF Called
    <3>2. \A k \in 1..n : calls'[k].plugin # Unload!Current(a)
      BY <2>4, <3>0, <3>1
    <3>3. i \in 1..n \cup {n + 1} /\ j \in 1..n \cup {n + 1}
      BY <3>0
    <3>4. CASE i \in 1..n /\ j \in 1..n
      <4>1. calls[i].plugin = calls[j].plugin /\ i \in DOMAIN calls /\ j \in DOMAIN calls
        BY <3>0, <3>4
      <4> QED
        BY <4>1 DEF CalledOnce, Unload!HookOnce
    <3>5. CASE ~(i \in 1..n /\ j \in 1..n)
      BY <3>0, <3>2, <3>3, <3>5
    <3> QED
      BY <3>4, <3>5
  <2> QED
    BY <2>2, <2>3, <2>5, <2>6, <2>7 DEF CalledOnce
<1>7. ASSUME NEW a \in Unload!Actors, Unload!Return(a) PROVE CalledOnce'
  BY <1>4, <1>7 DEF Unload!Return
<1>8. ASSUME NEW a \in Unload!Actors, Unload!Swept(a) PROVE CalledOnce'
  <2>1. CASE step' = step
    BY <1>8, <2>1, CalledOnceStays DEF Unload!Swept, Unload!Current
  <2>2. CASE step' = [step EXCEPT ![a] = "done"]
    BY <1>1, <1>8, <2>2 DEF Unload!Swept
  <2> QED
    BY <1>8, <2>1, <2>2 DEF Unload!Swept
<1>9. CASE UNCHANGED unloadVars
  BY <1>9, CalledOnceStays DEF unloadVars, Unload!Current
<1> QED
  BY <1>2, <1>3, <1>5, <1>6, <1>7, <1>8, <1>9 DEF Unload!Next, Unload!Step

\* markUnloaded lets one caller through: whatever restarts, failed restarts, exits and
\* removals of the plugin meet, its hook is called once at most.
THEOREM HooksAreCalledOnce == Spec => []Unload!HookOnce
<1>1. Init => CalledOnce
  BY DEF Init, Unload!Init, CalledOnce, Called, Unload!HookOnce
<1>2. CalledOnce => Unload!HookOnce
  BY DEF CalledOnce
<1> QED
  BY <1>1, <1>2, CalledOnceStep, UnloadTypesHold, UnloadSteps, PTL DEF Spec
-------------------------------------------------------------------------------
\* What a sweep of a restart has behind it: before a mark, the plugins after its place are
\* marked, and no hook runs; at a call or a hook, its plugin is the first that is marked.
\* All hooks of marked plugins have been called, but for the one it is about to call.
SweptSoFar(a) ==
  CASE step[a] = "mark" -> /\ \A p \in Unload!Hooks : p > at[a] => p \in marked
                           /\ running = {} /\ marked \subseteq Called
    [] step[a] = "call" -> /\ \A p \in Unload!Hooks : p > at[a] => p \in marked
                           /\ \A p \in marked : p >= at[a]
                           /\ running = {} /\ marked \ {at[a]} \subseteq Called
    [] step[a] = "hook" -> /\ \A p \in Unload!Hooks : p > at[a] => p \in marked
                           /\ running = {at[a]} /\ marked \subseteq Called
    [] OTHER -> TRUE

\* One restart sweeps at a time, and each sweep finds the marks of a failed one before it.
OneSweep ==
  /\ \A a \in Restarts : step[a] \in {"mark", "call", "hook"} => mutex = {a} /\ SweptSoFar(a)
  /\ \A p \in marked, q \in Unload!Hooks : q > p => q \in marked
  /\ mutex = {} => running = {} /\ marked \subseteq Called
  /\ Unload!CleanedBeforeEnd
  /\ Unload!ReverseOrder

\* Who swept has the mutex; the others keep their place.
LEMMA OthersDoNotSweep ==
  ASSUME UnloadTypes, OneSweep, NEW a \in Restarts, NEW b \in Restarts, b # a,
         mutex = {a}
  PROVE  step[b] \notin {"mark", "call", "hook"}
BY DEF OneSweep

LEMMA OneSweepStep ==
  ASSUME UnloadTypes, CalledOnce, Unload!OnlyRestarts, Unload!OnlyRestarts', OneSweep,
         [Unload!Next]_unloadVars
  PROVE  OneSweep'
<1>0. /\ step \in [Unload!Actors -> {"idle", "lock", "mark", "call", "hook", "removed", "done"}]
      /\ at \in [Unload!Actors -> 0..Hooked]
      /\ Hooked \in Nat /\ Restarts \subseteq Unload!Actors
      /\ \A a \in Restarts : a \notin Removals
      /\ \A a \in Unload!Actors : step[a] # "idle" => a \in Restarts
  BY Assumptions DEF UnloadTypes, Unload!TypeOK, Unload!UnloadAssumption, Unload!Actors,
                     Unload!OnlyRestarts
<1>1. \A a \in Restarts : Unload!Current(a) = at[a]
  BY <1>0 DEF Unload!Current
<1>2. ASSUME NEW a \in Unload!Actors, Unload!Request(a), UNCHANGED ended PROVE OneSweep'
  <2>1. a \in Restarts
    <3> SUFFICES ASSUME a \notin Restarts PROVE FALSE
      OBVIOUS
    <3>1. step'[a] = "mark" /\ a \in Exits \cup Removals
      BY <1>0, <1>2 DEF Unload!Request, Unload!Goto, Unload!Actors
    <3> QED
      BY <3>1 DEF Unload!OnlyRestarts
  <2>2. /\ step' = [step EXCEPT ![a] = "lock"]
        /\ UNCHANGED <<at, marked, calls, running, mutex, ended>>
    BY <1>2, <2>1 DEF Unload!Request, Unload!Goto
  <2>3. \A b \in Restarts : step'[b] \in {"mark", "call", "hook"} => b # a /\ step'[b] = step[b]
    BY <1>0, <2>2
  <2> QED
    BY <2>2, <2>3 DEF OneSweep, SweptSoFar, Called, Unload!CleanedBeforeEnd, Unload!ReverseOrder
<1>3. ASSUME NEW a \in Unload!Actors, Unload!Lock(a), UNCHANGED ended PROVE OneSweep'
  <2>0. a \in Restarts /\ mutex = {} /\ UNCHANGED <<marked, calls, running, ended>>
    BY <1>3 DEF Unload!Lock, UnloadTypes
  <2>1. \A b \in Restarts : step[b] \notin {"mark", "call", "hook"}
    BY <2>0 DEF OneSweep
  <2>2. running = {} /\ marked \subseteq Called
    BY <2>0 DEF OneSweep
  <2>3. CASE started
    <3>1. step' = [step EXCEPT ![a] = "done"] /\ mutex' = mutex
      BY <1>3, <2>3 DEF Unload!Lock, Unload!Goto
    <3>2. \A b \in Restarts : step'[b] \notin {"mark", "call", "hook"}
      BY <1>0, <2>1, <3>1
    <3> QED
      BY <2>0, <3>1, <3>2 DEF OneSweep, Called, Unload!CleanedBeforeEnd, Unload!ReverseOrder
  <2>4. CASE ~started
    <3>1. /\ step' = [step EXCEPT ![a] = "mark"] /\ mutex' = {a}
          /\ at' = [at EXCEPT ![a] = Hooked]
      BY <1>3, <2>4 DEF Unload!Lock, Unload!Goto
    <3>2. \A b \in Restarts : step'[b] \in {"mark", "call", "hook"} => b = a
      BY <1>0, <2>1, <3>1
    <3>3. step'[a] = "mark" /\ at'[a] = Hooked
      BY <1>0, <2>0, <3>1
    <3>4. \A p \in Unload!Hooks : ~(p > Hooked)
      BY <1>0 DEF Unload!Hooks
    <3>5. SweptSoFar(a)'
      BY <2>0, <2>2, <3>3, <3>4 DEF SweptSoFar, Called
    <3> QED
      BY <2>0, <2>2, <3>1, <3>2, <3>5
      DEF OneSweep, Called, Unload!CleanedBeforeEnd, Unload!ReverseOrder
  <2> QED
    BY <2>3, <2>4
<1>4. ASSUME NEW a \in Restarts, at[a] \in Nat \ {0}, Unload!Advance(a),
             mutex = {a}, mutex' = mutex,
             \A p \in Unload!Hooks : p > at[a] => p \in marked,
             at[a] \in marked, running' = {}, marked \subseteq Called,
             UNCHANGED <<marked, calls, ended>>
      PROVE  OneSweep'
  <2>1. step' = [step EXCEPT ![a] = "mark"] /\ at' = [at EXCEPT ![a] = at[a] - 1]
    BY <1>0, <1>4 DEF Unload!Advance, Unload!Goto
  <2>2. step'[a] = "mark" /\ at'[a] = at[a] - 1
    BY <1>0, <1>4, <2>1
  <2>3. \A p \in Unload!Hooks : p > at[a] - 1 => p = at[a] \/ p > at[a]
    BY <1>0, <1>4 DEF Unload!Hooks
  <2>4. SweptSoFar(a)'
    BY <1>4, <2>2, <2>3 DEF SweptSoFar, Called
  <2>5. \A b \in Restarts : step'[b] \in {"mark", "call", "hook"} => b = a
    BY <1>0, <1>4, <2>1, OthersDoNotSweep
  <2>6. Unload!CleanedBeforeEnd'
    BY <1>4 DEF OneSweep, Unload!CleanedBeforeEnd
  <2> QED
    BY <1>4, <2>4, <2>5, <2>6 DEF OneSweep, Called, Unload!ReverseOrder
<1>5. ASSUME NEW a \in Unload!Actors, Unload!Mark(a), UNCHANGED ended PROVE OneSweep'
  <2>1. /\ a \in Restarts /\ mutex = {a} /\ at[a] \in Nat \ {0} /\ step[a] = "mark"
        /\ \A p \in Unload!Hooks : p > at[a] => p \in marked
        /\ running = {} /\ marked \subseteq Called
    BY <1>0, <1>5 DEF Unload!Mark, OneSweep, SweptSoFar
  <2>2. CASE at[a] \in marked
    BY <1>1, <1>4, <1>5, <2>1, <2>2 DEF Unload!Mark
  <2>3. CASE at[a] \notin marked
    <3>1. /\ marked' = marked \cup {at[a]} /\ step' = [step EXCEPT ![a] = "call"]
          /\ UNCHANGED <<at, calls, running, mutex, ended>>
      BY <1>1, <1>5, <2>1, <2>3 DEF Unload!Mark, Unload!Goto
    <3>2. \A b \in Restarts : step'[b] \in {"mark", "call", "hook"} => b = a
      BY <1>0, <2>1, <3>1, OthersDoNotSweep
    <3>3. step'[a] = "call"
      BY <1>0, <2>1, <3>1
    <3>4. at[a] \in Unload!Hooks /\ marked \subseteq Unload!Hooks
      BY <1>0, <2>1 DEF Unload!Hooks, UnloadTypes, Unload!TypeOK
    <3>5. \A p \in marked' : p >= at[a]
      <4> TAKE p \in marked'
      <4>1. CASE p = at[a]
        BY <2>1, <4>1
      <4>2. CASE p \in marked
        <5>1. ~(at[a] > p)
          BY <2>3, <3>4, <4>2 DEF OneSweep
        <5> QED
          BY <1>0, <2>1, <3>4, <4>2, <5>1 DEF Unload!Hooks
      <4> QED
        BY <3>1, <4>1, <4>2
    <3>6. SweptSoFar(a)'
      BY <2>1, <3>1, <3>3, <3>5 DEF SweptSoFar, Called
    <3>7. \A p \in marked', q \in Unload!Hooks : q > p => q \in marked'
      BY <2>1, <3>1 DEF OneSweep
    <3> QED
      BY <2>1, <3>1, <3>2, <3>6, <3>7
      DEF OneSweep, Unload!CleanedBeforeEnd, Unload!ReverseOrder
  <2> QED
    BY <2>2, <2>3
<1>6. ASSUME NEW a \in Unload!Actors, Unload!Call(a), UNCHANGED ended, ~ended PROVE OneSweep'
  <2>1. /\ a \in Restarts /\ mutex = {a} /\ step[a] = "call"
        /\ \A p \in Unload!Hooks : p > at[a] => p \in marked
        /\ \A p \in marked : p >= at[a]
        /\ running = {} /\ marked \ {at[a]} \subseteq Called
    BY <1>0, <1>6 DEF Unload!Call, OneSweep, SweptSoFar
  <2>2. /\ step' = [step EXCEPT ![a] = "hook"] /\ running' = {at[a]}
        /\ UNCHANGED <<at, marked, mutex, ended>>
    BY <1>1, <1>6, <2>1 DEF Unload!Call, Unload!Goto
  <2>3. \A b \in Restarts : step'[b] \in {"mark", "call", "hook"} => b = a
    BY <1>0, <2>1, <2>2, OthersDoNotSweep
  <2>4. step'[a] = "hook"
    BY <1>0, <2>1, <2>2
  <2>5. Called' = Called \cup {at[a]}
    BY <1>0, <1>1, <1>6, <2>1, CallAppends
  <2>6. SweptSoFar(a)'
    BY <2>1, <2>2, <2>4, <2>5 DEF SweptSoFar
  <2>7. Unload!ReverseOrder'
    <3> DEFINE n == Len(calls)
    <3>1. /\ DOMAIN calls = 1..n /\ DOMAIN calls' = 1..(n + 1) /\ n \in Nat
          /\ \A k \in 1..n : calls'[k] = calls[k]
          /\ calls'[n + 1].plugin = at[a]
      BY <1>1, <1>6, <2>1, CallAppends
    <3> HIDE DEF n
    <3>2. \A k \in 1..n : calls[k].plugin \in Called
      BY <3>1 DEF Called
    <3>3. at[a] \notin Called /\ Called \subseteq marked /\ marked \subseteq Unload!Hooks
      BY <1>0, <1>1, <2>1 DEF CalledOnce, UnloadTypes, Unload!TypeOK
    <3>4. at[a] \in Nat /\ \A p \in Unload!Hooks : p \in Nat
      BY <1>0, <2>1 DEF Unload!Hooks
    <3>5. \A k \in 1..n : calls[k].plugin > at[a]
      <4> TAKE k \in 1..n
      <4>1. calls[k].plugin \in marked /\ calls[k].plugin # at[a] /\ calls[k].plugin \in Nat
        BY <3>2, <3>3, <3>4
      <4>2. calls[k].plugin >= at[a]
        BY <2>1, <4>1
      <4> QED
        BY <3>4, <4>1, <4>2
    <3> SUFFICES ASSUME NEW i \in DOMAIN calls', NEW j \in DOMAIN calls',
                        calls'[i].reason = "shutdown", calls'[j].reason = "shutdown", i < j
                 PROVE  calls'[i].plugin > calls'[j].plugin
      BY DEF Unload!ReverseOrder
    <3>6. i \in 1..n /\ (j \in 1..n \/ j = n + 1)
      BY <3>1
    <3>7. CASE j \in 1..n
      <4>1. /\ calls[i].reason = "shutdown" /\ calls[j].reason = "shutdown"
            /\ i \in DOMAIN calls /\ j \in DOMAIN calls
        BY <3>1, <3>6, <3>7
      <4>2. calls[i].plugin > calls[j].plugin
        BY <4>1 DEF OneSweep, Unload!ReverseOrder
      <4> QED
        BY <3>1, <3>6, <3>7, <4>2
    <3>8. CASE j = n + 1
      BY <3>1, <3>5, <3>6, <3>8
    <3> QED
      BY <3>6, <3>7, <3>8
  <2>8. Unload!CleanedBeforeEnd'
    BY <1>6 DEF Unload!CleanedBeforeEnd
  <2>9. \A p \in marked', q \in Unload!Hooks : q > p => q \in marked'
    BY <2>2 DEF OneSweep
  <2>10. mutex' # {}
    BY <2>1, <2>2
  <2> QED
    BY <2>1, <2>2, <2>3, <2>6, <2>7, <2>8, <2>9, <2>10 DEF OneSweep
<1>7. ASSUME NEW a \in Unload!Actors, Unload!Return(a), UNCHANGED ended PROVE OneSweep'
  <2>1. /\ a \in Restarts /\ mutex = {a} /\ step[a] = "hook"
        /\ \A p \in Unload!Hooks : p > at[a] => p \in marked
        /\ running = {at[a]} /\ marked \subseteq Called
    BY <1>0, <1>7 DEF Unload!Return, OneSweep, SweptSoFar
  <2>2. at[a] \in Nat \ {0} /\ at[a] \in marked
    BY <1>0, <1>1, <2>1 DEF UnloadTypes
  <2>3. running' = {}
    BY <1>1, <1>7, <2>1 DEF Unload!Return
  <2> QED
    BY <1>4, <1>7, <2>1, <2>2, <2>3 DEF Unload!Return
<1>8. ASSUME NEW a \in Unload!Actors, Unload!Swept(a) PROVE OneSweep'
  <2>1. /\ a \in Restarts /\ mutex = {a} /\ step[a] = "mark" /\ at[a] = 0
        /\ \A p \in Unload!Hooks : p > at[a] => p \in marked
        /\ running = {} /\ marked \subseteq Called
    BY <1>0, <1>8 DEF Unload!Swept, OneSweep, SweptSoFar
  <2>2. Unload!Hooks \subseteq Called
    BY <1>0, <2>1 DEF Unload!Hooks
  <2>3. UNCHANGED <<marked, calls, running, at>>
    BY <1>8 DEF Unload!Swept
  <2>4. Unload!CleanedBeforeEnd'
    BY <2>1, <2>2, <2>3 DEF Unload!CleanedBeforeEnd, Called
  <2>5. Unload!ReverseOrder' /\ Called' = Called
    BY <2>3 DEF OneSweep, Unload!ReverseOrder, Called
  <2>6. CASE UNCHANGED <<mutex, step>>
    BY <2>3, <2>4, <2>5, <2>6 DEF OneSweep, SweptSoFar
  <2>7. CASE mutex' = {} /\ step' = [step EXCEPT ![a] = "done"]
    <3>1. \A b \in Restarts : step'[b] \notin {"mark", "call", "hook"}
      BY <1>0, <2>1, <2>7, OthersDoNotSweep
    <3> QED
      BY <2>1, <2>3, <2>4, <2>5, <3>1 DEF OneSweep
  <2> QED
    BY <1>8, <2>6, <2>7 DEF Unload!Swept, Unload!Goto
<1>9. CASE UNCHANGED unloadVars
  BY <1>9 DEF unloadVars, OneSweep, SweptSoFar, Called, Unload!CleanedBeforeEnd,
              Unload!ReverseOrder
<1> QED
  BY <1>2, <1>3, <1>5, <1>6, <1>7, <1>8, <1>9 DEF Unload!Next, Unload!Step

LEMMA OnlyRestartsWas ==
  ASSUME UnloadTypes, [Unload!Next]_unloadVars, Unload!OnlyRestarts' PROVE Unload!OnlyRestarts
<1>1. step \in [Unload!Actors -> {"idle", "lock", "mark", "call", "hook", "removed", "done"}]
  BY DEF UnloadTypes, Unload!TypeOK
<1>2. \A a, b \in Unload!Actors : step'[b] = "idle" /\ (Unload!Request(a) \/ Unload!Lock(a)
        \/ Unload!Mark(a) \/ Unload!Call(a) \/ Unload!Return(a) \/ Unload!Swept(a))
          => step[b] = "idle"
  BY <1>1 DEF Unload!Request, Unload!Lock, Unload!Mark, Unload!Call, Unload!Return,
              Unload!Swept, Unload!Advance, Unload!Goto
<1>3. \A b \in Unload!Actors : step'[b] = "idle" => step[b] = "idle"
  BY <1>2 DEF Unload!Next, Unload!Step, unloadVars
<1> QED
  BY <1>3 DEF Unload!OnlyRestarts, Unload!Actors

\* The unload hooks, for any number of plugins and requests: none is called twice, and as
\* long as only restarts came, all have been called and have returned before the process
\* ends, in the reverse order of the start, across restarts that failed.
THEOREM HooksRunInOrder == Spec => []HooksRunOnceInOrder
<1>1. Init => CalledOnce /\ (Unload!OnlyRestarts => OneSweep)
  BY DEF Init, Unload!Init, CalledOnce, OneSweep, Called, Unload!HookOnce,
         Unload!CleanedBeforeEnd, Unload!ReverseOrder, Unload!Actors
<1>2. UnloadTypes /\ CalledOnce /\ (Unload!OnlyRestarts => OneSweep) /\ [Next]_vars
        => (CalledOnce /\ (Unload!OnlyRestarts => OneSweep))'
  BY CalledOnceStep, OneSweepStep, OnlyRestartsWas, UnloadSteps
<1>3. CalledOnce /\ (Unload!OnlyRestarts => OneSweep) => HooksRunOnceInOrder
  BY DEF CalledOnce, OneSweep, HooksRunOnceInOrder
<1> QED
  BY <1>1, <1>2, <1>3, UnloadTypesHold, PTL DEF Spec

\* The dispatch of events, for any number of deliveries, events, plugins and crashes: an
\* event with a key reaches the plugins once while the store is sound, no chain is cut
\* short, and nothing is swallowed while replies arrive and the process lives.
THEOREM DispatchIsOnceAndWhole == Spec => []DispatchedOnceAndWhole
<1> DEFINE Parts == /\ Dispatch!TypeOK /\ UnloadTypes
                    /\ Dispatch!HandledOnce /\ Dispatch!ChainIsComplete
                    /\ RepliesArrive => Dispatch!NeverSwallowed
<1>1. Parts => DispatchedOnceAndWhole
  BY DEF UnloadTypes, TypeOK, DispatchedOnceAndWhole, RepliesArrive
<1> QED
  BY <1>1, DispatchTypes, UnloadTypesHold, PluginsSeeItOnce, ChainsAreWhole,
     NothingIsSwallowed, PTL
================================================================================
