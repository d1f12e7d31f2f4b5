----------------------------- MODULE ChatResidency -----------------------------
(***************************************************************************)
(* Which ChatBots are in memory: getChat, which makes one and replays its   *)
(* stored history, the janitor that evicts the idle and the superfluous,     *)
(* and the clearing of a group's history after so many messages without a   *)
(* mention (pluginaichat/chatcache.go, nomention.go, llm.go, plugin.go).     *)
(*                                                                         *)
(* A turn is one step here, one that answers and clears nothing of its own   *)
(* (Conversation has the others and its inside), and so is tryLock           *)
(* (SessionLock); full queues are in ChatSession.  A ChatBot is a number;    *)
(* its window holds the messages it has answered.                           *)
(***************************************************************************)
EXTENDS Naturals, Sequences, FiniteSets, Functions

CONSTANTS Groups,
          Mentions,     \* messages to the AI, with their goroutine
          Chatter,      \* the other messages, with their goroutine
          GroupOf,
          Threshold,    \* no_mention_clear, 0 is off
          Every,        \* noMentionPersistEvery
          MaxIdle, MaxSessions,  \* of the janitor, 0 is off
          MaxTime, MaxCrashes    \* bounds

Janitor == "janitor"
Free    == "free"
Actors  == Mentions \cup Chatter

ResidencyAssumption ==
  /\ GroupOf \in [Actors -> Groups] /\ Mentions \cap Chatter = {}
  /\ {Janitor, Free} \cap Actors = {}
  /\ {Threshold, MaxIdle, MaxSessions, MaxTime, MaxCrashes} \subseteq Nat /\ Every \in Nat \ {0}

VARIABLES bots,    \* bots[e]: window and lastActive of the e-th ChatBot that was made
          chats,   \* chats[g]: the ChatBot in memory, 0 is none
          rows,    \* the stored history
          pending, \* the queue
          lock,
          count, stored, loaded,  \* noMentionCount, its stored copy, noMentionLoaded
          pc, mine, batch,        \* of each message's goroutine: the ChatBot it has, its batch
          sweep,   \* the janitor
          now, crashes

vars == <<bots, chats, rows, pending, lock, count, stored, loaded, pc, mine, batch, sweep, now,
          crashes>>
chatVars  == <<bots, chats, rows, pending>>
countVars == <<count, stored, loaded>>
procVars  == <<pc, mine, batch>>
timeVars  == <<now, crashes>>

Off == [at |-> "off", all |-> {}, todo |-> {}, group |-> Free, bot |-> 0, seen |-> 0, full |-> FALSE]

Init ==
  /\ bots = <<>> /\ chats = [g \in Groups |-> 0] /\ rows = [g \in Groups |-> <<>>]
  /\ pending = [g \in Groups |-> <<>>] /\ lock = [g \in Groups |-> Free]
  /\ count = [g \in Groups |-> 0] /\ stored = [g \in Groups |-> 0] /\ loaded = {}
  /\ pc = [a \in Actors |-> "new"] /\ mine = [a \in Actors |-> 0]
  /\ batch = [a \in Actors |-> <<>>] /\ sweep = Off /\ now = 0 /\ crashes = 0

Group(a)   == GroupOf[a]
Goto(a, p) == pc' = [pc EXCEPT ![a] = p]
Lock(a)    == lock[Group(a)] = Free /\ lock' = [lock EXCEPT ![Group(a)] = a]
Unlock(g)  == lock' = [lock EXCEPT ![g] = Free]
\* touchChat of the ChatBot in memory.
Touched(g) == IF chats[g] = 0 THEN bots ELSE [bots EXCEPT ![chats[g]].last = now]
-------------------------------------------------------------------------------
(* A message to the AI: OnGroupMsg from tryLock on.                        *)

Begin(m) ==
  /\ pc[m] = "new" /\ Lock(m) /\ bots' = Touched(Group(m)) /\ Goto(m, "locked")
  /\ UNCHANGED <<chats, rows, pending, countVars, mine, batch, sweep, timeVars>>

\* Refused the lock: it queues, and only then refreshes the ChatBot.
Refused(m) ==
  /\ pc[m] = "new" /\ lock[Group(m)] # Free /\ Goto(m, "refused")
  /\ UNCHANGED <<chatVars, lock, countVars, mine, batch, sweep, timeVars>>
Queue(m) ==
  /\ pc[m] = "refused"
  /\ pending' = [pending EXCEPT ![Group(m)] = Append(@, m)] /\ Goto(m, "queued")
  /\ UNCHANGED <<bots, chats, rows, lock, countVars, mine, batch, sweep, timeVars>>
TouchQueued(m) ==
  /\ pc[m] = "queued" /\ bots' = Touched(Group(m)) /\ Goto(m, "done")
  /\ UNCHANGED <<chats, rows, pending, lock, countVars, mine, batch, sweep, timeVars>>

\* getChat: the one in memory, or a new one that replays the stored history.
GetChat(m) ==
  LET g == Group(m) IN
  /\ pc[m] = "locked" /\ Goto(m, "apply")
  /\ IF chats[g] # 0 THEN bots' = Touched(g) /\ UNCHANGED chats
     ELSE /\ bots' = Append(bots, [window |-> rows[g], last |-> now])
          /\ chats' = [chats EXCEPT ![g] = Len(bots) + 1]
  /\ mine' = [mine EXCEPT ![m] = chats'[g]]
  /\ UNCHANGED <<rows, pending, lock, countVars, batch, sweep, timeVars>>

\* restoreNoMentionLocked: once for each group, from the store.
Restored(g) == IF g \in loaded \/ stored[g] = 0 THEN count[g] ELSE stored[g]
\* clearChatHistory: the window of this ChatBot and the stored rows.
ClearHistory(a) ==
  /\ bots' = [bots EXCEPT ![mine[a]].window = <<>>]
  /\ rows' = [rows EXCEPT ![Group(a)] = <<>>]
\* resetNoMention.
Reset(g) == count' = [count EXCEPT ![g] = 0] /\ stored' = [stored EXCEPT ![g] = 0]

\* applyNoMentionClear: what is due is cleared, and the counter starts anew.
ApplyClear(m) ==
  LET g == Group(m) IN
  /\ pc[m] = "apply" /\ Goto(m, "reset")
  /\ IF Threshold > 0 THEN count' = [count EXCEPT ![g] = Restored(g)] /\ loaded' = loaded \cup {g}
                      ELSE UNCHANGED <<count, loaded>>
  /\ IF Threshold > 0 /\ count'[g] >= Threshold THEN ClearHistory(m) ELSE UNCHANGED <<bots, rows>>
  /\ UNCHANGED <<chats, pending, lock, stored, mine, batch, sweep, timeVars>>
ApplyReset(m) ==
  /\ pc[m] = "reset" /\ Goto(m, "drain") /\ Reset(Group(m))
  /\ batch' = [batch EXCEPT ![m] = <<m>>]
  /\ UNCHANGED <<chatVars, lock, loaded, mine, sweep, timeVars>>

\* The queue is drained before the first turn and after each.
Drain(m) ==
  LET g == Group(m)
      next == pending[g] \o batch[m] IN
  /\ pc[m] = "drain" /\ pending' = [pending EXCEPT ![g] = <<>>]
  /\ batch' = [batch EXCEPT ![m] = next] /\ Goto(m, IF next = <<>> THEN "leave" ELSE "turn")
  /\ UNCHANGED <<bots, chats, rows, lock, countVars, mine, sweep, timeVars>>

\* processChatBatch: appended to the window of the goroutine's ChatBot, and to the rows.
Turn(m) ==
  /\ pc[m] = "turn" /\ Goto(m, "drain")
  /\ bots' = [bots EXCEPT ![mine[m]].window = @ \o batch[m]]
  /\ rows' = [rows EXCEPT ![Group(m)] = @ \o batch[m]] /\ batch' = [batch EXCEPT ![m] = <<>>]
  /\ UNCHANGED <<chats, pending, lock, countVars, mine, sweep, timeVars>>

Leave(m) ==
  /\ pc[m] = "leave" /\ Unlock(Group(m)) /\ Goto(m, "done")
  /\ UNCHANGED <<chatVars, countVars, mine, batch, sweep, timeVars>>
-------------------------------------------------------------------------------
(* A message without a mention.                                            *)

\* persistNoMentionLocked: at every multiple, and from the threshold on.
Persisted(g, cnt) ==
  IF cnt % Every # 0 /\ cnt < Threshold THEN stored ELSE [stored EXCEPT ![g] = cnt]
\* incrNoMention.
Incr(u) ==
  LET g == Group(u)
      cnt == Restored(g) + 1 IN
  /\ pc[u] = "new" /\ Threshold > 0
  /\ count' = [count EXCEPT ![g] = cnt] /\ loaded' = loaded \cup {g}
  /\ stored' = Persisted(g, cnt)
  /\ Goto(u, IF cnt >= Threshold THEN "try" ELSE "done")
  /\ UNCHANGED <<chatVars, lock, mine, batch, sweep, timeVars>>

\* tryClearNoMentionChat: the ChatBot is looked up before the lock.
Find(u) ==
  /\ pc[u] = "try" /\ mine' = [mine EXCEPT ![u] = chats[Group(u)]]
  /\ Goto(u, IF mine'[u] = 0 THEN "done" ELSE "found")
  /\ UNCHANGED <<chatVars, lock, countVars, batch, sweep, timeVars>>
TryLock(u) ==
  /\ pc[u] = "found"
  /\ \/ Lock(u) /\ Goto(u, "clear")
     \/ lock[Group(u)] # Free /\ Goto(u, "done") /\ UNCHANGED lock
  /\ UNCHANGED <<chatVars, countVars, mine, batch, sweep, timeVars>>
Clear(u) ==
  /\ pc[u] = "clear" /\ ClearHistory(u) /\ Goto(u, "unlock")
  /\ UNCHANGED <<chats, pending, lock, countVars, mine, batch, sweep, timeVars>>
UnlockCleared(u) ==
  /\ pc[u] = "unlock" /\ Unlock(Group(u)) /\ Goto(u, "reset")
  /\ UNCHANGED <<chatVars, countVars, mine, batch, sweep, timeVars>>
ResetCleared(u) ==
  /\ pc[u] = "reset" /\ Reset(Group(u)) /\ Goto(u, "done")
  /\ UNCHANGED <<chatVars, lock, loaded, mine, batch, sweep, timeVars>>
-------------------------------------------------------------------------------
(* The janitor: evictChats, a round at a time.                             *)

Sweeping(next) == sweep' = next /\ UNCHANGED <<chatVars, countVars, procVars, timeVars>>

Sweep ==
  LET all == {g \in Groups : chats[g] # 0} IN
  /\ sweep.at = "off" /\ all # {} /\ MaxIdle + MaxSessions > 0
  /\ Sweeping([Off EXCEPT !.at = "look", !.all = {<<g, chats[g]>> : g \in all},
                          !.todo = IF MaxIdle > 0 THEN {<<g, chats[g]>> : g \in all} ELSE {}])
  /\ UNCHANGED lock

\* The idle ones first; evictOneChat reads lastActive before it tries the lock.
Look ==
  /\ sweep.at = "look"
  /\ \E i \in sweep.todo :
       LET last == bots[i[2]].last
           rest == [sweep EXCEPT !.todo = @ \ {i}] IN
       IF sweep.full \/ now - last > MaxIdle
       THEN Sweeping([rest EXCEPT !.at = "lock", !.group = i[1], !.bot = i[2], !.seen = last])
       ELSE Sweeping(rest)
  /\ UNCHANGED lock

\* Then those beyond the capacity, the least recently used first.
Overflow ==
  /\ sweep.at = "look" /\ sweep.todo = {} /\ ~sweep.full
  /\ IF MaxSessions > 0 /\ Cardinality(sweep.all) > MaxSessions
     THEN \E keep \in SUBSET sweep.all :
            /\ Cardinality(keep) = MaxSessions
            /\ \A i \in keep, j \in sweep.all \ keep : bots[j[2]].last <= bots[i[2]].last
            /\ Sweeping([sweep EXCEPT !.full = TRUE, !.todo = sweep.all \ keep])
     ELSE Sweeping(Off)
  /\ UNCHANGED lock
SweepEnds ==
  /\ sweep.at = "look" /\ sweep.todo = {} /\ sweep.full /\ Sweeping(Off) /\ UNCHANGED lock

LockToEvict ==
  /\ sweep.at = "lock"
  /\ IF lock[sweep.group] = Free
     THEN lock' = [lock EXCEPT ![sweep.group] = Janitor] /\ Sweeping([sweep EXCEPT !.at = "check"])
     ELSE UNCHANGED lock /\ Sweeping([sweep EXCEPT !.at = "look"])

Recheck ==
  /\ sweep.at = "check" /\ UNCHANGED lock
  /\ IF bots[sweep.bot].last # sweep.seen \/ pending[sweep.group] # <<>>
     THEN Sweeping([sweep EXCEPT !.at = "unlock"])
     ELSE Sweeping([sweep EXCEPT !.at = "delete"])

\* CompareAndDelete: only the entry that was looked at.
Delete ==
  /\ sweep.at = "delete" /\ sweep' = [sweep EXCEPT !.at = "unlock"]
  /\ chats' = IF chats[sweep.group] = sweep.bot THEN [chats EXCEPT ![sweep.group] = 0] ELSE chats
  /\ UNCHANGED <<bots, rows, pending, lock, countVars, procVars, timeVars>>

UnlockEvicted ==
  /\ sweep.at = "unlock" /\ Unlock(sweep.group) /\ Sweeping([sweep EXCEPT !.at = "look"])

Tick == now < MaxTime /\ now' = now + 1
        /\ UNCHANGED <<chatVars, lock, countVars, procVars, sweep, crashes>>

\* The process ends and starts again: the rows and the stored counters remain.
Crash ==
  /\ crashes < MaxCrashes /\ crashes' = crashes + 1
  /\ chats' = [g \in Groups |-> 0] /\ pending' = [g \in Groups |-> <<>>]
  /\ lock' = [g \in Groups |-> Free] /\ count' = [g \in Groups |-> 0] /\ loaded' = {}
  /\ pc' = [a \in Actors |-> IF pc[a] = "new" THEN "new" ELSE "done"]
  /\ batch' = [a \in Actors |-> <<>>] /\ sweep' = Off
  /\ UNCHANGED <<bots, rows, stored, mine, now>>

Handle(m) == \/ Begin(m) \/ Refused(m) \/ Queue(m) \/ TouchQueued(m) \/ GetChat(m)
             \/ ApplyClear(m) \/ ApplyReset(m) \/ Drain(m) \/ Turn(m) \/ Leave(m)
Ignore(u) == \/ Incr(u) \/ Find(u) \/ TryLock(u) \/ Clear(u) \/ UnlockCleared(u)
             \/ ResetCleared(u)
Evicts == \/ Sweep \/ Look \/ Overflow \/ SweepEnds \/ LockToEvict \/ Recheck \/ Delete
          \/ UnlockEvicted
Next == \/ \E m \in Mentions : Handle(m)
        \/ \E u \in Chatter : Ignore(u)
        \/ Evicts \/ Tick \/ Crash
Spec == Init /\ [][Next]_vars
-------------------------------------------------------------------------------
Bot     == [window : Seq(Mentions), last : 0..MaxTime]
Entries == Groups \X (1..Len(bots))
Sweeps  == [at : {"off", "look", "lock", "check", "delete", "unlock"},
            all : SUBSET Entries, todo : SUBSET Entries, group : Groups \cup {Free},
            bot : 0..Len(bots), seen : 0..MaxTime, full : BOOLEAN]
Places  == {"new", "locked", "refused", "queued", "apply", "reset", "drain", "turn", "leave",
            "try", "found", "clear", "unlock", "done"}
TypeOK ==
  /\ bots \in Seq(Bot) /\ chats \in [Groups -> 0..Len(bots)]
  /\ rows \in [Groups -> Seq(Mentions)] /\ pending \in [Groups -> Seq(Mentions)]
  /\ lock \in [Groups -> Actors \cup {Janitor, Free}]
  /\ count \in [Groups -> Nat] /\ stored \in [Groups -> Nat] /\ loaded \subseteq Groups
  /\ pc \in [Actors -> Places]
  /\ mine \in [Actors -> 0..Len(bots)] /\ batch \in [Actors -> Seq(Mentions)]
  /\ sweep \in Sweeps
  /\ now \in 0..MaxTime /\ crashes \in 0..MaxCrashes

\* The ChatBot that a goroutine of a session answers with is the one in memory, and nobody
\* else answers with one of that session: none is evicted, nor made again, under its driver.
Drives(m) == pc[m] \in {"apply", "reset", "drain", "turn", "leave"}
DriverIsResident ==
  \A m \in Mentions : Drives(m) =>
    /\ chats[Group(m)] = mine[m] /\ lock[Group(m)] = m
    /\ \A o \in Mentions : Drives(o) /\ Group(o) = Group(m) => o = m

\* What a ChatBot in memory remembers is what is stored, so that an eviction or a restart
\* loses nothing and brings nothing back.
RowsAreWindow ==
  \A g \in Groups : chats[g] # 0 =>
    bots[chats[g]].window = rows[g]

\* Every message that was answered is in the history, once, unless that was cleared.
AnsweredIsStored ==
  \A g \in Groups :
    /\ \A i, j \in DOMAIN rows[g] : rows[g][i] = rows[g][j] => i = j
    /\ Threshold = 0 /\ crashes = 0 =>
         \A m \in Mentions : pc[m] = "done" /\ Group(m) = g =>
           m \in Range(rows[g]) \cup Range(pending[g]) \cup UNION {Range(batch[o]) : o \in Mentions}

\* A counter that has reached the threshold survives a restart (nomention.go:12).
DueIsStored ==
  Threshold > 0 => \A g \in Groups : g \in loaded /\ count[g] >= Threshold => stored[g] >= Threshold
-------------------------------------------------------------------------------
(* Claims of the sources that do not hold of this model.                   *)

\* An entry with queued messages is not evicted, they are looked for under the lock
\* (chatcache.go:115): they come after the look.
EvictedHasNoQueue ==
  [][\A g \in Groups : chats[g] # 0 /\ chats'[g] = 0 /\ crashes' = crashes => pending[g] = <<>>]_vars

\* "So many messages in a row without a mention" clear the history (nomention.go:13,
\* config.go:266): a goroutine that counted before the last mention clears after it.
DueWhenCleared ==
  [][\A u \in Chatter : pc[u] = "clear" /\ pc'[u] = "unlock" => count[Group(u)] >= Threshold]_vars
-------------------------------------------------------------------------------
(* What makes these inductive.                                             *)

Owns(a) == IF a \in Mentions
           THEN pc[a] \in {"locked", "apply", "reset", "drain", "turn", "leave"}
           ELSE pc[a] \in {"clear", "unlock"}
Evicting == sweep.at \in {"check", "delete", "unlock"}

\* The lock of a group is held by whoever is between taking it and giving it back.
LocksAreHeld ==
  /\ \A a \in Actors : Owns(a) <=> lock[Group(a)] = a
  /\ \A g \in Groups : lock[g] = Janitor <=> Evicting /\ sweep.group = g
\* The janitor looks at an entry that was there.
SweepHasEntry ==
  sweep.at \in {"lock", "check", "delete", "unlock"} => sweep.group \in Groups /\ sweep.bot # 0
\* A mention's goroutine has the ChatBot in memory, the other ones have one.
DriversHaveBots ==
  /\ \A m \in Mentions : Drives(m) => mine[m] # 0 /\ chats[Group(m)] = mine[m]
  /\ \A u \in Chatter : pc[u] \in {"found", "clear"} => mine[u] # 0

\* Nothing is cleared under a ChatBot that another one has replaced.
NoStaleClear == Threshold = 0 \/ MaxIdle + MaxSessions = 0
WindowsAreOwn ==
  /\ \A g, h \in Groups : chats[g] # 0 /\ chats[g] = chats[h] => g = h
  /\ MaxIdle + MaxSessions = 0 => sweep = Off
  /\ \A u \in Chatter : /\ Threshold = 0 => pc[u] = "new"
                        /\ pc[u] \in {"found", "clear"} => chats[Group(u)] = mine[u]

\* A message is in one place: in the rows, in the queue, or in the batch of its group's driver.
Settled(m)    == pc[m] \in {"drain", "turn", "leave", "done", "queued"}
NoneTwice(s)  == \A i, j \in DOMAIN s : s[i] = s[j] => i = j
HasOnce(g, s) == NoneTwice(s) /\ \A m \in Range(s) : Group(m) = g /\ Settled(m)
Apart(s, t)   == Range(s) \cap Range(t) = {}
InOnePlace ==
  /\ \A g \in Groups :
       HasOnce(g, rows[g]) /\ HasOnce(g, pending[g]) /\ Apart(rows[g], pending[g])
  /\ \A o \in Mentions :
       /\ batch[o] # <<>> => pc[o] \in {"drain", "turn"}
       /\ HasOnce(Group(o), batch[o]) /\ Apart(rows[Group(o)], batch[o])
       /\ Apart(pending[Group(o)], batch[o])
\* And it is somewhere, as long as nothing is cleared and nothing is lost in a crash.
IsSomewhere ==
  Threshold = 0 /\ crashes = 0 =>
    \A m \in Mentions : Settled(m) =>
      \/ m \in Range(rows[Group(m)]) \cup Range(pending[Group(m)])
      \/ \E o \in Mentions : Group(o) = Group(m) /\ m \in Range(batch[o])

\* What is not restored is zero.
UnloadedIsZero == \A g \in Groups : g \notin loaded => count[g] = 0

IInv ==
  /\ TypeOK
  /\ LocksAreHeld /\ SweepHasEntry /\ DriversHaveBots
  /\ NoStaleClear => WindowsAreOwn /\ RowsAreWindow
  /\ InOnePlace /\ IsSomewhere
  /\ UnloadedIsZero /\ DueIsStored
===============================================================================
