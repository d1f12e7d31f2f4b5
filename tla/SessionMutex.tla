----------------------------- MODULE SessionMutex -----------------------------
(***************************************************************************)
(* What the session lock of the AI chat plugin promises its callers: at    *)
(* any time a session has at most one owner, and at most RateLimit         *)
(* handlers own a session at all.  busy[h] is the session handler h owns.  *)
(***************************************************************************)
EXTENDS Naturals, FiniteSets

CONSTANTS Sessions,   \* chat sessions (a group or a private chat)
          Handlers,   \* goroutines that may want to respond in a session
          RateLimit,  \* plugin.ai_chat_bot.rate_limit
          None        \* "owns nothing"

VARIABLE busy

Owners == {h \in Handlers : busy[h] # None}

Init == busy = [h \in Handlers |-> None]

\* A handler that owns nothing becomes the owner of a session nobody owns.
Acquire(h, s) ==
  /\ busy[h] = None
  /\ \A g \in Handlers : busy[g] # s
  /\ Cardinality(Owners) < RateLimit
  /\ busy' = [busy EXCEPT ![h] = s]

\* An owner gives its session back.
Release(h) ==
  /\ busy[h] # None
  /\ busy' = [busy EXCEPT ![h] = None]

Next == \E h \in Handlers : Release(h) \/ \E s \in Sessions : Acquire(h, s)

Spec == Init /\ [][Next]_busy
===============================================================================
