------------------------------ MODULE SerialChat ------------------------------
(***************************************************************************)
(* What the chat plugin promises about the messages of a session: they     *)
(* wait, they are worked on in batches, a session never has two batches    *)
(* under way, the messages of a batch are settled together, and a message  *)
(* that was settled is not worked on again.                                *)
(***************************************************************************)
CONSTANTS Sessions, Msgs, SessOf

VARIABLE status   \* status[m]: "out", "waiting", "working" or "settled"

In(s, st) == {m \in Msgs : SessOf[m] = s /\ status[m] = st}
Become(M, st) == status' = [m \in Msgs |-> IF m \in M THEN st ELSE status[m]]

Init == status = [m \in Msgs |-> "out"]

\* A message is taken up.
Arrive(m) == status[m] = "out" /\ Become({m}, "waiting")

\* It is given up before it came (a background task was cancelled).
Withdraw(m) == status[m] = "out" /\ Become({m}, "settled")

\* The name of a settled message is used for a new one.
Forget(m) == status[m] = "settled" /\ Become({m}, "out")

\* A batch begins; the session has no other.
Begin(s, B) ==
  /\ In(s, "working") = {}
  /\ B # {} /\ B \subseteq In(s, "waiting")
  /\ Become(B, "working")

\* The whole batch of a session ends at once, and waiting messages D of the
\* same session may be dropped with it or on their own.
Settle(s, D) ==
  /\ D \subseteq In(s, "waiting")
  /\ Become(D \cup In(s, "working"), "settled") \/ Become(D, "settled")

Next ==
  \/ \E m \in Msgs : Arrive(m) \/ Withdraw(m) \/ Forget(m)
  \/ \E s \in Sessions :
       \/ \E B \in SUBSET In(s, "waiting") : Begin(s, B)
       \/ \E D \in SUBSET In(s, "waiting") : Settle(s, D)

Spec == Init /\ [][Next]_status
===============================================================================
