----------------------------- MODULE MCChatSession -----------------------------
(* TLC instances of ChatSession. *)
EXTENDS ChatSession, TLC

CONSTANTS s1, s2, ua, ub, uc, ux, sub, probe, stop

\* Everything happens in one session, except ux, which is in the other.
MCSessOf == [h \in Handlers \cup Stops |-> IF h = ux THEN s2 ELSE s1]

Symmetry == Permutations({ua, ub, uc})
================================================================================
