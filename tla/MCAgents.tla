-------------------------------- MODULE MCAgents --------------------------------
(* TLC instance of Agents: three requests for approval in two chats, a few     *)
(* subagents of a task and of a session, and teams of two members at a time in *)
(* a request with little time, that are stored, changed or deleted meanwhile.  *)
EXTENDS Agents

CONSTANTS grp, adm,        \* a group and the administrator's chat
          rg, rg2, ra,     \* two requests of the group and one of the admin's chat
          yu, yv, yd       \* a user's and a stranger's yes in grp, and the
                           \* administrator's yes in his chat

MCSessOf == [x \in Requests \cup Replies |-> IF x \in {ra, yd} THEN adm ELSE grp]

\* rg is a user's request, the others are for the administrator only.
MCEntitled == [r \in Requests |-> IF r = rg THEN {yu, yd} ELSE {yd}]

Member(n, r) == [name |-> n, role |-> r]
MCTeamCalls ==
  {[members |-> <<Member("a", "x"), Member("kept", "none")>>, timeout |-> 3],
   [members |-> <<Member("b", "none")>>, timeout |-> 0],
   [members |-> <<Member("a", "x"), Member("a", "none")>>, timeout |-> 0],
   [members |-> <<>>, timeout |-> 0]}
MCDefined   == {<<Member("kept", "x")>>}
================================================================================
