--------------------------------- MODULE MCCore ---------------------------------
(* TLC instance of Core: up to three deliveries of a message, one each of a   *)
(* notice with a key, of one without and of the bot's own message, in four    *)
(* environments; two restarts, /exit and a removal.                           *)
EXTENDS Core

CONSTANTS d1, d2, d3, d4, d6, d7, m1

MCEventOf == [d \in Deliveries |-> CASE d = d4      -> "notice"
                                     [] d = d6 -> "poke"
                                     [] d = d7 -> "own"
                                     [] OTHER  -> "message"]

\* A store in the process, for a message delivered three times and for events of three
\* kinds; a server that comes and goes, with keys that expire; and one that is reached but
\* whose replies may get lost, with a crash of the process.
MCEnvironments ==
  {[made |-> {d1, d2, d3}, remote |-> FALSE, outages |-> FALSE, lost |-> FALSE,
    expire |-> FALSE, crashes |-> 0],
   [made |-> {d1, d6, d7}, remote |-> FALSE, outages |-> FALSE, lost |-> FALSE,
    expire |-> FALSE, crashes |-> 0],
   [made |-> {d1, d2, d4}, remote |-> TRUE, outages |-> TRUE, lost |-> FALSE,
    expire |-> TRUE, crashes |-> 0],
   [made |-> {d1, d2, d4}, remote |-> TRUE, outages |-> FALSE, lost |-> TRUE,
    expire |-> FALSE, crashes |-> 1]}

MCTarget == [m \in Removals |-> 2]
================================================================================
