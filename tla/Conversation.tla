------------------------------ MODULE Conversation ------------------------------
(***************************************************************************)
(* The conversation of one session: a turn of ChatBot.Chat                 *)
(* (aichat/chatbot.go), the tool loop with its parallel tool calls         *)
(* (aichat/toolexecutor.go), the message window with its compression       *)
(* (aichat/memorywindow.go) and the rows of ania_chat_message              *)
(* (pluginaichat/historystore_sql.go).                                     *)
(*                                                                         *)
(* The session lock gives a ChatBot one driver (see ChatSession), so turns *)
(* do not overlap; inside a turn the tool calls of a round are goroutines, *)
(* and /stop or the deadline may cancel the context at any time.  A message*)
(* is its role and, for a request of tool calls, their number, for a tool  *)
(* result, which of them it answers.                                       *)
(***************************************************************************)
EXTENDS Naturals, Sequences

CONSTANTS MaxIterations, \* rounds of the tool loop
          MaxCalls,      \* bound: tool calls of a round
          Threshold,     \* estimated size above which the window is compressed
          MaxTurns, MaxBadTurns, \* bounds: turns begun, and with a store that may fail
          Environments   \* circumstances to be considered

\* What the constants are.
ASSUME ConversationAssumption ==
  /\ Threshold \in Nat /\ MaxIterations \in Nat \ {0} /\ MaxCalls \in Nat \ {0}
  /\ MaxTurns \in Nat /\ MaxBadTurns \in Nat

\* In an environment the model reports token usage, the one asked for summaries does, the
\* history store may fail, and histories nobody asks for are cleared, or not.
ASSUME EnvironmentsAssumption ==
  \A e \in Environments :
    e \subseteq {"usage", "summary usage", "bad reads", "bad writes", "stale clears"}

VARIABLES env,      \* the environment, the same throughout a behaviour
          window,   \* messageWindow.messages
          tokens,   \* lastPromptTokens: unreported, below or above the threshold
          disk,     \* the session's rows in order of seq
          resident, \* there is a ChatBot with this window
          pc,       \* control point of Chat
          new,      \* the messages of the turn, from the user's on
          iter,     \* rounds of the tool loop so far
          res,      \* state of each tool call of the round
          ctxErr,   \* a tool failed and found the context cancelled
          canceled, \* the context of the turn
          owed,     \* this turn compressed, and its caller was not told the usage
          turns

vars == <<env, window, tokens, disk, resident, pc, new, iter, res, ctxErr, canceled,
          owed, turns>>
loop == <<new, iter, res, ctxErr>>

Msg(role, n) == [role |-> role, n |-> n]
Roles == {"user", "ai", "calls", "tool", "image", "limit", "summary"}

Init ==
  /\ env \in Environments
  /\ window = <<>> /\ tokens = "none" /\ disk = <<>> /\ resident = FALSE
  /\ pc = "idle" /\ new = <<>> /\ iter = 0 /\ res = <<>>
  /\ ctxErr = FALSE /\ canceled = FALSE /\ owed = FALSE /\ turns = 0
-------------------------------------------------------------------------------
(* The window and its store.                                               *)

TurnBound == IF "bad reads" \in env \/ "bad writes" \in env THEN MaxBadTurns ELSE MaxTurns

\* Each write is one transaction; a failure is logged and otherwise ignored.
Stored(rows) == disk' = rows \/ ("bad writes" \in env /\ disk' = disk)

\* getChat creates the ChatBot, whose window is what the store returns; a failed
\* read returns no messages.
LoadHistory ==
  /\ ~resident /\ resident' = TRUE
  /\ \/ window' = disk
     \/ "bad reads" \in env /\ window' = <<>>
  /\ tokens' = "none"
  /\ UNCHANGED <<disk, pc, loop, canceled, owed, turns>>

\* The session is evicted from memory between two turns.
Evict ==
  /\ resident /\ pc = "idle" /\ resident' = FALSE
  /\ window' = <<>> /\ tokens' = "none"
  /\ UNCHANGED <<disk, pc, loop, canceled, owed, turns>>

\* The process dies; what is not in the store is gone.
Crash ==
  /\ resident /\ pc # "idle"
  /\ resident' = FALSE /\ window' = <<>> /\ tokens' = "none"
  /\ pc' = "idle" /\ new' = <<>> /\ iter' = 0 /\ res' = <<>>
  /\ ctxErr' = FALSE /\ canceled' = FALSE /\ owed' = FALSE
  /\ UNCHANGED <<disk, turns>>

\* ClearHistory: /clear, or the clearing of a session nobody mentions the bot in.
ClearHistory ==
  /\ resident /\ pc = "idle"
  /\ window' = <<>> /\ tokens' = "none"
  /\ Stored(<<>>)
  /\ UNCHANGED <<resident, pc, loop, canceled, owed, turns>>

\* tryClearNoMentionChat takes the ChatBot before it has the lock: evicted in between,
\* that one's window is cleared and the session's rows with it, whatever ChatBot the
\* session has by then.
StaleClear ==
  /\ "stale clears" \in env /\ pc = "idle"
  /\ Stored(<<>>)
  /\ UNCHANGED <<window, tokens, resident, pc, loop, canceled, owed, turns>>

\* Mutant: without usage reports the window is never compressed.
NeverEstimated == tokens = "large"

\* needsCompression; the estimate counts a message as one unit.
NeedsCompression ==
  IF tokens = "none" THEN Len(window) > Threshold ELSE tokens = "large"

\* Mutant: the cut is not aligned.
HalfBlindly ==
  LET keep == IF Len(window) < 2 THEN 1 ELSE Len(window) \div 2
  IN  SubSeq(window, Len(window) - keep + 1, Len(window))

\* truncateOldestHalf: the later half without the tool results at its start.
LaterHalf ==
  LET keep  == IF Len(window) < 2 THEN 1 ELSE Len(window) \div 2
      first == Len(window) - keep + 1
      start == CHOOSE i \in first..Len(window) + 1 :
                 /\ \A j \in first..i - 1 : window[j].role = "tool"
                 /\ i <= Len(window) => window[i].role # "tool"
  IN  SubSeq(window, start, Len(window))
-------------------------------------------------------------------------------
(* A turn, up to the first request to the model.                           *)

Begin ==
  /\ resident /\ pc = "idle" /\ turns < TurnBound
  /\ turns' = turns + 1 /\ canceled' = FALSE /\ owed' = FALSE
  /\ pc' = IF NeedsCompression THEN "compress" ELSE "prompt"
  /\ UNCHANGED <<window, tokens, disk, resident, loop>>

\* /stop, or the deadline of the event.
Cancel ==
  /\ pc # "idle" /\ ~canceled /\ canceled' = TRUE
  /\ UNCHANGED <<window, tokens, disk, resident, pc, loop, owed, turns>>

\* MaybeCompress: the model's summary takes the place of all messages.
Compress ==
  /\ pc = "compress" /\ ~canceled /\ pc' = "prompt"
  /\ window' = <<Msg("summary", 0)>> /\ tokens' = "none"
  /\ Stored(window')
  /\ owed' = TRUE
  /\ UNCHANGED <<resident, loop, canceled, turns>>

\* Mutant: the cut is made in memory only.
CompressFailsInMemory ==
  /\ pc = "compress" /\ pc' = "prompt"
  /\ window' = LaterHalf /\ tokens' = "none"
  /\ UNCHANGED <<disk, resident, loop, canceled, owed, turns>>

\* The summary fails, for whatever reason: the oldest half is dropped.
CompressFails ==
  /\ pc = "compress" /\ pc' = "prompt"
  /\ window' = LaterHalf /\ tokens' = "none"
  /\ Stored(window')
  /\ UNCHANGED <<resident, loop, canceled, owed, turns>>

\* A UserPromptSubmit hook blocks the input: Chat returns an empty usage.
PromptBlocked ==
  /\ pc = "prompt" /\ pc' = "idle"
  /\ UNCHANGED <<window, tokens, disk, resident, loop, canceled, owed, turns>>

BuildMessages ==
  /\ pc = "prompt" /\ pc' = "gen"
  /\ new' = <<Msg("user", 0)>> /\ iter' = 0
  /\ UNCHANGED <<window, tokens, disk, resident, res, ctxErr, canceled, owed,
                 turns>>
-------------------------------------------------------------------------------
(* The tool loop, ExecuteWithTools.                                        *)

\* Chat returns an error, with the usage so far: nothing is appended.
Fail ==
  /\ pc' = "idle" /\ new' = <<>> /\ iter' = 0 /\ res' = <<>> /\ ctxErr' = FALSE
  /\ owed' = FALSE
  /\ UNCHANGED <<window, tokens, disk, resident, canceled, turns>>

\* The model fails, or the context is cancelled.
GenerateFails == pc \in {"gen", "last"} /\ Fail

\* The model answers in text; the last request, without tools, has no other end.
Answer ==
  /\ pc \in {"gen", "last"} /\ pc' = "append"
  /\ new' = Append(new, Msg("ai", 0))
  /\ UNCHANGED <<window, tokens, disk, resident, iter, res, ctxErr, canceled,
                 owed, turns>>

\* The model asks for n tool calls; a goroutine is started for each.
RequestTools(n) ==
  /\ pc = "gen" /\ pc' = "tools"
  /\ new' = Append(new, Msg("calls", n))
  /\ res' = [k \in 1..n |-> "running"]
  /\ UNCHANGED <<window, tokens, disk, resident, iter, ctxErr, canceled, owed,
                 turns>>

\* A call returns a result, is blocked by the gate, or is skipped because its
\* arguments were cut off: each way it leaves a result message.
ToolReturns(k) ==
  /\ pc = "tools" /\ res[k] = "running"
  /\ res' = [res EXCEPT ![k] = "done"]
  /\ UNCHANGED <<window, tokens, disk, resident, pc, new, iter, ctxErr, canceled,
                 owed, turns>>

\* A call fails: the error is its result, unless the context is cancelled.
ToolFails(k) ==
  /\ pc = "tools" /\ res[k] = "running"
  /\ res' = [res EXCEPT ![k] = "done"]
  /\ ctxErr' = (ctxErr \/ canceled)
  /\ UNCHANGED <<window, tokens, disk, resident, pc, new, iter, canceled, owed,
                 turns>>

\* Mutant: the goroutine of a call that panics is not counted off.
ToolPanicsUncounted(k) ==
  /\ pc = "tools" /\ res[k] = "running"
  /\ res' = [res EXCEPT ![k] = "lost"]
  /\ UNCHANGED <<window, tokens, disk, resident, pc, new, iter, ctxErr, canceled,
                 owed, turns>>

\* A call panics: the deferred recover makes the panic its result.
ToolPanics(k) ==
  /\ pc = "tools" /\ res[k] = "running"
  /\ res' = [res EXCEPT ![k] = "done"]
  /\ UNCHANGED <<window, tokens, disk, resident, pc, new, iter, ctxErr, canceled,
                 owed, turns>>

ToolsEnded == pc = "tools" /\ \A k \in DOMAIN res : res[k] = "done"

\* One of them was cut off by the cancelled context.
ToolsCanceled == ToolsEnded /\ ctxErr /\ Fail

\* The results in the order of the calls, images the tools loaded, and after the
\* last round the request to answer without tools.
Results(img, last) ==
  [k \in DOMAIN res |-> Msg("tool", k)]
    \o (IF img THEN <<Msg("image", 0)>> ELSE <<>>)
    \o (IF last THEN <<Msg("limit", 0)>> ELSE <<>>)

ToolsJoined ==
  /\ ToolsEnded /\ ~ctxErr
  /\ iter' = iter + 1 /\ res' = <<>>
  /\ pc' = IF iter' = MaxIterations THEN "last" ELSE "gen"
  /\ \E img \in BOOLEAN : new' = new \o Results(img, iter' = MaxIterations)
  /\ UNCHANGED <<window, tokens, disk, resident, ctxErr, canceled, owed, turns>>

\* RecordUsage: what the model reported of its last request; else the prompt
\* tokens of the turn, a compression's included; else nothing is recorded.
Reported == IF "usage" \in env \/ (owed /\ "summary usage" \in env)
            THEN {"small", "large"} ELSE {tokens}

\* The messages of the turn join the window, and the rows of the store.
AppendTurn ==
  /\ pc = "append" /\ pc' = "idle"
  /\ window' = window \o new
  /\ \E t \in Reported : tokens' = t
  /\ Stored(disk \o new)
  /\ new' = <<>> /\ iter' = 0 /\ owed' = FALSE
  /\ UNCHANGED <<resident, res, ctxErr, canceled, turns>>
-------------------------------------------------------------------------------
Tool(k) == ToolReturns(k) \/ ToolFails(k) \/ ToolPanics(k)
Turn == \/ Compress \/ CompressFails \/ PromptBlocked \/ BuildMessages
        \/ GenerateFails \/ Answer \/ \E n \in 1..MaxCalls : RequestTools(n)
        \/ ToolsCanceled \/ ToolsJoined \/ AppendTurn

Next == /\ UNCHANGED env
        /\ \/ LoadHistory \/ Evict \/ Crash \/ ClearHistory \/ StaleClear
           \/ Begin \/ Cancel \/ Turn
           \/ \E k \in 1..MaxCalls : k \in DOMAIN res /\ Tool(k)

Spec == Init /\ [][Next]_vars

\* A request to the model ends (it has a deadline and retries are bounded) and so
\* does every tool call; which way, and what the model wants next, is open.
FairSpec ==
  /\ Spec /\ WF_vars(UNCHANGED env /\ Turn)
  /\ \A k \in 1..MaxCalls : WF_vars(UNCHANGED env /\ k \in DOMAIN res /\ Tool(k))
-------------------------------------------------------------------------------
Messages == [role : Roles, n : 0..MaxCalls]

TypeOK ==
  /\ env \in Environments
  /\ window \in Seq(Messages) /\ disk \in Seq(Messages) /\ new \in Seq(Messages)
  /\ tokens \in {"none", "small", "large"}
  /\ resident \in BOOLEAN /\ canceled \in BOOLEAN /\ ctxErr \in BOOLEAN
  /\ owed \in BOOLEAN
  /\ pc \in {"idle", "compress", "prompt", "gen", "tools", "last", "append"}
  /\ iter \in 0..MaxIterations /\ turns \in Nat
  /\ DOMAIN res \subseteq 1..MaxCalls
  /\ \A k \in DOMAIN res : res[k] \in {"running", "done"}

\* A history the model's API accepts: the results of n calls follow their request
\* at once, all of them and in order, and no result stands anywhere else.
Paired(s) ==
  /\ \A i \in DOMAIN s : s[i].role = "calls" =>
       /\ i + s[i].n <= Len(s)
       /\ \A k \in 1..s[i].n : s[i + k] = Msg("tool", k)
  /\ \A i \in DOMAIN s : s[i].role = "tool" =>
       /\ s[i].n < i
       /\ s[i - s[i].n].role = "calls" /\ s[i - s[i].n].n >= s[i].n

\* Neither the window nor the stored history ever holds a tool result without its
\* request or a request without its results, whatever is cut, compressed,
\* cancelled, lost or reloaded; such a history would be refused in every turn.
\* Nor does a request to the model within a turn.
HistoryIsPaired ==
  /\ TypeOK
  /\ Paired(window) /\ Paired(disk)
  /\ pc \in {"gen", "last"} => Paired(window \o new)

\* With a store that works the rows are the window, so an eviction or a restart loses
\* nothing and brings nothing back; unless the clearing took another ChatBot's window
\* (nomention.go:96-111), when they are still the end of it, nothing older or missing in
\* between.
Ends(s, t) ==
  /\ Len(s) <= Len(t)
  /\ \A i \in 1..Len(s) : s[i] = t[Len(t) - Len(s) + i]
DiskIsWindow ==
  "bad writes" \notin env /\ "bad reads" \notin env /\ resident =>
    Ends(disk, window) /\ ("stale clears" \notin env => disk = window)

\* Claim of memorywindow.go: as long as the model reports no usage, and whatever
\* compressions fail, the estimate keeps the window bounded: by two turns, or by the
\* threshold and one turn.  (The store works: rows a failed read has hidden come back
\* with the next.)
TurnMax == 1 + MaxIterations * (MaxCalls + 2) + 2
WindowMax == (IF Threshold > TurnMax THEN Threshold ELSE TurnMax) + TurnMax
EstimateBounds ==
  "usage" \notin env /\ "bad reads" \notin env /\ "bad writes" \notin env => Len(window) <= WindowMax

\* It does as long as no summaries are reported either: a compression's prompt is then
\* recorded as the size of the context, and the estimate is never used again.
WindowIsBounded == "summary usage" \notin env => EstimateBounds

\* Every turn ends, even if the model asks for tools for ever: the loop gives it
\* MaxIterations rounds, and no panic of a tool leaves the others waiting.
TurnEnds == pc # "idle" ~> pc = "idle"

\* Claim of memorywindow.go: after a failed load the next save overwrites what is
\* stored, so the store holds the window again.
SaveOverwrites == [][AppendTurn => disk' = window']_vars

\* Claim of chatbot.go: a compression's tokens are part of the usage of the turn
\* that made it.
CompressionIsBilled == pc = "idle" => ~owed

\* Claim of memorywindow.go: history is dropped for the sake of the turn, so that
\* its message can be processed.
DropServesTurn == [][CompressFails => ~canceled]_vars
================================================================================
