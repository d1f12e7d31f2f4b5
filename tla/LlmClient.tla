-------------------------------- MODULE LlmClient --------------------------------
(***************************************************************************)
(* One generation by a language model (component/aichat): the client's      *)
(* retries and its backup model (llmclient.go), with the stream that the    *)
(* user watches; and, as functions, what the three back ends make of a      *)
(* history and of a stream (llmbackend_*.go).                               *)
(***************************************************************************)
EXTENDS Integers, Sequences, FiniteSets, SequencesExt

CONSTANTS MaxAttempts, \* llm.retry's attempts; 0 and 1 are no retry
          HasBackup,   \* a backup model is configured
          Visible,     \* OnStreamDelta is given
          Restartable, \* OnStreamRestart is given
          MaxPieces    \* bound: pieces of text of an answer

LlmAssumption == /\ {MaxAttempts, MaxPieces} \subseteq Nat
                 /\ {HasBackup, Visible, Restartable} \subseteq BOOLEAN

VARIABLES client,   \* "main" or "backup"
          attempt,
          at,       \* "stream", "wait", or the outcome: "answered", "partial", "failed", "cancelled"
          got,      \* what the accumulator of this attempt holds
          started,  \* this attempt's stream has begun
          shown,    \* the buffer the user sees
          answer,   \* what is returned
          dead,     \* the request's context is done
          requests

vars == <<client, attempt, at, got, started, shown, answer, dead, requests>>

Init ==
  /\ client = "main" /\ attempt = 0 /\ at = "stream" /\ got = <<>> /\ started = FALSE
  /\ shown = <<>> /\ answer = <<>> /\ dead = FALSE /\ requests = 1

\* A piece of the answer, of this client's this attempt, goes to the accumulator and the user.
Piece ==
  /\ at = "stream" /\ ~dead /\ Len(got) < MaxPieces /\ started' = TRUE
  /\ LET piece == <<client, attempt, Len(got) + 1>> IN
     /\ got' = Append(got, piece)
     /\ shown' = IF Visible THEN Append(shown, piece) ELSE shown
  /\ UNCHANGED <<client, attempt, at, answer, dead, requests>>

\* An event without text: the stream has begun, nothing is shown.
Event ==
  /\ at = "stream" /\ ~dead /\ ~started /\ started' = TRUE
  /\ UNCHANGED <<client, attempt, at, got, shown, answer, dead, requests>>

Return(outcome, what) == /\ at' = outcome /\ answer' = what
                         /\ UNCHANGED <<client, attempt, got, started, dead, requests>>

Completes == /\ at = "stream" /\ got # <<>> /\ Return("answered", got) /\ UNCHANGED shown

\* OnStreamRestart, before anything is generated anew: what was shown is taken back.
Restart == shown' = IF started /\ Restartable THEN <<>> ELSE shown

\* Mutant: the backup model's answer is shown behind what the first one began.
BackupWithoutRestart ==
  /\ client' = "backup" /\ attempt' = 0 /\ at' = "stream" /\ got' = <<>> /\ started' = FALSE
  /\ requests' = requests + 1 /\ UNCHANGED <<shown, answer, dead>>

\* The backup client starts its own attempts; it has no backup.
Backup ==
  /\ Restart
  /\ client' = "backup" /\ attempt' = 0 /\ at' = "stream" /\ got' = <<>> /\ started' = FALSE
  /\ requests' = requests + 1 /\ UNCHANGED <<answer, dead>>

\* The request breaks, with an error that is worth another attempt or not; an end of the
\* stream without content is one of the first kind.  What the backup client returns with its
\* error is not passed on.
Breaks(retryable) ==
  /\ at = "stream" /\ (~retryable => ~dead)
  /\ IF dead THEN Return("cancelled", <<>>) /\ UNCHANGED shown
     ELSE IF started /\ Visible /\ ~Restartable
     THEN /\ IF client = "main" THEN Return("partial", got) ELSE Return("failed", <<>>)
          /\ UNCHANGED shown
     ELSE IF retryable /\ attempt + 1 < MaxAttempts
     THEN /\ at' = "wait" /\ Restart
          /\ UNCHANGED <<client, attempt, got, started, answer, dead, requests>>
     ELSE IF HasBackup /\ client = "main" THEN Backup
     ELSE Return("failed", <<>>) /\ UNCHANGED shown

\* The wait of retryDelay; when the context ends meanwhile, either end of it may be seen first.
Retries ==
  /\ at = "wait" /\ attempt' = attempt + 1 /\ requests' = requests + 1
  /\ at' = "stream" /\ got' = <<>> /\ started' = FALSE
  /\ UNCHANGED <<client, shown, answer, dead>>
GivesUp == /\ at = "wait" /\ dead /\ Return("cancelled", <<>>) /\ UNCHANGED shown

Cancel == /\ at \in {"stream", "wait"} /\ ~dead /\ dead' = TRUE
          /\ UNCHANGED <<client, attempt, at, got, started, shown, answer, requests>>

Next == Piece \/ Event \/ Completes \/ Retries \/ GivesUp \/ Cancel
        \/ \E retryable \in BOOLEAN : Breaks(retryable)
Spec == Init /\ [][Next]_vars
-------------------------------------------------------------------------------
(* Histories, as messages of the code: a user's parts and an assistant's    *)
(* calls are sequences; what a message says is a sequence of facts.         *)
User(parts)          == [role |-> "user", parts |-> parts, calls |-> <<>>, id |-> "-"]
Assistant(parts, cs) == [role |-> "assistant", parts |-> parts, calls |-> cs, id |-> "-"]
Tool(c)              == [role |-> "tool", parts |-> <<"result">>, calls |-> <<>>, id |-> c]
System               == [role |-> "system", parts |-> <<"prompt">>, calls |-> <<>>, id |-> "-"]
Image(p)             == p = "img"
Fact(kind, x)        == <<kind, x>>
Facts(kind, xs)      == [i \in DOMAIN xs |-> Fact(kind, xs[i])]
\* ExtractMessageText joins what is not empty; the parts stay apart here.
ExtractMessageText(m) == SelectSeq(m.parts, LAMBDA p : p # "" /\ ~Image(p))

\* convertAnthropicAssistantBlocks; a user's text and images; a tool's result.
Blocks(m) ==
  CASE m.role = "assistant" -> Facts("text", ExtractMessageText(m)) \o Facts("call", m.calls)
    [] m.role = "user" -> LET ps == SelectSeq(m.parts, LAMBDA p : p # "") IN
                          [i \in DOMAIN ps |-> Fact(IF Image(ps[i]) THEN "image" ELSE "text", ps[i])]
    [] m.role = "tool" -> <<Fact("result", m.id)>>

Push(out, role, blocks) ==
  IF blocks = <<>> THEN out ELSE Append(out, [role |-> role, blocks |-> blocks])

\* One message of convertAnthropicMessages; results wait for the next message of another role.
\* Mutant: an answer does not flush the results that wait.
LateFlush(acc, m) ==
  CASE m.role = "system" -> [acc EXCEPT !.system = @ \o ExtractMessageText(m)]
    [] m.role = "tool"   -> [acc EXCEPT !.pending = @ \o Blocks(m)]
    [] m.role = "assistant" -> [acc EXCEPT !.out = Push(@, m.role, Blocks(m))]
    [] OTHER -> [acc EXCEPT !.out = Push(Push(@, "user", acc.pending), m.role, Blocks(m)),
                            !.pending = <<>>]

ConvertMessage(acc, m) ==
  CASE m.role = "system" -> [acc EXCEPT !.system = @ \o ExtractMessageText(m)]
    [] m.role = "tool"   -> [acc EXCEPT !.pending = @ \o Blocks(m)]
    [] OTHER -> [acc EXCEPT !.out = Push(Push(@, "user", acc.pending), m.role, Blocks(m)),
                            !.pending = <<>>]
AnthropicMessages(history) ==
  LET acc == FoldLeft(ConvertMessage, [out |-> <<>>, system |-> <<>>, pending |-> <<>>], history)
  IN [system |-> acc.system, messages |-> Push(acc.out, "user", acc.pending)]

\* convertResponsesInput: a flat list of items, an answer's text and each call one of its own.
ResponsesInput(history) ==
  FlattenSeq([i \in DOMAIN history |->
    LET m == history[i] IN
    CASE m.role = "system" -> <<>>
      [] m.role = "user"   -> <<[kind |-> "user", says |-> Blocks(m)]>>
      [] m.role = "tool"   -> <<[kind |-> "output", says |-> Blocks(m)]>>
      [] m.role = "assistant" ->
           (IF ExtractMessageText(m) = <<>> THEN <<>>
            ELSE <<[kind |-> "assistant", says |-> Facts("text", ExtractMessageText(m))]>>)
           \o [j \in DOMAIN m.calls |-> [kind |-> "call", says |-> <<Fact("call", m.calls[j])>>]]])

\* convertMessage of chat completions: one for one; an answer's text is its first
\* part, and an empty part says nothing.
ChatMessage(m) ==
  CASE m.role = "assistant" ->
         [role |-> m.role, says |-> Facts("text", IF m.parts = <<>> THEN <<>> ELSE <<m.parts[1]>>)
                                    \o Facts("call", m.calls)]
    [] m.role = "system" -> [role |-> m.role, says |-> <<>>]
    [] OTHER -> [role |-> m.role, says |-> Blocks(m)]
ChatMessages(history) == [i \in DOMAIN history |-> ChatMessage(history[i])]

\* applyAnthropicCache: the last block of the last message that may carry a break point.
CacheBlock(messages) ==
  LET bs == Last(messages).blocks
      can == {i \in DOMAIN bs : bs[i][1] \in {"text", "image", "result"}} IN
  IF messages = <<>> \/ can = {} THEN 0 ELSE CHOOSE i \in can : \A j \in can : j <= i
-------------------------------------------------------------------------------
(* Streams: events [kind, index, id, args]; args are sequences of pieces.   *)

\* Add of the three accumulators.  Chat completions have no event of their own for the start
\* of a call: its first chunk is one, and is not looked at further.
Add(format, acc, e) ==
  CASE e.kind = "done" -> \* the whole calls that "response.completed" carries
         IF format # "responses" THEN acc
         ELSE [i \in DOMAIN acc |-> LET whole == {c \in e.calls : c.id = acc[i].id /\ c.args # <<>>} IN
                 IF whole = {} THEN acc[i] ELSE [acc[i] EXCEPT !.args = (CHOOSE c \in whole : TRUE).args]]
    [] e.kind = "start" \/ (format = "chat" /\ e.index \notin DOMAIN acc) ->
         [i \in DOMAIN acc \cup {e.index} |-> IF i = e.index THEN [id |-> e.id, args |-> <<>>] ELSE acc[i]]
    [] OTHER -> IF e.index \in DOMAIN acc THEN [acc EXCEPT ![e.index].args = @ \o e.args] ELSE acc

\* Result: the calls in the order of their index.
Result(acc) == LET order == SetToSortSeq(DOMAIN acc, <) IN [i \in DOMAIN order |-> acc[order[i]]]
Assembled(format, events) ==
  Result(FoldLeft(LAMBDA acc, e : Add(format, acc, e), [i \in {} |-> [id |-> "-", args |-> <<>>]], events))

\* buildParams of Anthropic: a budget for thinking raises the limit of the answer.
ThinkingBudget == [low |-> 4, medium |-> 16, high |-> 32] \* thousands of tokens
MaxTokens(max, effort) ==
  LET m == IF max <= 0 THEN 8 ELSE max IN
  IF effort # "none" /\ m <= ThinkingBudget[effort] THEN ThinkingBudget[effort] + 4 ELSE m

\* retryDelay without its jitter, in a signed integer of Width bits; Cap is its 30 seconds.
Width == 8
Cap   == 30
Signed(n) == LET m == n % 2^Width IN IF m >= 2^(Width - 1) THEN m - 2^Width ELSE m
RetryDelay(base, n) ==
  LET delay == Signed(base * 2^n)
      some  == IF delay <= 0 THEN base ELSE delay IN IF some > Cap THEN Cap ELSE some
-------------------------------------------------------------------------------
TypeOK ==
  /\ client \in {"main", "backup"} /\ {attempt, requests} \subseteq Nat
  /\ {got, shown, answer} \subseteq Seq({"main", "backup"} \X Nat \X Nat)
  /\ at \in {"stream", "wait", "answered", "partial", "failed", "cancelled"}

\* What the user has seen in the end is the answer, or the beginning that the first client
\* returns with its error: never the pieces of two attempts in one (llmclient.go:201-208).
ShownIsAnswer ==
  /\ (Visible /\ at \in {"answered", "partial"}) => shown = answer
  /\ \A i, j \in DOMAIN shown : shown[i][1] = shown[j][1] /\ shown[i][2] = shown[j][2]

Most == IF MaxAttempts > 1 THEN MaxAttempts ELSE 1

\* A generation costs at most the attempts of both clients, and the backup is asked only when
\* the first client's attempts are used up or useless (llmclient.go:65, 177).
RequestsAreBounded ==
  /\ requests <= IF HasBackup THEN Most + Most ELSE Most
  /\ client = "main" => requests = attempt + 1

\* Why these hold: an attempt shows what it has got, a stream that has not begun nothing; before
\* another attempt what was shown is taken back; and each client counts its attempts.
ShownIsGot ==
  /\ ~Visible => shown = <<>>
  /\ at = "stream" => /\ Visible => shown = got
                      /\ ~started => got = <<>>
                      /\ \A i \in DOMAIN got : got[i] = <<client, attempt, i>>
  /\ at = "wait" => shown = <<>>
AttemptsAreCounted ==
  /\ attempt < Most /\ (at = "wait" => attempt + 1 < Most)
  /\ client = "backup" => HasBackup /\ requests <= Most + attempt + 1
IInv == TypeOK /\ ShownIsGot /\ AttemptsAreCounted /\ ShownIsAnswer /\ RequestsAreBounded

\* The three formats say the same: every text, image, call and result of the history, in its
\* order; and every call's results come in the very next message, as Anthropic demands.
Histories ==
  LET turns == { <<User(<<"a">>)>>, <<User(<<"a", "img", "b">>)>>, <<Assistant(<<"c">>, <<>>)>>,
                 <<Assistant(<<>>, <<>>)>>, <<User(<<"">>)>>,
                 <<Assistant(<<"c">>, <<"1">>), Tool("1")>>,
                 <<Assistant(<<>>, <<"1", "2">>), Tool("1"), Tool("2"), User(<<"img">>)>> } IN
  {<<System>> \o FlattenSeq(h) : h \in BoundedSeq(turns, 3)}
Said(history) == FlattenSeq([i \in DOMAIN history |->
                   IF history[i].role = "system" THEN <<>> ELSE Blocks(history[i])])
OfKind(kind, blocks) == LET bs == SelectSeq(blocks, LAMBDA b : b[1] = kind) IN
                        [i \in DOMAIN bs |-> bs[i][2]]
SameIsSaid ==
  \A h \in Histories :
    LET a == AnthropicMessages(h)
        m == a.messages IN
    /\ FlattenSeq([i \in DOMAIN m |-> m[i].blocks]) = Said(h)
    /\ LET r == ResponsesInput(h) IN FlattenSeq([i \in DOMAIN r |-> r[i].says]) = Said(h)
    /\ LET c == ChatMessages(h) IN FlattenSeq([i \in DOMAIN c |-> c[i].says]) = Said(h)
    /\ a.system = <<"prompt">>
    /\ \A i \in DOMAIN m : OfKind("call", m[i].blocks) # <<>> =>
         /\ i < Len(m) /\ m[i + 1].role = "user"
         /\ OfKind("result", m[i + 1].blocks) = OfKind("call", m[i].blocks)
    /\ (m # <<>> /\ Last(m).role = "user") => CacheBlock(m) = Len(Last(m).blocks)

\* However the chunks of two calls are mixed, each call gets its own arguments, whole, and the
\* calls come in the order of the model (llmbackend_chatcompletions.go:153, 198).
Start(i)  == [kind |-> "start", index |-> i, id |-> <<"call", i>>, args |-> <<>>]
Delta(i, x) == [kind |-> "delta", index |-> i, id |-> <<"call", i>>, args |-> <<x>>]
Streams ==
  LET of(i) == <<Start(i), Delta(i, "x"), Delta(i, "y")>>
      takes == {t \in [1..6 -> {1, 2}] : Cardinality({i \in 1..6 : t[i] = 1}) = 3} IN
  {[i \in 1..6 |-> of(t[i])[Cardinality({j \in 1..i : t[j] = t[i]})]] : t \in takes}
StreamsAreWhole ==
  \A s \in Streams, format \in {"chat", "anthropic", "responses"} :
    Assembled(format, s) = [i \in 1..2 |-> [id |-> <<"call", i>>, args |-> <<"x", "y">>]]

\* Numbers at their edges: the limit is above the budget, the wait positive and bounded.
LimitsFit ==
  /\ \A max \in -1..40, effort \in DOMAIN ThinkingBudget : MaxTokens(max, effort) > ThinkingBudget[effort]
  /\ \A base \in 1..40, n \in 0..20 : RetryDelay(base, n) \in 1..Cap
-------------------------------------------------------------------------------
(* Claims of the sources that do not hold of this model.                   *)

\* "What has come is returned with the error" when it cannot be taken back (llmclient.go:206):
\* of the backup model's nothing is.
BeginningIsReturned == (Visible /\ ~Restartable /\ at = "failed") => shown = <<>>

\* "First chunk ID and name, later ones the arguments" (llmbackend_chatcompletions.go:119): a
\* provider that sends a call in one chunk loses its arguments.
OneChunkCallIsWhole ==
  requests < 2 \/ Assembled("chat", <<[Delta(1, "x") EXCEPT !.args = <<"x", "y">>]>>)[1].args = <<"x", "y">>

\* "The wait respects the context, at once" (llmclient.go:163): the other case may be chosen.
DeadIsNotAsked == [][dead => requests' = requests]_vars
===============================================================================
