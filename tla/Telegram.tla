--------------------------------- MODULE Telegram ---------------------------------
(***************************************************************************)
(* The Telegram adapter (adapter/telegram): the long polling of updates     *)
(* with its offset and its deduplication, their dispatch, a message chain   *)
(* that is sent in several messages, and a reply that is streamed by edits. *)
(*                                                                         *)
(* The segments of a chain are known by their position, the texts of a      *)
(* stream by numbers (0: none).  An answer of the Bot API is "ok", "400"    *)
(* (refused, as unparsable markup is), "429", "gateway" (no error code and  *)
(* a 5xx), "garbled" (none and another status) or "net"; the last three do  *)
(* not tell whether the call took effect.                                  *)
(***************************************************************************)
EXTENDS Naturals, Sequences, FiniteSets, SequencesExt

CONSTANTS Updates,     \* 1..n, in the order of their update_id
          KindOf,      \* what each update is
          Chains,      \* message chains to send: sequences of segments
          ParseMode,   \* parse_mode is configured
          Faults,      \* answers of the Bot API besides "ok" and "400"
          MaxCrashes,  \* bound: crashes of the process
          MaxTexts     \* bound: contents of a streamed reply

Segments == {"reply", "text", "long", "image", "keyboard"}

\* What the constants are; instances assume it.
TelegramAssumption ==
  /\ IsFiniteSet(Updates) /\ Updates = 1..Cardinality(Updates)
  /\ ParseMode \in BOOLEAN /\ Faults \subseteq {"gateway", "garbled", "429", "net"}
  /\ \A c \in Chains : Range(c) \subseteq Segments
  /\ {MaxCrashes, MaxTexts} \subseteq Nat

VARIABLES offset,    \* the offset of the next getUpdates
          confirmed, \* updates below are confirmed: Telegram forgets them
          seen,      \* updateDedup
          upd,       \* what became of each update in this life of the process
          times,     \* how often each update was handed to the core
          crashes,
          out,       \* the chain being sent
          stream     \* the reply being streamed

vars == <<offset, confirmed, seen, upd, times, crashes, out, stream>>

Idle == [todo |-> <<>>, at |-> 0, buf |-> <<>>, long |-> FALSE, reply |-> FALSE,
         sent |-> <<>>, lost |-> FALSE, kb |-> FALSE, on |-> FALSE]
NoStream == [msg |-> FALSE, prefix |-> FALSE, content |-> 0, shown |-> 0, lastSent |-> 0,
             failed |-> FALSE, closed |-> FALSE]

Init ==
  /\ offset = 0 /\ confirmed = 0 /\ seen = {} /\ crashes = 0
  /\ upd = [u \in Updates |-> "new"] /\ times = [u \in Updates |-> 0]
  /\ out = Idle /\ stream = NoStream
-------------------------------------------------------------------------------
(* Long polling.                                                           *)

\* updateToMessage, messageToSegments: what has no segment is no message.
Translates(kind) == kind \in {"message", "channel_post"}
\* emitMemberChange, handleMyChatMember, handleReaction.
Notifies(kind) == kind \in {"member_joins", "member_leaves", "bot_added", "bot_removed",
                            "reaction"}
\* handleUpdate, handleMessage: other bots' messages and other updates reach no trigger.
Emits(kind) == Translates(kind) \/ Notifies(kind)

\* processUpdates: each update of the batch is claimed and handled in a goroutine of its
\* own; the offset passes all of them, claimed or not.
ProcessUpdates(batch) ==
  /\ upd' = [u \in Updates |-> IF u \in batch \ seen THEN "claimed" ELSE upd[u]]
  /\ seen' = seen \cup batch
  /\ offset' = IF \E u \in batch : u + 1 > offset
               THEN (CHOOSE u \in batch : \A w \in batch : w <= u) + 1 ELSE offset

\* getUpdates: the request confirms what is below its offset, the answer holds some of
\* the updates from there on, in order, or gets lost.
Poll ==
  /\ confirmed' = IF offset > confirmed THEN offset ELSE confirmed
  /\ LET open == {u \in Updates : u >= confirmed' /\ u >= offset} IN
     \/ UNCHANGED <<offset, seen, upd>>
     \/ /\ open # {}
        /\ \E last \in open : ProcessUpdates({u \in open : u <= last})
  /\ UNCHANGED <<times, crashes, out, stream>>

\* handleUpdate ... handleReaction: the goroutine of an update calls the trigger.
HandleUpdate(u) ==
  /\ upd[u] = "claimed"
  /\ upd' = [upd EXCEPT ![u] = "handled"]
  /\ times' = [times EXCEPT ![u] = @ + (IF Emits(KindOf[u]) THEN 1 ELSE 0)]
  /\ UNCHANGED <<offset, confirmed, seen, crashes, out, stream>>

\* handleCallbackQuery: a click is handed to the core, which answers it; one on a
\* message that is out of reach is answered at once.
HandleCallback(u) ==
  /\ upd[u] = "claimed" /\ KindOf[u] \in {"callback", "stale_callback"}
  /\ upd' = [upd EXCEPT ![u] = "answered"]
  /\ times' = [times EXCEPT ![u] = @ + (IF KindOf[u] = "callback" THEN 1 ELSE 0)]
  /\ UNCHANGED <<offset, confirmed, seen, crashes, out, stream>>

\* A restart of the process: the offset, the claims and the goroutines are gone.
Crash ==
  /\ crashes < MaxCrashes /\ crashes' = crashes + 1
  /\ offset' = 0 /\ seen' = {}
  /\ upd' = [u \in Updates |-> IF upd[u] = "claimed" THEN "lost" ELSE upd[u]]
  /\ out' = Idle /\ stream' = NoStream
  /\ UNCHANGED <<confirmed, times>>
-------------------------------------------------------------------------------
(* Calls of the Bot API.                                                   *)

Answers == {"ok", "400"} \cup Faults
\* A call without a parse mode is refused for its markup never.
PlainAnswers == {"ok"} \cup Faults

\* A call is answered, and takes effect or not: behind a lost answer it may have.
Calls(answers) ==
  {c \in [answer : answers, done : BOOLEAN] :
     /\ c.answer = "ok" => c.done
     /\ c.answer \in {"400", "429"} => ~c.done}

\* retryOnce: one more try after a 429.
RetryOnce(a, b) == IF a.answer = "429" THEN b ELSE a

\* isTransientGateway: after a gateway error the call is repeated as it is.
Repeated(a, b) == IF a.answer = "gateway" THEN <<a, b>> ELSE <<a>>

\* isRetryableError: what goes on without the parse mode.
Degrades(tries) == Last(tries).answer \in {"400", "gateway", "garbled"}

\* retryAPIError: the calls that are made.
RetryAPIError(a, b, plain) ==
  IF Degrades(Repeated(a, b)) THEN Append(Repeated(a, b), plain) ELSE Repeated(a, b)
-------------------------------------------------------------------------------
(* Sending a chain.                                                        *)

\* sendToChat, sendChain: the keyboard and the first reply segment are taken out; what
\* is left must not be empty.
SendChain(c) ==
  /\ ~out.on /\ out.sent = <<>>
  /\ LET body == SelectSeq(c, LAMBDA s : s \notin {"reply", "keyboard"}) IN
     /\ body # <<>>
     /\ out' = [Idle EXCEPT !.todo = body, !.reply = Contains(c, "reply"),
                            !.kb = Contains(c, "keyboard"), !.on = TRUE]
  /\ UNCHANGED <<offset, confirmed, seen, upd, times, crashes, stream>>

\* sendText, sendMedia: whether the last call is answered "ok", and how many messages the
\* calls have posted.
Result(tries) == [ok     |-> Last(tries).answer = "ok",
                  copies |-> Len(SelectSeq(tries, LAMBDA c : c.done))]
Tried(answers) == {RetryOnce(a, b) : a, b \in Calls(answers)}
TextSent  == {Result(RetryAPIError(a, b, plain)) :
                a, b \in Tried(IF ParseMode THEN Answers ELSE PlainAnswers),
                plain \in Tried(PlainAnswers)}
MediaSent == {Result(<<c>>) : c \in Tried(Answers)}

\* A message with the segments at these positions; the copy whose call was answered is
\* known, and only then the reply counts as used.
Message(parts, reply) == [parts |-> parts, reply |-> reply, known |-> FALSE]
Post(o, m, r) ==
  [o EXCEPT !.sent  = @ \o [i \in 1..r.copies |-> [m EXCEPT !.known = r.ok /\ i = r.copies]],
            !.reply = @ /\ ~(m.reply /\ r.ok),
            !.lost  = @ \/ ~r.ok]

\* sendChain: a text waits for the next media, which takes it as its caption if it is
\* short; a long one, and the last one, is a message of its own.
Buffer ==
  /\ out.on /\ out.todo # <<>> /\ Head(out.todo) \in {"text", "long"}
  /\ out' = [out EXCEPT !.todo = Tail(@), !.at = @ + 1, !.buf = Append(@, out.at + 1),
                        !.long = @ \/ Head(out.todo) = "long"]
  /\ UNCHANGED <<offset, confirmed, seen, upd, times, crashes, stream>>

SendMedia ==
  /\ out.on /\ out.todo # <<>> /\ Head(out.todo) = "image"
  /\ \E t \in TextSent, m \in MediaSent :
       LET p == out.at + 1
           o == [out EXCEPT !.todo = Tail(@), !.at = p, !.buf = <<>>, !.long = FALSE] IN
       out' = CASE out.long      -> Post(Post(o, Message(out.buf, out.reply), t),
                                         Message(<<p>>, FALSE), m)
                [] out.buf = <<>> -> Post(o, Message(<<p>>, FALSE), m)
                [] OTHER          -> Post(o, Message(Append(out.buf, p), out.reply), m)
  /\ UNCHANGED <<offset, confirmed, seen, upd, times, crashes, stream>>

\* sendChain: the rest of the text, the keyboard on the last message that is known, the
\* entry in msgCache.
FinishChain ==
  /\ out.on /\ out.todo = <<>>
  /\ \E t \in TextSent :
       LET o == IF out.buf = <<>> THEN out ELSE Post(out, Message(out.buf, out.reply), t)
       IN out' = [o EXCEPT !.buf = <<>>, !.long = FALSE, !.on = FALSE,
                           !.kb = @ /\ \E i \in DOMAIN o.sent : o.sent[i].known]
  /\ UNCHANGED <<offset, confirmed, seen, upd, times, crashes, stream>>
-------------------------------------------------------------------------------
(* A streamed reply.                                                       *)

\* sendStream: the first text, 1, is posted behind a prefix of mentions if there are any;
\* the handle keeps the prefix and no content.
SendStream(prefix) ==
  /\ stream = NoStream /\ MaxTexts > 0
  /\ stream' = [stream EXCEPT !.msg = TRUE, !.prefix = prefix, !.shown = 1]
  /\ UNCHANGED <<offset, confirmed, seen, upd, times, crashes, out>>

\* The content, behind the prefix, is the one of the last successful edit, or nothing.
Unchanged(s) == s.content = s.lastSent /\ (s.content # 0 \/ ~s.prefix)

\* patchLocked: an edit with the current content, rendered if it is the final one; a
\* plain edit that would change nothing is left out, and the same counts as done where a
\* rendered one was tried before.
PatchLocked(s, rendered, a, b, plain) ==
  LET first == Repeated(a, b)
      tries == IF Unchanged(s) THEN first ELSE RetryAPIError(a, b, plain)
      ok    == Last(tries).answer = "ok" \/ (Unchanged(s) /\ Degrades(first))
      done  == \E i \in DOMAIN tries : tries[i].done
  IN IF ~rendered /\ Unchanged(s) THEN s
     ELSE [s EXCEPT !.shown    = IF done THEN s.content ELSE @,
                    !.lastSent = IF ok THEN s.content ELSE @,
                    !.failed   = ~ok]

\* Patch: at most one edit per interval, otherwise the content is kept for later.
Patch ==
  /\ stream.msg /\ ~stream.closed /\ stream.content < MaxTexts
  /\ LET s == [stream EXCEPT !.content = IF @ = 0 THEN 2 ELSE @ + 1] IN
     \/ stream' = s
     \/ \E a, b, plain \in Calls(PlainAnswers) : stream' = PatchLocked(s, FALSE, a, b, plain)
  /\ UNCHANGED <<offset, confirmed, seen, upd, times, crashes, out>>

\* End: the last edit, once. One without any text is refused.
End ==
  /\ stream.msg /\ ~stream.closed
  /\ \E a, b \in Calls(IF ParseMode THEN Answers ELSE PlainAnswers),
        plain \in Calls(PlainAnswers) :
       /\ stream.content = 0 /\ ~stream.prefix => ~a.done /\ ~b.done
       /\ stream' = [PatchLocked([stream EXCEPT !.failed = FALSE], ParseMode, a, b, plain)
                      EXCEPT !.closed = TRUE]
  /\ UNCHANGED <<offset, confirmed, seen, upd, times, crashes, out>>
-------------------------------------------------------------------------------
Next ==
  \/ Poll \/ Crash
  \/ \E u \in Updates : IF KindOf[u] \in {"callback", "stale_callback"}
                        THEN HandleCallback(u) ELSE HandleUpdate(u)
  \/ \E c \in Chains : SendChain(c)
  \/ Buffer \/ SendMedia \/ FinishChain
  \/ (\E prefix \in BOOLEAN : SendStream(prefix)) \/ Patch \/ End

Spec == Init /\ [][Next]_vars
-------------------------------------------------------------------------------
TypeOK ==
  /\ offset \in 0..Cardinality(Updates) + 1 /\ confirmed \in 0..Cardinality(Updates) + 1
  /\ seen \subseteq Updates /\ crashes \in 0..MaxCrashes
  /\ upd \in [Updates -> {"new", "claimed", "handled", "answered", "lost"}]
  /\ times \in [Updates -> 0..MaxCrashes + 1]
  /\ Range(out.todo) \subseteq Segments /\ out.buf \in Seq(1..out.at) /\ out.reply \in BOOLEAN
  /\ stream.content \in 0..MaxTexts + 1 /\ stream.shown \in 0..MaxTexts + 1

\* An update is handed over once per life of the process, whatever answers of the poll
\* get lost; and Telegram forgets it only after it was claimed, so that nothing but a
\* crash between claim and trigger loses one.
PolledOnce ==
  \A u \in Updates : /\ times[u] <= crashes + 1
                     /\ u < confirmed => upd[u] # "new"
                     /\ upd[u] = "lost" => crashes > 0

\* dedup.go claims that no update has an effect twice after a crash either: the claims
\* are in memory only.
HandledOnce == \A u \in Updates : times[u] <= 1

\* Of the messages of a chain whose posting was confirmed one at most carries the reply;
\* they show the segments of the chain in its order, none of them twice, and all of them
\* unless a call failed.
RepliesOnce ==
  LET known == SelectSeq(out.sent, LAMBDA m : m.known)
      shown == FlattenSeq([i \in DOMAIN known |-> known[i].parts]) IN
  /\ Cardinality({i \in DOMAIN known : known[i].reply}) <= 1
  /\ \A i, j \in DOMAIN shown : i < j => shown[i] < shown[j]
  /\ out.on \/ out.lost \/ shown = [i \in 1..out.at |-> i]

\* send.go says that the reply is carried by the first message and then cleared: a message
\* whose answer got lost carries it too.
ReplyIsSpent == Cardinality({i \in DOMAIN out.sent : out.sent[i].reply}) <= 1

\* send.go says that the first message carries the reply: one with media alone does not.
FirstCarriesReply == out.on /\ out.sent # <<>> => ~out.reply

\* Once a stream has ended its message shows the last content that was patched, unless the
\* last edit failed even as plain text: neither a throttled edit, nor refused markup, nor
\* one failure of a gateway leaves an older one. One that nothing was patched to keeps its
\* first text if it mentions nobody.
FinalIsShown ==
  stream.closed /\ ~stream.failed =>
    /\ stream.content # 0 => stream.shown = stream.content
    /\ stream.content = 0 /\ ~stream.prefix => stream.shown = 1

\* event.go says that End forces the final content: a stream that nothing was patched to
\* is edited down to its mentions.
StartIsShown == stream.closed /\ stream.content = 0 => stream.shown = 1
================================================================================
