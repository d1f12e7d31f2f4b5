--------------------------------- MODULE OneBot ---------------------------------
(***************************************************************************)
(* The OneBot v11 adapters of QQ, napcat and luckylilia, over a WebSocket   *)
(* or over HTTP: calls of plugins and their answers, events and the pool    *)
(* of workers that handles them, reconnection, and the change of            *)
(* identifiers at the border (adapter/napcat, adapter/luckylilia).          *)
(***************************************************************************)
EXTENDS Naturals, Sequences, FiniteSets

CONSTANTS Flavor,     \* "qq": napcat, "lil": luckylilia
          Mode,       \* "ws" or "http"
          Requests,   \* calls of the adapter's API
          CallOf,     \* the call of each request
          Events,     \* events of the platform
          KindOf,     \* their kinds
          AskOf,      \* AskOf[e]: the requests the handler of e makes
          Workers,    \* worker_count
          QueueSize,  \* worker_queue_size
          MaxFails    \* bound: failed dials in a row, and broken connections

\* What the constants are; instances assume it.
OneBotAssumption ==
  /\ Flavor \in {"qq", "lil"} /\ Mode \in {"ws", "http"}
  /\ {Workers, QueueSize, MaxFails} \subseteq Nat \ {0}
  /\ \A e \in Events : AskOf[e] \subseteq Requests
  /\ \A d, e \in Events : d # e => AskOf[d] \cap AskOf[e] = {}
-------------------------------------------------------------------------------
(* Identifiers at the border: which fields of answers and notices each call and  *)
(* each parser rewrites.  An identifier is its prefix: "raw" on the wire, "qq" or *)
(* "lil" inside the framework.                                                  *)

MessageCalls == {"send", "ai_record", "forward", "get_msg", "get_forward_msg", "history"}
MemberCalls  == {"member_info", "member_list"}
GroupCalls   == {"group_detail", "group_list"}
OtherCalls   == {"poke", "emoji_like", "sign", "friend_list", "rkey", "characters", "file_url"}
Calls == MessageCalls \cup MemberCalls \cup GroupCalls \cup OtherCalls

\* The identifiers in the platform's answer to a call.
Answered(c) == CASE c \in MessageCalls -> {"message", "user", "group", "self", "segment"}
                 [] c \in MemberCalls  -> {"group", "user"}
                 [] c \in GroupCalls   -> {"group"}
                 [] c = "friend_list"  -> {"user"}
                 [] OTHER              -> {}

\* QID.UnmarshalJSON, NormalizeQQID: digits are taken for an identifier of QQ.
Normalize(id) == IF id = "raw" THEN "qq" ELSE id
\* TrimQQPrefix, rawLil: only the adapter's own prefix is cut.
RawQQ(id)  == IF id = "qq" THEN "raw" ELSE id
RawLil(id) == IF id = "lil" THEN "raw" ELSE id
\* toLil.
ToLil(id) == IF id = "qq" THEN "lil" ELSE id
\* stripQQSegments, stripQQForward and stripLilSegments, stripLilForward.
StripQQ(ids)  == {RawQQ(i) : i \in ids}
StripLil(ids) == {RawLil(i) : i \in ids}

\* What the fields of an answer read after decoding.
Decoded(c) == [f \in Answered(c) |-> Normalize("raw")]
\* relilMessage: the fields of a message it rewrites.
RelilMessage(m) == [f \in DOMAIN m |->
                      IF f \in {"message", "user", "group", "self", "segment"}
                      THEN ToLil(m[f]) ELSE m[f]]
\* The fields named in fs are rewritten.
Relabel(m, fs) == [f \in DOMAIN m |-> IF f \in fs THEN ToLil(m[f]) ELSE m[f]]

\* The calls of napcat leave it at the decoding, in their WebSocket ...
NapcatWsMessages(c) == Decoded(c)
NapcatWsLists(c)    == Decoded(c)
\* ... and in their HTTP form.
NapcatHttpMessages(c) == Decoded(c)
NapcatHttpLists(c)    == Decoded(c)

\* Mutant: the user of a member is not rewritten.
LilWsListsGroupOnly(c) == Relabel(Decoded(c), {"group"})

\* Those of luckylilia rewrite what they hand out.
LilWsMessages(c) == RelilMessage(Decoded(c))
LilWsLists(c) ==
  Relabel(Decoded(c), CASE c \in MemberCalls  -> {"group", "user"}
                        [] c = "friend_list"  -> {"user"}
                        [] c \in GroupCalls   -> {"group"}
                        [] OTHER              -> {})
LilHttpMessages(c) == RelilMessage(Decoded(c))
LilHttpLists(c) ==
  Relabel(Decoded(c), CASE c \in MemberCalls  -> {"group", "user"}
                        [] c = "friend_list"  -> {"user"}
                        [] c \in GroupCalls   -> {"group"}
                        [] OTHER              -> {})

\* The prefixes a caller sees in the answer to a call ...
Handed(c) ==
  LET msg == c \in MessageCalls
      m == IF Flavor = "qq"
           THEN IF Mode = "ws" THEN IF msg THEN NapcatWsMessages(c) ELSE NapcatWsLists(c)
                ELSE IF msg THEN NapcatHttpMessages(c) ELSE NapcatHttpLists(c)
           ELSE IF Mode = "ws" THEN IF msg THEN LilWsMessages(c) ELSE LilWsLists(c)
                ELSE IF msg THEN LilHttpMessages(c) ELSE LilHttpLists(c)
  IN {m[f] : f \in DOMAIN m}
\* ... and those the platform sees when a plugin hands such identifiers back.
OnTheWire(ids) == IF Flavor = "qq" THEN StripQQ(ids) ELSE StripLil(ids)
-------------------------------------------------------------------------------
(* Notices.                                                                *)

\* The identifiers among the fields of each notice.
NoticeIds ==
  [group_upload  |-> {"self", "group", "user", "file"},
   group_admin   |-> {"self", "group", "user"},
   group_decrease |-> {"self", "group", "user", "operator"},
   group_increase |-> {"self", "group", "user", "operator"},
   group_ban     |-> {"self", "group", "user", "operator"},
   friend_add    |-> {"self", "user"},
   group_recall  |-> {"self", "group", "user", "operator", "message"},
   friend_recall |-> {"self", "user", "message"},
   poke          |-> {"self", "group", "user", "target"},
   lucky_king    |-> {"self", "group", "user", "target"},
   honor         |-> {"self", "group", "user"},
   group_msg_emoji_like |-> {"self", "group", "user", "message"},
   essence       |-> {"self", "group", "message", "sender", "operator"},
   group_card    |-> {"self", "group", "user"}]

\* noticeRegistry of luckylilia: the fields its parsers rewrite.
LilGroupNotices ==
  [group_upload  |-> {"self", "group", "user", "file"},
   group_admin   |-> {"self", "group", "user"},
   group_decrease |-> {"self", "group", "operator", "user"},
   group_increase |-> {"self", "group", "operator", "user"},
   group_ban     |-> {"self", "group", "operator", "user"},
   friend_add    |-> {"self", "user"},
   group_recall  |-> {"self", "group", "user", "operator", "message"}]
LilOtherNotices ==
  [friend_recall |-> {"self", "user", "message"},
   poke          |-> {"self", "group", "user", "target"},
   lucky_king    |-> {"self", "group", "user", "target"},
   honor         |-> {"self", "group", "user"},
   group_msg_emoji_like |-> {"self", "group", "user", "message"},
   essence       |-> {"self", "group", "message", "sender", "operator"},
   group_card    |-> {"self", "group", "user"}]
LilNotice(n) == IF n \in DOMAIN LilGroupNotices THEN LilGroupNotices[n] ELSE LilOtherNotices[n]

\* noticeRegistry of napcat: decoding alone.
NapcatNotice(n) == [f \in NoticeIds[n] |-> Normalize("raw")]

\* The prefixes a plugin sees in a notice.
Noticed(n) ==
  IF n \notin DOMAIN NoticeIds THEN {}
  ELSE LET m == IF Flavor = "qq" THEN NapcatNotice(n)
                ELSE Relabel(NapcatNotice(n), LilNotice(n))
       IN {m[f] : f \in DOMAIN m}
-------------------------------------------------------------------------------
VARIABLES reader,   \* the goroutine of Serve
          alive,    \* the connection works (HTTP: the port is bound)
          fails,    \* failCount
          breaks,   \* connections broken so far
          sent,     \* requests the platform has received and not answered
          replies,  \* answers under way: pairs of a request and a status
          req,      \* control point of each request
          ch,       \* the buffered channel of each request
          queue,    \* msgCh
          evt       \* what became of each event

vars == <<reader, alive, fails, breaks, sent, replies, req, ch, queue, evt>>

Init ==
  /\ reader = "dial" /\ alive = FALSE /\ fails = 0 /\ breaks = 0
  /\ sent = {} /\ replies = {} /\ queue = <<>>
  /\ req = [r \in Requests |-> "idle"] /\ ch = [r \in Requests |-> "empty"]
  /\ evt = [e \in Events |-> "new"]
-------------------------------------------------------------------------------
(* The WebSocket: Serve, readLoop, request and the pool of workers.        *)

Working == {e \in Events : evt[e] = "working"}
Asking(e) == {r \in AskOf[e] : req[r] \notin {"ok", "failed"}}

\* One round of the loop of Serve: the dial fails and is tried again after a
\* delay, or the connection and the pool are set up.
Dial ==
  /\ Mode = "ws" /\ reader = "dial"
  /\ \/ fails < MaxFails /\ fails' = fails + 1 /\ UNCHANGED <<reader, alive>>
     \/ fails' = 0 /\ reader' = "read" /\ alive' = TRUE
  /\ UNCHANGED <<breaks, sent, replies, req, ch, queue, evt>>

\* AdapterStatus, Connected: what the panel shows.
Status == CASE reader # "dial"             -> "connected"
            [] fails = 0 /\ breaks = 0     -> "connecting"
            [] OTHER                       -> "reconnecting"

\* The connection breaks, with everything under way on it.
Break ==
  /\ Mode = "ws" /\ alive /\ breaks < MaxFails
  /\ alive' = FALSE /\ breaks' = breaks + 1 /\ sent' = {} /\ replies' = {}
  /\ UNCHANGED <<reader, fails, req, ch, queue, evt>>

\* ReadMessage fails: the connection and the queue are closed.
ReadError ==
  /\ reader = "read" /\ Mode = "ws" /\ ~alive
  /\ reader' = "drain"
  /\ UNCHANGED <<alive, fails, breaks, sent, replies, req, ch, queue, evt>>

\* stopWorkerPool: the workers empty the closed queue and end.
StopWorkerPool ==
  /\ reader = "drain" /\ queue = <<>> /\ Working = {}
  /\ reader' = "dial"
  /\ UNCHANGED <<alive, fails, breaks, sent, replies, req, ch, queue, evt>>

\* Who may start a request: the worker whose event asks for it, or another
\* goroutine.
MayAsk(r) == \A e \in Events : r \in AskOf[e] => evt[e] = "working"

\* request: the frame is written to the connection, if there is one; a broken one
\* may still take it until its reader has closed it.
Request(r) ==
  /\ Mode = "ws" /\ req[r] = "idle" /\ MayAsk(r)
  /\ \/ /\ alive /\ sent' = sent \cup {r} /\ req' = [req EXCEPT ![r] = "waiting"]
     \/ /\ ~alive /\ req' = [req EXCEPT ![r] = "failed"] /\ sent' = sent
     \/ /\ ~alive /\ reader = "read" /\ req' = [req EXCEPT ![r] = "waiting"] /\ sent' = sent
  /\ UNCHANGED <<reader, alive, fails, breaks, replies, ch, queue, evt>>

\* The platform answers, in any order.
Answer(r) ==
  /\ r \in sent /\ sent' = sent \ {r}
  /\ \E st \in {"ok", "error"} : replies' = replies \cup {<<r, st>>}
  /\ UNCHANGED <<reader, alive, fails, breaks, req, ch, queue, evt>>

\* Mutant: the answers queue for the workers like the events.
DeliverByWorker(r) ==
  /\ reader = "read" /\ Cardinality(Working) < Workers
  /\ \E a \in replies : /\ a[1] = r /\ replies' = replies \ {a}
                        /\ ch' = IF req[r] = "waiting" THEN [ch EXCEPT ![r] = a[2]] ELSE ch
  /\ UNCHANGED <<reader, alive, fails, breaks, sent, req, queue, evt>>

\* readLoop, deliverAck: the reader hands an answer to the request that waits for
\* it, by its echo, and drops it when nobody does.
DeliverAck(r) ==
  /\ reader = "read"
  /\ \E a \in replies : /\ a[1] = r /\ replies' = replies \ {a}
                        /\ ch' = IF req[r] = "waiting" THEN [ch EXCEPT ![r] = a[2]] ELSE ch
  /\ UNCHANGED <<reader, alive, fails, breaks, sent, req, queue, evt>>

\* request: the select of the answer and the timer.
Receive(r) ==
  /\ req[r] = "waiting" /\ ch[r] # "empty"
  /\ req' = [req EXCEPT ![r] = IF ch[r] = "ok" THEN "ok" ELSE "failed"]
  /\ ch' = [ch EXCEPT ![r] = "empty"]
  /\ UNCHANGED <<reader, alive, fails, breaks, sent, replies, queue, evt>>

Timeout(r) ==
  /\ req[r] = "waiting"
  /\ req' = [req EXCEPT ![r] = "failed"] /\ ch' = [ch EXCEPT ![r] = "empty"]
  /\ UNCHANGED <<reader, alive, fails, breaks, sent, replies, queue, evt>>

\* readLoop: an event is queued, or dropped when the queue is full.
Push(e) ==
  /\ Mode = "ws" /\ reader = "read" /\ alive /\ evt[e] = "new"
  /\ IF Len(queue) < QueueSize
     THEN queue' = Append(queue, e) /\ evt' = [evt EXCEPT ![e] = "queued"]
     ELSE queue' = queue /\ evt' = [evt EXCEPT ![e] = "dropped"]
  /\ UNCHANGED <<reader, alive, fails, breaks, sent, replies, req, ch>>

\* onMsg of the WebSocket adapters: messages of a group, messages of friends, and
\* notices with a registered type.
Passes(e) == KindOf[e] \in {"group", "friend"} \cup DOMAIN NoticeIds
\* onMsg of the HTTP adapters.
PassesHttp(e) == KindOf[e] \in {"group", "friend"} \cup DOMAIN NoticeIds

\* A worker takes the next event and calls its trigger.
Take ==
  /\ queue # <<>> /\ Cardinality(Working) < Workers
  /\ evt' = [evt EXCEPT ![Head(queue)] = IF Passes(Head(queue)) THEN "working" ELSE "ignored"]
  /\ queue' = Tail(queue)
  /\ UNCHANGED <<reader, alive, fails, breaks, sent, replies, req, ch>>

\* The trigger returns when the requests of its handler have ended.
Handled(e) ==
  /\ evt[e] = "working" /\ Asking(e) = {}
  /\ evt' = [evt EXCEPT ![e] = "handled"]
  /\ UNCHANGED <<reader, alive, fails, breaks, sent, replies, req, ch, queue>>
-------------------------------------------------------------------------------
(* HTTP: one request per call, one goroutine per event.                    *)

\* Serve: the port is bound, or taken: then no event is ever received, but calls
\* still work.
Listen ==
  /\ Mode = "http" /\ reader = "dial"
  /\ reader' = "read" /\ alive' \in BOOLEAN
  /\ UNCHANGED <<fails, breaks, sent, replies, req, ch, queue, evt>>

\* postAndCheck, checkResponseStatus: within five seconds.
Post(r) ==
  /\ Mode = "http" /\ req[r] = "idle" /\ MayAsk(r)
  /\ \E out \in {"ok", "failed"} : req' = [req EXCEPT ![r] = out]
  /\ UNCHANGED <<reader, alive, fails, breaks, sent, replies, ch, queue, evt>>

\* handler, checkInToken: a report without the token, or when none is configured,
\* with a method other than POST or with too large a body is refused.
Report(e) ==
  /\ Mode = "http" /\ reader = "read" /\ alive /\ evt[e] = "new"
  /\ evt' = [evt EXCEPT ![e] = IF KindOf[e] = "forged" THEN "refused"
                               ELSE IF PassesHttp(e) THEN "working" ELSE "ignored"]
  /\ UNCHANGED <<reader, alive, fails, breaks, sent, replies, req, ch, queue>>
-------------------------------------------------------------------------------
Reader == Dial \/ ReadError \/ StopWorkerPool \/ Listen
Worker == Take \/ \E e \in Events : Handled(e)

Next ==
  \/ Reader \/ Worker \/ Break
  \/ \E r \in Requests : Request(r) \/ Answer(r) \/ DeliverAck(r) \/ Receive(r)
                         \/ Timeout(r) \/ Post(r)
  \/ \E e \in Events : Push(e) \/ Report(e)

Spec == Init /\ [][Next]_vars

\* The goroutines go on; the timer is not counted on.
Progress(r) == DeliverAck(r) \/ Receive(r)
FairSpec == /\ Spec /\ WF_vars(Reader) /\ WF_vars(Worker)
            /\ \A r \in Requests : WF_vars(Progress(r)) /\ WF_vars(Request(r))
-------------------------------------------------------------------------------
TypeOK ==
  /\ reader \in {"dial", "read", "drain"} /\ alive \in BOOLEAN
  /\ fails \in 0..MaxFails /\ breaks \in 0..MaxFails
  /\ sent \subseteq Requests /\ replies \subseteq Requests \X {"ok", "error"}
  /\ req \in [Requests -> {"idle", "waiting", "ok", "failed"}]
  /\ ch \in [Requests -> {"empty", "ok", "error"}]
  /\ queue \in Seq(Events) /\ Len(queue) <= QueueSize
  /\ evt \in [Events -> {"new", "queued", "dropped", "working", "ignored",
                         "handled", "refused"}]

\* stopWorkerPool waits: no worker of an old connection and no event of its queue is
\* left when the next one is dialled, so one pool at a time handles events and none
\* that was queued is forgotten.
OnePool ==
  Mode = "ws" =>
    /\ reader = "dial" => Working = {} /\ queue = <<>>
    /\ {e \in Events : evt[e] = "queued"} = {queue[i] : i \in 1..Len(queue)}
    /\ Cardinality(Working) <= Workers

\* Whatever call or notice an identifier comes from, it carries the prefix that routes
\* it back to this adapter, and loses it when it is handed back to the platform.
IdsComeHome ==
  /\ \A r \in Requests : req[r] = "ok" =>
        Handed(CallOf[r]) \subseteq {Flavor} /\ OnTheWire(Handed(CallOf[r])) \subseteq {"raw"}
  /\ \A e \in Events : evt[e] = "handled" => Noticed(KindOf[e]) \subseteq {Flavor}

\* An answer that has arrived reaches its request without the help of the timer, even if
\* all workers wait for answers; and a queued event is handled or ignored, also when
\* its connection breaks.
AnswersArrive ==
  \A r \in Requests : (\E a \in replies : a[1] = r) /\ req[r] = "waiting"
                        ~> req[r] # "waiting" \/ ~alive
================================================================================
