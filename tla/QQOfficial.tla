------------------------------- MODULE QQOfficial -------------------------------
(***************************************************************************)
(* The QQ official adapter (adapter/qqofficial): a gateway session that is  *)
(* resumed after its last sequence number; the access token its callers     *)
(* share; chains sent as replies, each with a message id that allows a few  *)
(* numbered ones; the translation of what comes in and the upload of media. *)
(***************************************************************************)
EXTENDS Naturals, Sequences, FiniteSets, SequencesExt

CONSTANTS MaxEvents,   \* bound: events of the gateway
          MaxSessions, \* bound: sessions the gateway opens
          MaxBreaks,   \* bound: connections lost
          Callers,     \* callers of the API
          MaxTokens,   \* bound: access tokens the server issues
          Incoming,    \* messages of the one conversation
          MaxPushes,   \* bound: how often one of them is pushed
          Chains,      \* chains to send, one sender each: sequences of segments
          Parts,       \* parts a text of a chain is split into
          Limit        \* groupReplyLimit, c2cReplyLimit

QQOfficialAssumption ==
  /\ {MaxEvents, MaxSessions, MaxBreaks, MaxTokens, MaxPushes} \subseteq Nat
  /\ Limit \in Nat \ {0} /\ Parts \in Nat \ {0}

VARIABLES gw,      \* the gateway: its session, what it dispatched in it, sessions opened
          link,    \* the connection: its phase and the payloads under way
          me,      \* a.sessionID and a.lastSeq, and whether readLoop saw READY
          handling, handled, \* events in goroutines, and how often each was handled
          breaks,
          token,   \* tokenManager: the token, whether it is far from expiring
          issued,  \* the token the server accepts
          calls,   \* calls of post
          reply,   \* the reply token of the conversation
          pushes,  \* how often each message was pushed
          out,     \* sendChain of each chain
          used     \* pairs of msg_id and msg_seq posted: how often

gateVars == <<gw, link, me, handling, handled, breaks>>
tokenVars == <<token, issued, calls>>
sendVars == <<reply, pushes, out, used>>
vars == <<gateVars, tokenVars, sendVars>>

Events == 1..MaxEvents
Down == [phase |-> "down", wire |-> <<>>]
NoReply == [msg |-> 0, seq |-> 0, old |-> FALSE]
Unsent == [at |-> "new", todo |-> <<>>, part |-> 0, ref |-> 0, refs |-> 0, sent |-> 0]
Uncalled == [at |-> "idle", val |-> 0, bad |-> 0]

Init ==
  /\ gw = [id |-> 0, log |-> <<>>, opened |-> 0] /\ link = Down
  /\ me = [id |-> 0, seq |-> 0, ready |-> FALSE]
  /\ handling = {} /\ handled = [e \in Events |-> 0] /\ breaks = 0
  /\ token = [val |-> 0, fresh |-> FALSE] /\ issued = 1
  /\ calls = [c \in Callers |-> Uncalled]
  /\ reply = NoReply /\ pushes = [m \in Incoming |-> 0]
  /\ out = [c \in Chains |-> Unsent] /\ used = [p \in Incoming \X (1..Limit) |-> 0]
-------------------------------------------------------------------------------
(* The gateway. An entry of gw.log is an event, 0 is READY; the number of a  *)
(* dispatch is its place in the log.                                       *)

Dispatch(s, e) == [op |-> "dispatch", s |-> s, e |-> e]
Signal(op) == [op |-> op, s |-> 0, e |-> 0]
Replay(seq) == [i \in 1..Len(gw.log) - seq |-> Dispatch(seq + i, gw.log[seq + i])]

Happens ==
  /\ gw.id # 0
  /\ \E e \in Events :
       /\ e \notin Range(gw.log) \cup handling /\ handled[e] = 0
       /\ \A d \in 1..e - 1 : d \in Range(gw.log) \cup handling \/ handled[d] > 0
       /\ gw' = [gw EXCEPT !.log = Append(@, e)]
       /\ link' = IF link.phase # "on" \/ Contains(link.wire, Signal("invalid")) THEN link
                  ELSE [link EXCEPT !.wire = Append(@, Dispatch(Len(gw.log) + 1, e))]
  /\ UNCHANGED <<me, handling, handled, breaks, tokenVars, sendVars>>

\* The gateway forgets the session.
Expire ==
  /\ gw.id # 0 /\ gw.opened < MaxSessions /\ gw' = [gw EXCEPT !.id = 0, !.log = <<>>]
  /\ link' = IF link.phase = "on" THEN [link EXCEPT !.wire = Append(@, Signal("invalid"))]
             ELSE link
  /\ UNCHANGED <<me, handling, handled, breaks, tokenVars, sendVars>>

\* opReconnect, opInvalidSess with d = true.
AskReconnect ==
  /\ link.phase = "on" /\ breaks < MaxBreaks /\ breaks' = breaks + 1
  /\ link' = [link EXCEPT !.wire = Append(@, Signal("reconnect"))]
  /\ UNCHANGED <<gw, me, handling, handled, tokenVars, sendVars>>

\* connectOnce: the address of the gateway, the connection and its Hello; each of them
\* may fail, and serveLoop tries again.
Dial ==
  /\ link.phase = "down" /\ link' = [phase |-> "hello", wire |-> <<>>]
  /\ UNCHANGED <<gw, me, handling, handled, breaks, tokenVars, sendVars>>

\* connectOnce, after Hello: resumes the session if there is one, otherwise identifies.
Authenticate ==
  /\ link.phase = "hello"
  /\ IF me.id # 0 /\ me.seq > 0
     THEN /\ UNCHANGED gw
          /\ link' = [phase |-> "on",
                      wire |-> IF gw.id = me.id THEN Append(Replay(me.seq), Signal("resumed"))
                               ELSE <<Signal("invalid")>>]
     ELSE /\ gw.opened < MaxSessions
          /\ gw' = [id |-> gw.opened + 1, log |-> <<0>>, opened |-> gw.opened + 1]
          /\ link' = [phase |-> "on", wire |-> <<Dispatch(1, 0)>>]
  /\ me' = [me EXCEPT !.ready = FALSE]
  /\ UNCHANGED <<handling, handled, breaks, tokenVars, sendVars>>

\* Mutant: only the number of READY is noted.
SeqOfReady(p) == IF p.e = 0 THEN p.s ELSE me.seq

\* readLoop: the last number that was read is noted before the event is handled.
LastSeq(p) == IF p.s > 0 THEN p.s ELSE me.seq

\* readLoop: one payload; an event gets a goroutine of its own.
Read ==
  /\ link.phase = "on" /\ link.wire # <<>>
  /\ LET p == Head(link.wire) IN
     \/ /\ p.op = "dispatch" /\ p.e = 0
        /\ me' = [id |-> gw.opened, seq |-> LastSeq(p), ready |-> TRUE]
        /\ link' = [link EXCEPT !.wire = Tail(@)] /\ UNCHANGED handling
     \/ /\ p.op = "dispatch" /\ p.e # 0
        /\ me' = [me EXCEPT !.seq = LastSeq(p)] /\ handling' = handling \cup {p.e}
        /\ link' = [link EXCEPT !.wire = Tail(@)]
     \/ /\ p.op = "resumed" /\ me' = [me EXCEPT !.ready = TRUE]
        /\ link' = [link EXCEPT !.wire = Tail(@)] /\ UNCHANGED handling
     \/ /\ p.op = "reconnect" /\ link' = Down /\ UNCHANGED <<me, handling>>
     \/ /\ p.op = "invalid" /\ link' = Down /\ UNCHANGED handling
        /\ me' = [id |-> 0, seq |-> 0, ready |-> FALSE]      \* serveLoop
  /\ UNCHANGED <<gw, handled, breaks, tokenVars, sendVars>>

\* The connection is lost, or heartbeatLoop closes one that acknowledges nothing.
Break ==
  /\ link.phase # "down" /\ breaks < MaxBreaks /\ breaks' = breaks + 1 /\ link' = Down
  /\ UNCHANGED <<gw, me, handling, handled, tokenVars, sendVars>>

\* handleEvent: the goroutine of an event calls the trigger.
HandleEvent(e) ==
  /\ e \in handling /\ handling' = handling \ {e}
  /\ handled' = [handled EXCEPT ![e] = @ + 1]
  /\ UNCHANGED <<gw, link, me, breaks, tokenVars, sendVars>>
-------------------------------------------------------------------------------
(* The access token.                                                       *)

\* refreshLocked: the server hands out the token it accepts.
Renewed == [val |-> issued, fresh |-> TRUE]

\* Token: a new one if there is none, or it expires within tokenRefreshMargin.
Token(c, then) ==
  LET t == IF token.val # 0 /\ token.fresh THEN token ELSE Renewed IN
  /\ token' = t
  /\ calls' = [calls EXCEPT ![c].at = then, ![c].val = t.val]

Call(c) ==
  /\ calls[c].at = "idle" /\ Token(c, "first")
  /\ UNCHANGED <<issued, gateVars, sendVars>>

\* Invalidate
Invalidated == [token EXCEPT !.fresh = FALSE]

\* post, doPost: a 401 invalidates whatever token there is now.
Answered(c) ==
  /\ calls[c].at \in {"first", "second"}
  /\ LET ok == calls[c].val = issued IN
     /\ calls' = [calls EXCEPT ![c].at = IF ok THEN "ok"
                                         ELSE IF @ = "first" THEN "again" ELSE "refused",
                               ![c].bad = IF ok THEN 0 ELSE calls[c].val]
     /\ token' = IF ~ok /\ calls[c].at = "first" THEN Invalidated ELSE token
  /\ UNCHANGED <<issued, gateVars, sendVars>>

CallAgain(c) ==
  /\ calls[c].at = "again" /\ Token(c, "second")
  /\ UNCHANGED <<issued, gateVars, sendVars>>

\* The server revokes the token; time passes.
Revoke ==
  /\ issued < MaxTokens /\ issued' = issued + 1
  /\ UNCHANGED <<token, calls, gateVars, sendVars>>

NearlyExpired ==
  /\ token.fresh /\ token' = [token EXCEPT !.fresh = FALSE]
  /\ UNCHANGED <<issued, calls, gateVars, sendVars>>
-------------------------------------------------------------------------------
(* Replies.                                                                *)

\* onGroupMessage, onC2CMessage: storeReplyToken, before the core tells whether it has
\* the message already.
Push(m) ==
  /\ pushes[m] < MaxPushes /\ pushes' = [pushes EXCEPT ![m] = @ + 1]
  /\ reply' = [msg |-> m, seq |-> 0, old |-> FALSE]
  /\ UNCHANGED <<out, used, gateVars, tokenVars>>

\* groupReplyTTL, c2cReplyTTL
Age ==
  /\ reply.msg # 0 /\ ~reply.old /\ reply' = [reply EXCEPT !.old = TRUE]
  /\ UNCHANGED <<pushes, out, used, gateVars, tokenVars>>

Usable == reply.msg # 0 /\ ~reply.old /\ reply.seq < Limit

\* nextReplySeq: counted whether or not the message gets through.
TakeSeq == reply' = IF Usable THEN [reply EXCEPT !.seq = @ + 1] ELSE reply

\* sendChain: texts next to one another are one; the other segments are media. A chain
\* without an explicit reply refers to the message that allows one.
Units(c) ==
  FoldLeft(LAMBDA us, s : IF s = "text" /\ us # <<>> /\ Last(us) = "text" THEN us
                          ELSE Append(us, s),
           <<>>, SelectSeq(c, LAMBDA s : s \notin {"reply", "at"}))

SendChain(c) ==
  /\ out[c].at = "new"
  /\ out' = [out EXCEPT ![c] =
       [Unsent EXCEPT !.at = "sending", !.todo = Units(c),
          !.ref = IF Contains(c, "reply") THEN 1 ELSE IF Usable THEN reply.msg ELSE 0]]
  /\ UNCHANGED <<reply, pushes, used, gateVars, tokenVars>>

\* postMessage: a reply that came too late is posted once more without the message, a
\* refused Markdown once more as plain text; nothing is repeated after a network error.
PostMessage(isReply, markdown, a, b, c) ==
  LET first == IF isReply /\ a = "expired" THEN b ELSE a
  IN IF markdown /\ first = "rejected" THEN c ELSE first

Answers == {"ok", "expired", "rejected", "network"}
Posted(isReply, isText) ==
  {PostMessage(isReply, isText, a, b, c) = "ok" : a, b, c \in Answers}

\* The reference goes with the first message that got through.
RefAfter(o) == 0

\* sendText, sendMedia: one message. A text stops at its first part that fails, and
\* counts as sent if one part was.
SendOne(c) ==
  /\ out[c].at = "sending" /\ out[c].todo # <<>>
  /\ LET o == out[c]
         text == Head(o.todo) = "text"
         carries == o.ref # 0 /\ o.part = 0
         last == ~text \/ o.part + 1 = Parts
         next(p) == [p EXCEPT !.todo = Tail(@), !.part = 0,
                              !.ref = IF p.part > 0 THEN RefAfter(p) ELSE @]
     IN /\ TakeSeq
        /\ used' = IF Usable THEN [used EXCEPT ![<<reply.msg, reply.seq + 1>>] = @ + 1] ELSE used
        /\ \E ok \in Posted(Usable, text) :
             out' = [out EXCEPT ![c] =
               IF ~ok THEN next(o)
               ELSE LET p == [o EXCEPT !.part = @ + 1, !.sent = @ + 1,
                                       !.refs = @ + (IF carries THEN 1 ELSE 0)]
                    IN IF last THEN next(p) ELSE p]
  /\ UNCHANGED <<pushes, gateVars, tokenVars>>

\* sendChain: whether anything got through; cacheSent.
FinishChain(c) ==
  /\ out[c].at = "sending" /\ out[c].todo = <<>>
  /\ out' = [out EXCEPT ![c].at = IF out[c].sent > 0 THEN "sent" ELSE "failed"]
  /\ UNCHANGED <<reply, pushes, used, gateVars, tokenVars>>
-------------------------------------------------------------------------------
(* Pure parts.                                                             *)

\* uploadByBytes: the blocks the server asks for, the last one cut; an empty one fails,
\* and so does a rest.
Upload(size, blocks) ==
  FoldLeft(LAMBDA u, b :
             LET end == IF u.at + b < size THEN u.at + b ELSE size
             IN [at |-> end, parts |-> Append(u.parts, <<u.at, end>>),
                 ok |-> u.ok /\ b > 0 /\ u.at < end],
           [at |-> 0, parts |-> <<>>, ok |-> blocks # <<>>], blocks)
Uploaded(size, blocks) == Upload(size, blocks).ok /\ Upload(size, blocks).at = size

\* isSelfMention: by the flag and the name, or by an id.
IsSelf(m, name) == m.bot /\ (name = "" \/ m.name \in {"", name})

\* stripMentionMarkup, contentToSegments, attachmentTextToSegments: the marks of the
\* mentions go, a line that stands for an attachment becomes a segment of its own.
ContentSegs(content, ids) ==
  FoldLeft(LAMBDA segs, t :
             CASE t = "attachment" -> Append(segs, "media")
               [] t \in ids        -> segs
               [] OTHER            -> IF segs # <<>> /\ Last(segs) = "text" THEN segs
                                      ELSE Append(segs, "text"),
           <<>>, content)

\* attachmentsToSegments: one without an address is left out.
AttachmentSegs(atts) ==
  LET kept == SelectSeq(atts, LAMBDA a : a.url)
  IN [i \in DOMAIN kept |-> "media"]

\* onGroupMessage: a mention of the bot comes first, the content, the attachments, the
\* mentions of others.
GroupSegs(atOnly, name, content, mentions, attachments) ==
  LET self == atOnly \/ \E i \in DOMAIN mentions : IsSelf(mentions[i], name)
      others == SelectSeq(mentions, LAMBDA m : ~IsSelf(m, name))
  IN (IF self THEN <<"self">> ELSE <<>>)
     \o ContentSegs(content, {mentions[i].id : i \in DOMAIN mentions})
     \o AttachmentSegs(attachments)
     \o [i \in DOMAIN others |-> others[i].id]
-------------------------------------------------------------------------------
Next ==
  \/ Happens \/ Expire \/ AskReconnect \/ Dial \/ Authenticate \/ Read \/ Break
  \/ \E e \in Events : HandleEvent(e)
  \/ \E c \in Callers : Call(c) \/ Answered(c) \/ CallAgain(c)
  \/ Revoke \/ NearlyExpired
  \/ \E m \in Incoming : Push(m)
  \/ Age
  \/ \E c \in Chains : SendChain(c) \/ SendOne(c) \/ FinishChain(c)

Spec == Init /\ [][Next]_vars
-------------------------------------------------------------------------------
TypeOK ==
  /\ me.id \in 0..MaxSessions /\ me.seq \in 0..MaxEvents + 1 /\ me.ready \in BOOLEAN
  /\ link.phase \in {"down", "hello", "on"} /\ handling \subseteq Events
  /\ token.val \in 0..MaxTokens /\ issued \in 1..(MaxTokens + 1)
  /\ reply.msg \in Incoming \cup {0} /\ reply.seq \in 0..Limit

\* Whatever breaks between the adapter and the gateway, an event of a session is handled
\* at most once, and what a resume will not ask for again was read.
EventsOnce ==
  /\ \A e \in Events : handled[e] + (IF e \in handling THEN 1 ELSE 0) <= 1
  /\ me.id = gw.id /\ gw.id # 0 =>
       \A i \in 1..me.seq : gw.log[i] = 0 \/ gw.log[i] \in handling \/ handled[gw.log[i]] = 1

\* Whoever else refreshes or invalidates the token meanwhile, the second try of a call
\* is made with another token than the one that was refused.
TriesAnotherToken ==
  \A c \in Callers : calls[c].at = "second" => calls[c].val # calls[c].bad

\* Of the messages of a chain one at most refers to the message it answers.
ReferredOnce == \A c \in Chains : out[c].refs <= 1

\* A pair of msg_id and msg_seq is posted once for every push of the message, whoever
\* sends; so with a message that is pushed once no reply is refused as a repetition.
SeqsPerPush == \A p \in DOMAIN used : used[p] <= pushes[p[1]]

\* send.go says that a repeated pair fails and that the number must increase; but a
\* message that is pushed again starts it anew.
SeqsNeverRepeat == \A p \in DOMAIN used : used[p] <= 1

\* An upload that is reported as done covered the data without a gap or an overlap.
UploadIsWhole ==
  \A size \in 1..4 : \A n \in 1..3 : \A blocks \in [1..n -> 0..3] :
    Uploaded(size, blocks) =>
      LET ps == Upload(size, blocks).parts IN
      /\ ps[1][1] = 0 /\ ps[n][2] = size
      /\ \A i \in 1..n : ps[i][1] < ps[i][2] /\ (i < n => ps[i][2] = ps[i + 1][1])

\* A group message says all that was written in it: each attachment is a segment, words
\* before, between and after them are kept, and of two marks of a mention none is left.
GroupMessageIsWhole ==
  \A n \in 0..3 : \A content \in [1..n -> {"word", "attachment", "u1"}] :
    LET segs == ContentSegs(content, {"u1"})
        media(q, k) == Cardinality({i \in DOMAIN q : q[i] = k})
    IN /\ media(segs, "media") = media(content, "attachment")
       /\ \A i \in DOMAIN content : content[i] = "word" =>
            \E j \in DOMAIN segs :
              /\ segs[j] = "text"
              /\ media(SubSeq(segs, 1, j), "media")
                   = media(SubSeq(content, 1, i), "attachment")
       /\ Range(segs) \subseteq {"media", "text"}
================================================================================
