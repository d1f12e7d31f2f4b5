--------------------------------- MODULE Discord ---------------------------------
(***************************************************************************)
(* The Discord adapter (adapter/discord): the handlers of the gateway's      *)
(* events, which discordgo calls in goroutines of their own; recalls, whose  *)
(* author is found in the cache and whose operator in the audit log; chains  *)
(* sent with attachments in batches; a reply that is streamed by edits.      *)
(***************************************************************************)
EXTENDS Naturals, Sequences, FiniteSets, SequencesExt

CONSTANTS Guilds,      \* servers
          MaxReadies,  \* bound: sessions of the gateway
          Messages,    \* messages of one channel, all by one author
          Moderators,  \* who else may delete one
          Chains,      \* chains to send: sequences of segments
          MaxFiles,    \* maxFilesPerMessage
          MaxTexts     \* bound: contents of a streamed reply

DiscordAssumption ==
  {MaxReadies, MaxTexts} \subseteq Nat /\ MaxFiles \in Nat \ {0} /\ "author" \notin Moderators

VARIABLES status,   \* a.connState
          self,     \* whether a.selfID is known
          readies,  \* sessions so far
          member,   \* servers the bot is in
          pushes,   \* GuildCreate under way: the server and whether it was joined only now
          added,    \* discord.bot_added: the same
          msg,      \* each message: new, under way, cached or dropped
          deleted,  \* who deleted it
          audit,    \* entries of the audit log: the message, whether it is in the window
          recalls,  \* emitGroupRecall: under way, and what was said
          out,      \* the chain being sent
          stream    \* the streamed reply

gateVars == <<status, self, readies, member, pushes, added>>
recallVars == <<msg, deleted, audit, recalls>>
sendVars == <<out, stream>>
vars == <<gateVars, recallVars, sendVars>>

Deleters == Moderators \cup {"author"}
Unsaid == [at |-> "none", author |-> FALSE, op |-> "", clear |-> TRUE]
Idle == [on |-> FALSE, todo |-> <<>>, text |-> 0, files |-> <<>>, reply |-> FALSE, sent |-> <<>>]
NoStream == [on |-> FALSE, prefix |-> FALSE, content |-> 0, shown |-> 0, last |-> 0,
             closed |-> FALSE, failed |-> FALSE]

Init ==
  /\ status = "connecting" /\ self = FALSE /\ readies = 0
  /\ member \in SUBSET Guilds /\ pushes = {} /\ added = {}
  /\ msg = [m \in Messages |-> "new"] /\ deleted = [m \in Messages |-> "none"]
  /\ audit = {} /\ recalls = [m \in Messages |-> Unsaid]
  /\ out = Idle /\ stream = NoStream
-------------------------------------------------------------------------------
(* The gateway.                                                            *)

\* onReady: the gateway goes on to push the servers the bot is in.
OnReady ==
  /\ status # "connected" /\ readies < MaxReadies /\ readies' = readies + 1
  /\ self' = TRUE /\ status' = "connected"
  /\ pushes' = pushes \cup {<<g, "known">> : g \in member}
  /\ UNCHANGED <<member, added, recallVars, sendVars>>

\* onResumed, onDisconnect
OnResumed ==
  /\ status = "reconnecting" /\ self /\ status' = "connected"
  /\ UNCHANGED <<self, readies, member, pushes, added, recallVars, sendVars>>
OnDisconnect ==
  /\ status = "connected" /\ status' = "reconnecting"
  /\ UNCHANGED <<self, readies, member, pushes, added, recallVars, sendVars>>

\* The bot is added to a server.
Join(g) ==
  /\ g \notin member /\ member' = member \cup {g} /\ status = "connected"
  /\ pushes' = pushes \cup {<<g, "joined">>}
  /\ UNCHANGED <<status, self, readies, added, recallVars, sendVars>>

\* onGuildCreate: what comes once the bot knows itself counts as added.
OnGuildCreate ==
  /\ \E p \in pushes : /\ pushes' = pushes \ {p}
                       /\ added' = IF self THEN added \cup {p} ELSE added
  /\ UNCHANGED <<status, self, readies, member, recallVars, sendVars>>

\* onGuildDelete
OnGuildDelete(g) ==
  /\ g \in member /\ member' = member \ {g} /\ status = "connected"
  /\ pushes' = {p \in pushes : p[1] # g}
  /\ UNCHANGED <<status, self, readies, added, recallVars, sendVars>>
-------------------------------------------------------------------------------
(* Messages and recalls.                                                   *)

OnMessageCreate(m) ==
  /\ msg[m] = "new" /\ msg' = [msg EXCEPT ![m] = "running"]
  /\ UNCHANGED <<deleted, audit, recalls, gateVars, sendVars>>

\* handleMessage: translated, its attachments downloaded, into the cache, to the trigger;
\* the message of a bot, of a webhook and an empty one is dropped.
HandleMessage(m) ==
  /\ msg[m] = "running" /\ \E to \in {"cached", "dropped"} : msg' = [msg EXCEPT ![m] = to]
  /\ UNCHANGED <<deleted, audit, recalls, gateVars, sendVars>>

\* A message is deleted: by its author without a trace, by a moderator with an entry in
\* the audit log that comes later.
Delete(m) ==
  /\ msg[m] # "new" /\ deleted[m] = "none"
  /\ \E d \in Deleters : deleted' = [deleted EXCEPT ![m] = d]
  /\ UNCHANGED <<msg, audit, recalls, gateVars, sendVars>>

Entry(m) == [m |-> m, by |-> deleted[m], fresh |-> TRUE]
Audit(m) ==
  /\ deleted[m] \in Moderators /\ \A e \in audit : e.m # m
  /\ audit' = audit \cup {Entry(m)}
  /\ UNCHANGED <<msg, deleted, recalls, gateVars, sendVars>>
Ages ==
  /\ \E e \in audit : e.fresh /\ audit' = (audit \ {e}) \cup {[e EXCEPT !.fresh = FALSE]}
  /\ UNCHANGED <<msg, deleted, recalls, gateVars, sendVars>>

\* onMessageDelete: the author is looked up at once, the operator later.
OnMessageDelete(m) ==
  /\ deleted[m] # "none" /\ recalls[m].at = "none"
  /\ recalls' = [recalls EXCEPT ![m].at = "waits", ![m].author = msg[m] = "cached"]
  /\ UNCHANGED <<msg, deleted, audit, gateVars, sendVars>>

\* resolveDeleter: an entry says neither which message nor, beyond ten seconds, anything.
Matches(e) == e.fresh

\* Whether the log is complete and unmistakable for m: its own entry is there, or there
\* is none to come, and no other entry matches.
Clear(m) ==
  /\ deleted[m] \in Moderators => \E e \in audit : e.m = m /\ e.fresh
  /\ \A e \in audit : e.m # m => ~e.fresh \/ e.by = deleted[m]

\* emitGroupRecall, resolveDeleter: no author, no operator; the author if no entry
\* matches; no operator either if the log cannot be read.
EmitGroupRecall(m) ==
  /\ recalls[m].at = "waits"
  /\ LET found == {e.by : e \in {a \in audit : Matches(a)}}
         ops == IF ~recalls[m].author THEN {""}
                ELSE {""} \cup (IF found = {} THEN {"author"} ELSE found)
     IN \E op \in ops :
          recalls' = [recalls EXCEPT ![m] = [at |-> "said", author |-> recalls[m].author,
                                             op |-> op, clear |-> Clear(m)]]
  /\ UNCHANGED <<msg, deleted, audit, gateVars, sendVars>>
-------------------------------------------------------------------------------
(* Sending. A text is a word of a length: 1 fits into a message, 2 does not. *)

\* sendChain: the first reply segment is taken out; what is left must not be empty.
SendChain(c) ==
  /\ out = Idle
  /\ LET body == SelectSeq(c, LAMBDA s : s # "reply") IN
     /\ body # <<>>
     /\ out' = [Idle EXCEPT !.on = TRUE, !.todo = body, !.reply = Contains(c, "reply")]
  /\ UNCHANGED <<stream, gateVars, recallVars>>

\* sendText: parts, the first with the reply; sendFiles: one message, its text cut.
Sent(o, parts) == IF o.files = <<>> THEN parts ELSE IF o.text > 0 THEN 1 ELSE 0
Message(o, parts) ==
  [text |-> Sent(o, parts), files |-> o.files, reply |-> o.reply,
   cut |-> o.files # <<>> /\ o.text = 2, known |-> TRUE]

\* Mutant: the attachments stay for the next message.
KeepFiles(o) == o.files

FilesLeft(o) == <<>>

\* flush: what has gathered becomes a message, or is lost; or it becomes one whose answer
\* gets lost, so that the reply is not taken for used.
Flush(o) ==
  IF o.text = 0 /\ o.files = <<>> THEN {o}
  ELSE LET empty == [o EXCEPT !.text = 0, !.files = FilesLeft(o)] IN
       {empty, [empty EXCEPT !.sent = Append(@, [Message(o, 1) EXCEPT !.known = FALSE])]}
         \cup {[empty EXCEPT !.sent = Append(@, Message(o, p)), !.reply = FALSE] :
                  p \in 1..(IF o.text = 0 THEN 1 ELSE o.text)}

\* sendChain: a segment. An attachment that cannot be resolved is left out.
Gather ==
  /\ out.on /\ out.todo # <<>>
  /\ LET o == [out EXCEPT !.todo = Tail(@)]
         s == Head(out.todo)
         full == [o EXCEPT !.files = Append(@, s)]
     IN \/ s = "text" /\ out' = [o EXCEPT !.text = IF @ = 0 THEN 1 ELSE 2]
        \/ s \notin {"text"} /\ out' = o
        \/ /\ s # "text" /\ s # "other"
           /\ out' \in IF Len(full.files) >= MaxFiles THEN Flush(full) ELSE {full}
  /\ UNCHANGED <<stream, gateVars, recallVars>>

FinishChain ==
  /\ out.on /\ out.todo = <<>>
  /\ \E o \in Flush(out) : out' = [o EXCEPT !.on = FALSE]
  /\ UNCHANGED <<stream, gateVars, recallVars>>

\* sendStream: the mentions are a prefix of every content.
SendStream(prefix) ==
  /\ stream = NoStream /\ MaxTexts > 0
  /\ stream' = [NoStream EXCEPT !.on = TRUE, !.prefix = prefix, !.shown = 1]
  /\ UNCHANGED <<out, gateVars, recallVars>>

\* patchLocked: an edit that would change nothing is left out. With a prefix even the
\* content nobody gave, 0, is an edit.
PatchLocked(s, ok) ==
  IF s.content = s.last /\ (s.content # 0 \/ ~s.prefix) THEN s
  ELSE IF ok THEN [s EXCEPT !.shown = s.content, !.last = s.content, !.failed = FALSE]
  ELSE [s EXCEPT !.failed = TRUE]

\* Patch: at most one edit per interval.
Patch ==
  /\ stream.on /\ ~stream.closed /\ stream.content < MaxTexts
  /\ LET s == [stream EXCEPT !.content = IF @ = 0 THEN 2 ELSE @ + 1] IN
     \/ stream' = s
     \/ \E ok \in BOOLEAN : stream' = PatchLocked(s, ok)
  /\ UNCHANGED <<out, gateVars, recallVars>>

End ==
  /\ stream.on /\ ~stream.closed
  /\ \E ok \in BOOLEAN : stream' = [PatchLocked([stream EXCEPT !.failed = FALSE], ok)
                                      EXCEPT !.closed = TRUE]
  /\ UNCHANGED <<out, gateVars, recallVars>>
-------------------------------------------------------------------------------
(* splitContent: words and marks.                                          *)

\* A mention of a user is a segment, the other marks are text.
Rendered(t) == IF t = "user" THEN "user" ELSE "text"

SplitContent(content) ==
  FoldLeft(LAMBDA segs, t :
             IF Rendered(t) = "" THEN segs
             ELSE IF Rendered(t) = "user" THEN Append(segs, [type |-> "at", of |-> <<t>>])
             ELSE IF segs # <<>> /\ Last(segs).type = "text"
                  THEN [segs EXCEPT ![Len(segs)].of = Append(@, t)]
             ELSE Append(segs, [type |-> "text", of |-> <<t>>]),
           <<>>, content)
-------------------------------------------------------------------------------
Next ==
  \/ OnReady \/ OnResumed \/ OnDisconnect \/ OnGuildCreate
  \/ \E g \in Guilds : Join(g) \/ OnGuildDelete(g)
  \/ \E m \in Messages : \/ OnMessageCreate(m) \/ HandleMessage(m) \/ Delete(m) \/ Audit(m)
                         \/ OnMessageDelete(m) \/ EmitGroupRecall(m)
  \/ Ages
  \/ \E c \in Chains : SendChain(c)
  \/ Gather \/ FinishChain
  \/ \E prefix \in BOOLEAN : SendStream(prefix)
  \/ Patch \/ End

Spec == Init /\ [][Next]_vars
-------------------------------------------------------------------------------
TypeOK ==
  /\ status \in {"connecting", "connected", "reconnecting"} /\ readies \in 0..MaxReadies
  /\ member \subseteq Guilds /\ msg \in [Messages -> {"new", "running", "cached", "dropped"}]
  /\ stream.content \in 0..MaxTexts + 1 /\ Len(out.files) <= MaxFiles

\* A recall names another than who deleted the message only if the audit log was late or
\* held a fresh entry of another deletion; a message the cache had not yet got, none.
DeleterIsRight ==
  \A m \in Messages : recalls[m].at = "said" /\ recalls[m].clear =>
                        recalls[m].op \in {"", deleted[m]}

\* notice.go takes the author for who deleted when there is no entry; it may be late.
DeleterIsNeverWrong ==
  \A m \in Messages : recalls[m].at = "said" => recalls[m].op \in {"", deleted[m]}

\* session.go: only a server the bot joins while it runs counts as added.
OnlyJoinedIsAdded == \A p \in added : p[2] = "joined"

\* No attachment is sent twice, none overtakes another, no message holds too many, and
\* the first message that is known to have arrived is the last one to carry the reply.
BatchesAreOrdered ==
  LET sent == FlattenSeq([i \in DOMAIN out.sent |-> out.sent[i].files]) \o out.files IN
  /\ \A i \in DOMAIN out.sent : /\ Len(out.sent[i].files) <= MaxFiles
                                /\ out.sent[i].reply => \A k \in 1..i - 1 : ~out.sent[k].known
  /\ \A i, j \in DOMAIN sent : i < j => sent[i] # sent[j]
  /\ out.on /\ out.reply => \A i \in DOMAIN out.sent : ~out.sent[i].known

\* send.go says that only the first message carries the reply: one whose answer got lost
\* carries it too.
ReplyIsSpent == Cardinality({i \in DOMAIN out.sent : out.sent[i].reply}) <= 1

\* A text with an attachment is cut to one message: the rest of a long one is lost.
LongTextsAreWhole == \A i \in DOMAIN out.sent : ~out.sent[i].cut

\* A stream that has ended without a failure shows its last content.
FinalIsShown == stream.closed /\ ~stream.failed /\ stream.content # 0 =>
                  stream.shown = stream.content

\* A stream that nothing was added to shows what it began with: not with a prefix.
StartIsShown == stream.closed /\ stream.content = 0 => stream.shown = 1

\* All words and marks of a content are kept, in their order, and texts are merged.
ContentIsKept ==
  \A n \in 0..4 : \A content \in [1..n -> {"word", "user", "role"}] :
    LET segs == SplitContent(content) IN
    /\ FlattenSeq([i \in DOMAIN segs |-> segs[i].of]) = content
    /\ \A i \in 1..Len(segs) - 1 : ~(segs[i].type = "text" /\ segs[i + 1].type = "text")
================================================================================
