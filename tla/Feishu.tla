---------------------------------- MODULE Feishu ----------------------------------
(***************************************************************************)
(* The Feishu adapter (adapter/feishu): events that are delivered at least  *)
(* once and acknowledged before they are translated; chats and messages it  *)
(* remembers; a chain sent to a user along up to three ways; a reply        *)
(* streamed into a card.                                                    *)
(***************************************************************************)
EXTENDS Naturals, Sequences, FiniteSets, SequencesExt

CONSTANTS Messages,    \* incoming messages
          ChatOf,      \* the chat of each
          P2P,         \* chats that are single chats
          Texts,       \* texts to translate: sequences of tokens
          Chains,      \* chains to send: sequences of segments
          MaxRestarts, \* bound: restarts of the process
          MaxPatches   \* bound: contents of a streamed reply

\* What the constants are; instances assume it.
FeishuAssumption ==
  /\ DOMAIN ChatOf = Messages /\ P2P \subseteq Range(ChatOf)
  /\ {MaxRestarts, MaxPatches} \subseteq Nat

VARIABLES wire,      \* events not yet acknowledged: Feishu delivers them again
          dedup,     \* a.dedup
          chatTypes, \* chats whose type is known
          msgChats,  \* messages whose chat is known
          running,   \* goroutines that translate and hand over
          seen,      \* how often each event was handed over in this life
          notices,   \* notices handed over: the event and what it was taken for
          restarts,
          out,       \* the chain being sent
          card       \* the streamed reply

vars == <<wire, dedup, chatTypes, msgChats, running, seen, notices, restarts, out, card>>
eventVars == <<wire, dedup, chatTypes, msgChats, running, seen, notices, restarts>>

Events == {"msg", "recall", "reaction"} \X Messages
Idle == [ways |-> <<>>, chain |-> <<>>, posted |-> 0, files |-> 0, result |-> "none"]
NoCard == [on |-> FALSE, prefix |-> FALSE, content |-> 0, shown |-> 0, at |-> FALSE,
           failed |-> FALSE, closed |-> FALSE]

Init ==
  /\ wire = {} /\ dedup = {} /\ chatTypes = {} /\ msgChats = {}
  /\ running = {} /\ seen = [e \in Events |-> 0] /\ notices = {} /\ restarts = 0
  /\ out = Idle /\ card = NoCard
-------------------------------------------------------------------------------
(* Events.                                                                 *)

\* A user writes, and recalls or reacts to what was written.
Happens ==
  \E e \in Events :
    /\ e \notin wire /\ e \notin dedup /\ seen[e] = 0
    /\ e[1] = "msg" \/ <<"msg", e[2]>> \in wire \cup dedup
    /\ wire' = wire \cup {e}
    /\ UNCHANGED <<dedup, chatTypes, msgChats, running, seen, notices, restarts, out, card>>

\* The acknowledgement gets through, or not.
Ack(e) == wire' \in {wire, wire \ {e}}

\* IsDuplicate: claims an event, by its message_id, not by its event_id.
Claim(e) == e \notin dedup /\ dedup' = dedup \cup {e}

\* onReceive: what is known of the chat is noted before the acknowledgement, the
\* translation and the trigger are left to a goroutine.
OnReceive(m) ==
  LET e == <<"msg", m>> IN
  /\ e \in wire /\ Claim(e) /\ Ack(e)
  /\ chatTypes' = chatTypes \cup {ChatOf[m]} /\ msgChats' = msgChats \cup {m}
  /\ running' = running \cup {m}
  /\ UNCHANGED <<seen, notices, restarts, out, card>>

\* onReceive, eventMessageToOB11: a message with no segment is dropped.
HandOver(m) ==
  /\ m \in running /\ running' = running \ {m}
  /\ seen' \in {seen, [seen EXCEPT ![<<"msg", m>>] = @ + 1]}
  /\ UNCHANGED <<wire, dedup, chatTypes, msgChats, notices, restarts, out, card>>

\* onRecall: in a chat that is not known to be a single one it is a group's recall.
OnRecall(m) ==
  LET e == <<"recall", m>> IN
  /\ e \in wire /\ Claim(e) /\ Ack(e)
  /\ seen' = [seen EXCEPT ![e] = @ + 1]
  /\ notices' = notices \cup
       {<<e, IF ChatOf[m] \in chatTypes \cap P2P THEN "friend" ELSE "group">>}
  /\ UNCHANGED <<chatTypes, msgChats, running, restarts, out, card>>

\* onReaction: of a message whose chat is known and no single one.
OnReaction(m) ==
  LET e == <<"reaction", m>> IN
  /\ e \in wire /\ Claim(e) /\ Ack(e)
  /\ IF m \in msgChats /\ ChatOf[m] \notin chatTypes \cap P2P
     THEN /\ seen' = [seen EXCEPT ![e] = @ + 1]
          /\ notices' = notices \cup {<<e, "group">>}
     ELSE UNCHANGED <<seen, notices>>
  /\ UNCHANGED <<chatTypes, msgChats, running, restarts, out, card>>

\* An event delivered again is dropped and acknowledged.
Again ==
  /\ \E e \in wire \cap dedup : wire' = wire \ {e}
  /\ UNCHANGED <<dedup, chatTypes, msgChats, running, seen, notices, restarts, out, card>>

\* A restart: all of it was in memory.
Restart ==
  /\ restarts < MaxRestarts /\ restarts' = restarts + 1
  /\ dedup' = {} /\ chatTypes' = {} /\ msgChats' = {} /\ running' = {}
  /\ out' = Idle /\ card' = NoCard
  /\ UNCHANGED <<wire, seen, notices>>
-------------------------------------------------------------------------------
(* Translation of a text: a token is a word, the placeholder "@n" of the    *)
(* n-th mention, or "@_all".                                               *)

Mention(who) == IF who = "@_all" THEN "<all>" ELSE "<" \o who \o ">"

\* Cuts the text at the first t: what is before it becomes text.
CutAt(parsed, t) ==
  LET i == CHOOSE k \in 1..Len(parsed.text) :
             parsed.text[k] = t /\ \A j \in 1..k - 1 : parsed.text[j] # t
  IN [segs |-> Append(parsed.segs \o SubSeq(parsed.text, 1, i - 1), Mention(t)),
      text |-> SubSeq(parsed.text, i + 1, Len(parsed.text))]

\* parseTextContent: at the first "@_all", the others of which vanish; then at the
\* placeholders in the order of the mentions, those not found in the rest left out.
ParseTextContent(text, mentions) ==
  LET all == IF Contains(text, "@_all")
             THEN LET p == CutAt([segs |-> <<>>, text |-> text], "@_all")
                  IN [p EXCEPT !.text = SelectSeq(@, LAMBDA t : t # "@_all")]
             ELSE [segs |-> <<>>, text |-> text]
      cut == FoldLeft(LAMBDA p, k : IF Contains(p.text, k) THEN CutAt(p, k) ELSE p, all, mentions)
  IN cut.segs \o cut.text
-------------------------------------------------------------------------------
(* Sending.                                                                *)

\* segmentsToContent: no post for a chain without a text, a mention of a user and an
\* image; a mention of all goes along with one of them only.
Content(c) ==
  [empty |-> ~\E s \in Range(c) : s \in {"text", "at", "image"},
   all   |-> Contains(c, "at_all") /\ \E s \in Range(c) : s \in {"text", "at"}]

\* SendFriendMsg: the known chat, the open_id, the known chat once more.
WaysTo(known) == IF known THEN <<"chat", "open", "chat">> ELSE <<"open">>

\* The receiver wrote in this life of the process (p2pChats) or not.
SendFriendMsg(c) ==
  /\ out = Idle
  /\ \E known \in BOOLEAN :
       out' = [Idle EXCEPT !.ways = WaysTo(known), !.chain = c, !.result = "busy"]
  /\ UNCHANGED <<eventVars, card>>

\* sendChain along one way: reply segments are taken out; without a content nothing is
\* sent; the post arrives or not and is confirmed or not, and only a confirmed one is
\* followed by the files, as far as they can be uploaded.
SendChain ==
  /\ out.result = "busy" /\ out.ways # <<>>
  /\ \/ /\ Content(out.chain).empty
        /\ out' = [out EXCEPT !.ways = Tail(@)]
     \/ /\ ~Content(out.chain).empty
        /\ \E arrives, confirmed \in BOOLEAN :
             /\ confirmed => arrives
             /\ \E files \in 0..Len(SelectSeq(out.chain, LAMBDA s : s = "file")) :
                  out' = [out EXCEPT !.ways = IF confirmed THEN <<>> ELSE Tail(@),
                                     !.posted = @ + (IF arrives THEN 1 ELSE 0),
                                     !.files = IF confirmed THEN files ELSE @,
                                     !.result = IF confirmed THEN "sent" ELSE @]
  /\ UNCHANGED <<eventVars, card>>

SendFails ==
  /\ out.result = "busy" /\ out.ways = <<>>
  /\ out' = [out EXCEPT !.result = "failed"]
  /\ UNCHANGED <<eventVars, card>>
-------------------------------------------------------------------------------
(* A streamed reply: a card whose content a patch replaces.                *)

\* sendStream: the mentions are kept aside for the patches.
SendStream(at) ==
  /\ card = NoCard /\ MaxPatches > 0
  /\ card' = [NoCard EXCEPT !.on = TRUE, !.prefix = at, !.content = 1, !.shown = 1, !.at = at]
  /\ UNCHANGED <<eventVars, out>>

\* patchLocked.
PatchLocked(c, ok) == IF ok THEN [c EXCEPT !.shown = c.content, !.at = c.prefix]
                            ELSE [c EXCEPT !.failed = TRUE]

\* Patch: at once, or later if the last one was a moment ago.
Patch ==
  /\ card.on /\ ~card.closed /\ card.content < MaxPatches
  /\ LET c == [card EXCEPT !.content = @ + 1, !.failed = FALSE] IN
     card' \in {c, PatchLocked(c, TRUE), PatchLocked(c, FALSE)}
  /\ UNCHANGED <<eventVars, out>>

\* End: the last content once more.
End ==
  /\ card.on /\ ~card.closed
  /\ \E ok \in BOOLEAN :
       card' = [PatchLocked([card EXCEPT !.failed = FALSE], ok) EXCEPT !.closed = TRUE]
  /\ UNCHANGED <<eventVars, out>>
-------------------------------------------------------------------------------
Next ==
  \/ Happens \/ Again \/ Restart
  \/ \E m \in Messages : OnReceive(m) \/ HandOver(m) \/ OnRecall(m) \/ OnReaction(m)
  \/ \E c \in Chains : SendFriendMsg(c)
  \/ SendChain \/ SendFails
  \/ \E at \in BOOLEAN : SendStream(at)
  \/ Patch \/ End

Spec == Init /\ [][Next]_vars
-------------------------------------------------------------------------------
TypeOK ==
  /\ wire \subseteq Events /\ dedup \subseteq Events /\ msgChats \subseteq Messages
  /\ running \subseteq Messages /\ restarts \in 0..MaxRestarts
  /\ out.result \in {"none", "busy", "sent", "failed"} /\ out.posted \in 0..3
  /\ card.content \in 0..MaxPatches /\ card.shown \in 0..MaxPatches

\* An event is handed over once in a life of the process, however often it is delivered;
\* and an acknowledged message is in a goroutine or was handled, unless there was a restart.
EventsOnce ==
  \A e \in Events : seen[e] + (IF e[1] = "msg" /\ e[2] \in running THEN 1 ELSE 0) <= restarts + 1

\* adapter.go:479 says that a recall follows the type of its chat: not one that is handled
\* before the message, or whose message came before a restart.
RecallKnowsItsChat ==
  \A n \in notices : n[1][1] = "recall" => (n[2] = "friend") = (ChatOf[n[1][2]] \in P2P)

\* adapter.go:1104 says that files are sent apart: a chain of files alone is not sent,
\* for it has no content.
FilesAreSentAlone == out.result = "failed" => ~Content(out.chain).empty

\* adapter.go:1119 says that mentions are always delivered: that of all is lost next to
\* images alone.
AllIsMentioned == \A c \in Chains : Contains(c, "at_all") /\ ~Content(c).empty => Content(c).all

\* After End the card shows the last content, unless the last patch failed, and the
\* mentions of the first message are still on it.
CardIsFinal == /\ card.closed /\ ~card.failed => card.shown = card.content
               /\ card.on => card.at = card.prefix

\* Words are neither lost nor reordered by the translation of a text, whatever mentions
\* there are and in whatever order they are listed.
WordsSurvive ==
  \A text \in Texts : \A mentions \in {<<"@1", "@2">>, <<"@2", "@1">>, <<"@1">>, <<>>} :
    LET words(s) == SelectSeq(s, LAMBDA t : t \in {"a", "b"})
    IN words(ParseTextContent(text, mentions)) = words(text)

\* Mentions that are listed in the order of the text all become segments, unless an
\* "@_all" comes after them.
MentionsFound ==
  \A text \in Texts :
    ~Contains(text, "@_all") /\ (\A i, j \in 1..Len(text) : text[i] = "@1" /\ text[j] = "@2" => i < j)
    /\ (\A i, j \in 1..Len(text) : text[i] = text[j] /\ i # j => text[i] \in {"a", "b"}) =>
      \A k \in {"@1", "@2"} : ~Contains(ParseTextContent(text, <<"@1", "@2">>), k)
================================================================================
