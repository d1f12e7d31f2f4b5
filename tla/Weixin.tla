---------------------------------- MODULE Weixin ----------------------------------
(***************************************************************************)
(* The Weixin adapter (adapter/weixin): its credentials, obtained by        *)
(* scanning a QR code in a console session or in sessions of the panel, the *)
(* long polling with a cursor on disk, and the exchange of the credentials  *)
(* while it polls; a chain that becomes several messages, the upload of a   *)
(* medium, the two tries of a message with and without its context_token;   *)
(* and the segments an incoming message becomes (send.go, media.go,         *)
(* client.go, translate.go).                                                *)
(*                                                                         *)
(* The n-th login that is confirmed yields token n; 0 is no token. Channel  *)
(* credsChanged is the number of those that were closed before it.          *)
(***************************************************************************)
EXTENDS Naturals, Sequences, FiniteSets, SequencesExt

CONSTANTS Panels,      \* login sessions the panel may open
          Console,     \* the console's session
          Bots,        \* accounts a QR code may be confirmed with
          MaxLogins,   \* bound: confirmed logins
          MaxRefresh,  \* qrMaxRefresh
          MaxMessages, \* bound: messages sent to each bot
          MaxCrashes,  \* bound: crashes of the process
          Chains,      \* chains to send: sequences of segments
          Incoming     \* messages to translate: sequences of items

\* What the constants are; instances assume it.
WeixinAssumption ==
  /\ Console \notin Panels
  /\ {MaxLogins, MaxRefresh, MaxMessages, MaxCrashes} \subseteq Nat

VARIABLES file,    \* account.json: the token and the bot
          buf,     \* get_updates_buf
          sess,    \* the login sessions
          login,   \* a.login: the panel's session
          gen,     \* a.credsChanged
          serve,   \* the Serve goroutine
          issued,  \* confirmed logins
          valid,   \* the tokens the server accepts
          server,  \* how many messages each bot was sent
          handled, \* how often each message was handed to the core
          running, \* messages whose goroutine runs
          crashes,
          todo,    \* of the chain being sent: segments not yet looked at
          text,    \* the text buffered, by the ids of its segments
          queue,   \* items to send before the next segment is looked at
          tries,   \* tries of the item being sent
          got,     \* items that reached Weixin, in order, one entry per try
          result,  \* "none" before, "busy", then what sendToUser returned
          sentAny

pollVars == <<file, buf, sess, login, gen, serve, issued, valid, server, handled, running,
              crashes>>
sendVars == <<todo, text, queue, tries, got, result, sentAny>>
vars == <<pollVars, sendVars>>

Sessions == Panels \cup {Console}
NoBot == "none"
NoAccount == [tok |-> 0, bot |-> NoBot]
NoCursor == [bot |-> NoBot, pos |-> 0]
NoSession == [st |-> "none", gen |-> 0, code |-> FALSE, refreshed |-> 0]
Fresh == [pc |-> "resolve", again |-> FALSE, st |-> NoAccount, client |-> NoAccount,
          cursor |-> NoCursor, sig |-> 0, via |-> "start"]

Init ==
  /\ file = NoAccount /\ buf = NoCursor /\ login = Console /\ gen = 1
  /\ sess = [s \in Sessions |-> NoSession] /\ serve = Fresh
  /\ issued = 0 /\ valid = {} /\ server = [b \in Bots |-> 0] /\ crashes = 0
  /\ handled = [b \in Bots |-> [n \in 1..MaxMessages |-> 0]] /\ running = {}
  /\ todo = <<>> /\ text = <<>> /\ queue = <<>> /\ tries = 0 /\ got = <<>>
  /\ result = "none" /\ sentAny = FALSE
-------------------------------------------------------------------------------
(* Login sessions.                                                         *)

Open == {"pending", "scaned", "need_verify"}
\* What is left of a session that has ended.
Ended(st) == [NoSession EXCEPT !.st = st]

\* prepare: the QR code is fetched, or not.
Prepare(s) ==
  /\ sess[s].st = "new"
  /\ \/ sess' = [sess EXCEPT ![s].st = "pending"]
     \/ sess' = [sess EXCEPT ![s] = Ended("failed")]
  /\ UNCHANGED <<file, buf, login, gen, serve, issued, valid, server, handled, running, crashes>>

\* QRLoginStart: a session under way is shown again; otherwise a new one takes its
\* place, and waits for prepare with no state of its own.
QRLoginStart(s) ==
  /\ sess[s] = NoSession /\ s # Console
  /\ sess[login].st \notin Open \/ login = Console
  /\ sess' = [sess EXCEPT ![s] = [NoSession EXCEPT !.st = "new", !.gen = gen]]
  /\ login' = s
  /\ UNCHANGED <<file, buf, gen, serve, issued, valid, server, handled, running, crashes>>

\* QRLoginSubmitVerify, submitVerify: the code goes along with the next poll.
QRLoginSubmitVerify ==
  /\ login # Console /\ sess[login].st \in Open
  /\ sess' = [sess EXCEPT ![login].code = TRUE]
  /\ UNCHANGED <<file, buf, login, gen, serve, issued, valid, server, handled, running, crashes>>

\* loop: at the head of a round, a session whose signal was closed ends.
Superseded(s) == sess[s].gen < gen
EndSuperseded(s) ==
  /\ sess[s].st \in Open /\ Superseded(s)
  /\ sess' = [sess EXCEPT ![s] = Ended("superseded")]
  /\ UNCHANGED <<file, buf, login, gen, serve, issued, valid, server, handled, running, crashes>>

\* refreshQR: a new code, MaxRefresh times.
RefreshQR(x) ==
  {Ended("failed")} \cup
  IF x.refreshed + 1 > MaxRefresh THEN {}
  ELSE {[x EXCEPT !.st = "pending", !.refreshed = @ + 1]}

\* loop: what a poll of the code's status makes of a session; the console waits for a
\* line of stdin when a code is asked for.
Polled(s) ==
  LET x == sess[s] IN
     {[x EXCEPT !.st = "pending"], [x EXCEPT !.st = "scaned", !.code = FALSE],
      [x EXCEPT !.st = IF s = Console THEN "stdin" ELSE "need_verify"]} \cup RefreshQR(x)

\* loop: a round that does not confirm, the binding to another instance and the
\* deadline among its failures.
LoginRound(s) ==
  /\ sess[s].st \in Open
  /\ \E x \in Polled(s) : sess' = [sess EXCEPT ![s] = x]
  /\ UNCHANGED <<file, buf, login, gen, serve, issued, valid, server, handled, running, crashes>>

\* readLine: nothing else wakes the session.
ReadLine ==
  /\ sess[Console].st = "stdin"
  /\ sess' = [sess EXCEPT ![Console].st = "need_verify", ![Console].code = TRUE]
  /\ UNCHANGED <<file, buf, login, gen, serve, issued, valid, server, handled, running, crashes>>

\* loop, saveLoginCredentials, notifyCredsChanged: the login is confirmed; the account is
\* written in one rename and the signal closed, unless the write fails. A poll that was
\* under way does not look at the signal again.
Confirmed(s) ==
  /\ sess[s].st \in Open /\ issued < MaxLogins
  /\ issued' = issued + 1 /\ valid' = valid \cup {issued'}
  /\ \/ /\ \E b \in Bots : file' = [tok |-> issued', bot |-> b]
        /\ gen' = gen + 1
        /\ sess' = [sess EXCEPT ![s] = Ended("connected")]
     \/ sess' = [sess EXCEPT ![s] = Ended("failed")] /\ UNCHANGED <<file, gen>>
  /\ UNCHANGED <<buf, login, serve, server, handled, running, crashes>>

\* The server: a token expires, a message arrives for a bot.
Expire ==
  /\ \E t \in valid : valid' = valid \ {t}
  /\ UNCHANGED <<file, buf, sess, login, gen, serve, issued, server, handled, running, crashes>>
Arrive ==
  /\ \E b \in Bots : server[b] < MaxMessages /\ server' = [server EXCEPT ![b] = @ + 1]
  /\ UNCHANGED <<file, buf, sess, login, gen, serve, issued, valid, handled, running, crashes>>
-------------------------------------------------------------------------------
(* Serve.                                                                  *)

\* ensureLogin, resolveAccount: the account on disk, or a session on the console.
Resolve ==
  /\ serve.pc = "resolve"
  /\ IF file.tok # 0
     THEN serve' = [serve EXCEPT !.pc = "resolved", !.st = file] /\ UNCHANGED sess
     ELSE /\ serve' = [serve EXCEPT !.pc = "console"]
          /\ sess' = [sess EXCEPT ![Console] = [NoSession EXCEPT !.st = "new", !.gen = gen]]
  /\ UNCHANGED <<file, buf, login, gen, issued, valid, server, handled, running, crashes>>

\* ensureLogin: the console's session has ended; after a failure it waits 30 seconds.
ConsoleEnds ==
  /\ serve.pc = "console" /\ sess[Console].st \in {"connected", "superseded", "failed"}
  /\ serve' = IF sess[Console].st = "connected"
              THEN [serve EXCEPT !.pc = "resolved", !.st = file]
              ELSE [serve EXCEPT !.pc = "resolve"]
  /\ UNCHANGED <<file, buf, sess, login, gen, issued, valid, server, handled, running, crashes>>

\* Serve, pollLoop: the first client, the cursor on disk.
Start ==
  /\ serve.pc = "resolved" /\ ~serve.again
  /\ serve' = [serve EXCEPT !.pc = "signal", !.client = serve.st, !.cursor = buf,
                            !.via = "start"]
  /\ UNCHANGED <<file, buf, sess, login, gen, issued, valid, server, handled, running, crashes>>

\* pollLoop: after -14; the same token is tried again after ten minutes.
Relogin ==
  /\ serve.pc = "resolved" /\ serve.again
  /\ serve' = IF serve.st.tok = serve.client.tok
              THEN [serve EXCEPT !.pc = "poll", !.again = FALSE]
              ELSE [serve EXCEPT !.pc = "poll", !.again = FALSE, !.client = serve.st,
                                 !.via = "relogin"]
  /\ UNCHANGED <<file, buf, sess, login, gen, issued, valid, server, handled, running, crashes>>

\* pollLoop: the signal of the next save.
TakeSignal ==
  /\ serve.pc = "signal"
  /\ serve' = [serve EXCEPT !.pc = "get", !.sig = gen]
  /\ UNCHANGED <<file, buf, sess, login, gen, issued, valid, server, handled, running, crashes>>

\* switchCredentialsIfChanged: another token makes another client, another bot a new
\* cursor as well.
SwitchCredentialsIfChanged ==
  IF file.tok = serve.client.tok
  THEN serve' = [serve EXCEPT !.pc = "signal"] /\ UNCHANGED buf
  ELSE /\ serve' = [serve EXCEPT !.pc = "signal", !.client = file, !.via = "switch",
                                 !.cursor = IF file.bot = serve.client.bot THEN @ ELSE NoCursor]
       /\ buf' = IF file.bot = serve.client.bot THEN buf ELSE NoCursor

\* pollLoop: the head of a round.
Round ==
  /\ serve.pc = "poll"
  /\ IF serve.sig < gen THEN SwitchCredentialsIfChanged
                        ELSE serve' = [serve EXCEPT !.pc = "get"] /\ UNCHANGED buf
  /\ UNCHANGED <<file, sess, login, gen, issued, valid, server, handled, running, crashes>>

\* getUpdates: -14 for a token that is not valid, or no answer.
GetFails ==
  /\ serve.pc = "get"
  /\ serve' = IF serve.client.tok \in valid THEN [serve EXCEPT !.pc = "poll"]
              ELSE [serve EXCEPT !.pc = "resolve", !.again = TRUE]
  /\ UNCHANGED <<file, buf, sess, login, gen, issued, valid, server, handled, running, crashes>>

\* Where the server reads on: behind the cursor, with no cursor of this bot at the end.
Behind(c, b) == IF c.bot = b THEN c.pos ELSE server[b]

\* pollLoop: the cursor is in memory and, if the write succeeds, on disk before a
\* goroutine is started for each message.
GetUpdates ==
  /\ serve.pc = "get" /\ serve.client.tok \in valid
  /\ LET b == serve.client.bot
         at == Behind(serve.cursor, b)
     IN \E last \in at..server[b] :
          /\ serve' = [serve EXCEPT !.pc = "poll", !.cursor = [bot |-> b, pos |-> last]]
          /\ buf' \in {buf, serve'.cursor}
          /\ running' = running \cup {<<b, n>> : n \in (at + 1)..last}
  /\ UNCHANGED <<file, sess, login, gen, issued, valid, server, handled, crashes>>

\* handleMessage.
HandleMessage ==
  /\ \E m \in running :
       /\ running' = running \ {m}
       /\ handled' = [handled EXCEPT ![m[1]][m[2]] = @ + 1]
  /\ UNCHANGED <<file, buf, sess, login, gen, serve, issued, valid, server, crashes>>

\* A restart: the files are kept.
Crash ==
  /\ crashes < MaxCrashes /\ crashes' = crashes + 1
  /\ sess' = [s \in Sessions |-> IF s = Console \/ sess[s] = NoSession THEN NoSession
                                 ELSE Ended("failed")]
  /\ login' = Console /\ running' = {} /\ gen' = gen
  /\ serve' = Fresh
  /\ UNCHANGED <<file, buf, issued, valid, server, handled>>
-------------------------------------------------------------------------------
Polls ==
  \/ \E s \in Sessions : \/ Prepare(s) \/ QRLoginStart(s) \/ EndSuperseded(s)
                         \/ LoginRound(s) \/ Confirmed(s)
  \/ QRLoginSubmitVerify \/ ReadLine
  \/ Expire \/ Arrive
  \/ Resolve \/ ConsoleEnds \/ Start \/ Relogin \/ TakeSignal \/ Round
  \/ GetFails \/ GetUpdates \/ HandleMessage \/ Crash
-------------------------------------------------------------------------------
(* What is sent.                                                           *)

\* A segment is [type, id, image]: image of a file tells whether its name is an image's.
Media == {"image", "file", "record", "video"}

\* sendToUser: reply segments are dropped; an empty chain is not sent.
SendToUser(c) ==
  /\ result = "none"
  /\ todo' = SelectSeq(c, LAMBDA s : s.type # "reply")
  /\ result' = IF todo' = <<>> THEN "false" ELSE "busy"
  /\ UNCHANGED <<text, queue, tries, got, sentAny>>

\* mediaSegmentForUpload, uploadKindOf: a file that is an image is sent as one.
UploadKindOf(s) == IF s.type = "file" /\ s.image THEN "image" ELSE s.type

\* splitText, flushText: the buffered text as messages, each holding what it contains.
FlushText(t, parts) ==
  IF t = <<>> THEN <<>> ELSE [i \in 1..parts |-> [kind |-> "text", ids |-> t, part |-> i]]

\* sendToUser: a text waits; a medium comes after it; a mention says nothing here, and of
\* the other segments only those with a text.
Look ==
  /\ result = "busy" /\ queue = <<>> /\ todo # <<>>
  /\ LET s == Head(todo) IN
     /\ todo' = Tail(todo)
     /\ IF s.type \in Media
        THEN /\ text' = <<>>
             /\ \E parts \in 1..2 :
                  queue' = Append(FlushText(text, parts),
                                  [kind |-> UploadKindOf(s), ids |-> <<s.id>>, part |-> 1])
        ELSE /\ text' = IF s.type = "text" THEN Append(text, s.id) ELSE text
             /\ queue' = queue
  /\ UNCHANGED <<tries, got, result, sentAny>>

\* sendToUser: the rest of the text, in as many messages as it needs.
LastText ==
  /\ result = "busy" /\ queue = <<>> /\ todo = <<>> /\ text # <<>>
  /\ \E parts \in 1..2 : queue' = FlushText(text, parts)
  /\ text' = <<>>
  /\ UNCHANGED <<todo, tries, got, result, sentAny>>

Return ==
  /\ result = "busy" /\ queue = <<>> /\ todo = <<>> /\ text = <<>>
  /\ result' = IF sentAny THEN "true" ELSE "false"
  /\ UNCHANGED <<todo, text, queue, tries, got, sentAny>>

\* upload: a network error, a status that is neither 200 nor 4xx, and a missing header
\* are tried again, three times in all.
Upload(answers) ==
  LET final == {i \in 1..3 : answers[i] \in {"ok", "4xx"}} IN
  final # {} /\ answers[CHOOSE i \in final : \A j \in final : i <= j] = "ok"

\* sendMediaSegment, resolveSegmentBytes, uploadMedia: a source that cannot be read and an
\* upload that fails leave the segment out.
MediaFails ==
  /\ queue # <<>> /\ tries = 0 /\ Head(queue).kind \in Media
  /\ \E answers \in [1..3 -> {"ok", "4xx", "error"}] : ~Upload(answers)
  /\ queue' = Tail(queue)
  /\ UNCHANGED <<todo, text, tries, got, result, sentAny>>

\* sendMessageItem: with the context_token first; after an error other than -14 once more
\* without it, under a client_id of its own.
Resends(n, answer) == n = 0 /\ answer = "error"

\* sendMessageItem, sendMessage: what arrived may be answered with an error all the same.
SendMessageItem ==
  /\ queue # <<>>
  /\ \E arrives \in BOOLEAN, answer \in {"ok", "stale", "error"} :
       /\ answer = "ok" => arrives
       /\ answer = "stale" => ~arrives
       /\ got' = IF arrives THEN Append(got, Head(queue)) ELSE got
       /\ sentAny' = (sentAny \/ answer = "ok")
       /\ IF Resends(tries, answer) THEN tries' = 1 /\ queue' = queue
                                    ELSE tries' = 0 /\ queue' = Tail(queue)
  /\ UNCHANGED <<todo, text, result>>

Sends ==
  \/ \E c \in Chains : SendToUser(c)
  \/ Look \/ LastText \/ Return \/ MediaFails \/ SendMessageItem

Next == \/ Polls /\ UNCHANGED sendVars
        \/ Sends /\ UNCHANGED pollVars

Spec == Init /\ [][Next]_vars
-------------------------------------------------------------------------------
(* Incoming messages.                                                      *)

\* appendTextSeg: text after text is one segment.
AppendTextSeg(segs, t) ==
  IF segs # <<>> /\ Last(segs).type = "text"
  THEN [segs EXCEPT ![Len(segs)].text = @ \o t]
  ELSE Append(segs, [type |-> "text", text |-> t])

\* What stands for what is not text.
Markers == {"ref", "[image]", "[voice]", "[video]"}

\* appendRefSegments: a quotation with an id is a reply segment, its title is text.
AppendRefSegments(segs, ref) ==
  LET replied == IF ref.id THEN Append(segs, [type |-> "reply", text |-> <<>>]) ELSE segs
  IN IF ref.title THEN AppendTextSeg(replied, <<"ref">>) ELSE replied

\* imageSegment, downloadCdnMedia: an image that can be neither downloaded nor decrypted
\* is a text.
ItemSegments(segs, item) ==
  CASE item.type = "text"  -> IF item.text = <<>> THEN segs ELSE AppendTextSeg(segs, item.text)
    [] item.type = "image" -> IF item.ok THEN Append(segs, [type |-> "image", text |-> <<>>])
                              ELSE AppendTextSeg(segs, <<"[image]">>)
    [] item.type = "voice" -> AppendTextSeg(segs, IF item.text # <<>> THEN item.text
                                                  ELSE <<"[voice]">>)
    [] item.type = "file"  -> Append(segs, [type |-> "file", text |-> <<>>])
    [] OTHER               -> AppendTextSeg(segs, <<"[video]">>)

\* itemsToSegments: the quotation of an item before the item.
ItemsToSegments(items) ==
  FoldLeft(LAMBDA segs, item : ItemSegments(AppendRefSegments(segs, item.ref), item),
           <<>>, items)

\* translateMessage: nothing to say is no message.
Translates(items) == ItemsToSegments(items) # <<>>
-------------------------------------------------------------------------------
TypeOK ==
  /\ file \in [tok : 0..MaxLogins, bot : Bots \cup {NoBot}] /\ login \in Sessions
  /\ \A c \in {buf, serve.cursor} : c \in [bot : Bots \cup {NoBot}, pos : 0..MaxMessages]
  /\ \A s \in Sessions : sess[s].refreshed \in 0..MaxRefresh /\ sess[s].gen <= gen
  /\ valid \subseteq 1..issued /\ running \subseteq Bots \X (1..MaxMessages)
  /\ serve.client.tok \in 0..issued /\ serve.sig <= gen
  /\ tries \in 0..1 /\ result \in {"none", "busy", "true", "false"} /\ sentAny \in BOOLEAN

\* However accounts are exchanged while it polls, no message reaches the core twice
\* without a restart, and none is taken again while its goroutine runs.
HandledOnce ==
  \A b \in Bots : \A n \in 1..MaxMessages :
    handled[b][n] + (IF <<b, n>> \in running THEN 1 ELSE 0) <= crashes + 1

\* A client that was exchanged for another account's after a login in the panel does not
\* poll with the cursor of the account before; nor does the file keep that cursor.
CursorFollowsSwitch ==
  serve.via = "switch" =>
    \A c \in {buf, serve.cursor} : c.bot \in {NoBot, serve.client.bot}

\* What arrives is in the order of the chain, texts before the media behind them; an item
\* arrives at most twice, and twice only since the answer to its first try got lost.
\* sendToUser returns true if and only if some item's arrival was confirmed.
InOrderAtMostTwice ==
  /\ \A i, j \in 1..Len(got) :
       i < j => got[i].ids[1] <= got[j].ids[1]
  /\ \A i \in 1..Len(got) : Cardinality({j \in 1..Len(got) : got[j] = got[i]}) <= 2
  /\ result = "true" => got # <<>>
  /\ result = "false" /\ sentAny => FALSE

\* An incoming message that is translated keeps all of its texts in order, and no two
\* text segments stand side by side.
TranslationKeepsTexts ==
  \A items \in Incoming :
    LET segs  == ItemsToSegments(items)
        texts == FoldLeft(LAMBDA t, s : t \o s.text, <<>>, segs)
        said  == FoldLeft(LAMBDA t, i : t \o i.text, <<>>, items)
    IN /\ SelectSeq(texts, LAMBDA t : t \notin Markers) = said
       /\ \A i \in 1..Len(segs) - 1 : segs[i].type = "text" => segs[i + 1].type # "text"

\* adapter.go:434 says that an expired login (-14) leads to a new scan on the console.
\* The expired token is still in account.json, and resolveAccount returns it.
StaleIsScannedAgain == serve.pc = "resolved" /\ serve.again => serve.st.tok # serve.client.tok

\* adapter.go:530 says that another account's cursor is dropped. It is not when -14 was
\* noticed first, nor when the process was restarted between the save and the switch.
CursorIsOfItsBot == serve.pc = "get" => serve.cursor.bot \in {NoBot, serve.client.bot}

\* adapter.go:531 says that new credentials are in use after one round at most. A save
\* between the switch and the next credsSignal is not noticed.
SaveIsNoticed == serve.pc = "get" /\ serve.sig = gen => serve.client.tok = file.tok

\* adapter.go:236 says that the console's session gives way to a login in the panel. Not
\* while it reads a line of stdin.
ConsoleGivesWay == sess[Console].st = "stdin" => ~Superseded(Console)

\* send.go:202 calls client_id an idempotent one; a second try has another one, and an
\* item whose answer got lost arrives twice.
ArrivesOnce == \A i, j \in 1..Len(got) : got[i] = got[j] => i = j
================================================================================
