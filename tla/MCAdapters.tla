------------------------------- MODULE MCAdapters -------------------------------
(***************************************************************************)
(* TLC instances of the platform adapters.  They share no variable of the   *)
(* code, so a behaviour is about one of them, or about one half of one      *)
(* (what it receives, what it sends), as its scenario says; the variables   *)
(* of the others keep their initial values.                                 *)
(***************************************************************************)
EXTENDS Naturals, Sequences, FiniteSets

CONSTANTS q1, q2, v1, v2,  \* requests and events of OneBot
          panel, console,  \* login sessions of Weixin
          b1, b2           \* accounts of Weixin

VARIABLES scenario,
          reader, alive, fails, breaks, sent, replies, req, ch, queue, evt,
          offset, confirmed, tgSeen, upd, times, tgCrashes, tgOut, tgStream,
          file, buf, sess, login, gen, serve, wxIssued, valid, server, wxHandled,
          wxRunning, wxCrashes, todo, text, wxQueue, tries, got, result, sentAny,
          wire, dedup, chatTypes, msgChats, fsRunning, fsSeen, notices, restarts, fsOut, card,
          gw, link, me, handling, handled, qqBreaks, token, issued, calls, reply, pushes,
          qqOut, used,
          status, self, readies, member, dcPushes, added, msg, deleted, audit, recalls,
          dcOut, dcStream,
          msgs, recent, index, born, tokens

onebotVars   == <<reader, alive, fails, breaks, sent, replies, req, ch, queue, evt>>
telegramVars == <<offset, confirmed, tgSeen, upd, times, tgCrashes, tgOut, tgStream>>
weixinVars   == <<file, buf, sess, login, gen, serve, wxIssued, valid, server, wxHandled,
                  wxRunning, wxCrashes, todo, text, wxQueue, tries, got, result, sentAny>>
feishuVars   == <<wire, dedup, chatTypes, msgChats, fsRunning, fsSeen, notices, restarts,
                  fsOut, card>>
qqVars       == <<gw, link, me, handling, handled, qqBreaks, token, issued, calls, reply,
                  pushes, qqOut, used>>
discordVars  == <<status, self, readies, member, dcPushes, added, msg, deleted, audit, recalls,
                  dcOut, dcStream>>
cacheVars    == <<msgs, recent, index, born, tokens>>
vars == <<scenario, onebotVars, telegramVars, weixinVars, feishuVars, qqVars,
          discordVars, cacheVars>>
-------------------------------------------------------------------------------
(* OneBot: one worker, a queue of one event, one failed dial, one connection    *)
(* that breaks; q1 comes from a handler, q2 from elsewhere.                     *)
WsLil == INSTANCE OneBot WITH
  Flavor <- "lil", Mode <- "ws", Requests <- {q1, q2}, Events <- {v1, v2},
  CallOf <- [r \in {q1, q2} |-> IF r = q1 THEN "send" ELSE "member_list"],
  KindOf <- [e \in {v1, v2} |-> IF e = v1 THEN "group" ELSE "poke"],
  AskOf  <- [e \in {v1, v2} |-> IF e = v1 THEN {q1} ELSE {}],
  Workers <- 1, QueueSize <- 1, MaxFails <- 1

WsQQ == INSTANCE OneBot WITH
  Flavor <- "qq", Mode <- "ws", Requests <- {q1, q2}, Events <- {v1, v2},
  CallOf <- [r \in {q1, q2} |-> IF r = q1 THEN "group_list" ELSE "forward"],
  KindOf <- [e \in {v1, v2} |-> IF e = v1 THEN "group" ELSE "essence"],
  AskOf  <- [e \in {v1, v2} |-> IF e = v1 THEN {q1} ELSE {}],
  Workers <- 2, QueueSize <- 1, MaxFails <- 1

HttpLil == INSTANCE OneBot WITH
  Flavor <- "lil", Mode <- "http", Requests <- {q1, q2}, Events <- {v1, v2},
  CallOf <- [r \in {q1, q2} |-> IF r = q1 THEN "get_msg" ELSE "group_list"],
  KindOf <- [e \in {v1, v2} |-> IF e = v1 THEN "group" ELSE "group_recall"],
  AskOf  <- [e \in {v1, v2} |-> IF e = v1 THEN {q1} ELSE {}],
  Workers <- 1, QueueSize <- 1, MaxFails <- 1

HttpQQ == INSTANCE OneBot WITH
  Flavor <- "qq", Mode <- "http", Requests <- {q1, q2}, Events <- {v1, v2},
  CallOf <- [r \in {q1, q2} |-> IF r = q1 THEN "member_list" ELSE "friend_list"],
  KindOf <- [e \in {v1, v2} |-> IF e = v1 THEN "group" ELSE "group_ban"],
  AskOf  <- [e \in {v1, v2} |-> IF e = v1 THEN {q1} ELSE {}],
  Workers <- 1, QueueSize <- 1, MaxFails <- 1

(* Telegram: four updates and a crash; chains and streamed replies.             *)
TgPoll == INSTANCE Telegram WITH
  Updates <- 1..4, KindOf <- <<"message", "member_joins", "callback", "stale_callback">>,
  Chains <- {}, ParseMode <- TRUE, Faults <- {"gateway"}, MaxCrashes <- 1, MaxTexts <- 0,
  seen <- tgSeen, crashes <- tgCrashes, out <- tgOut, stream <- tgStream
TgSend == INSTANCE Telegram WITH
  Updates <- {}, KindOf <- <<>>,
  Chains <- {<<"reply", "text", "image", "long">>, <<"reply", "image", "text", "keyboard">>,
             <<"long", "image">>, <<"keyboard">>},
  ParseMode <- TRUE, Faults <- {"gateway", "garbled", "429", "net"}, MaxCrashes <- 0,
  MaxTexts <- 3,
  seen <- tgSeen, crashes <- tgCrashes, out <- tgOut, stream <- tgStream

(* Weixin: the panel and the console log in with two accounts; chains with and   *)
(* without media.                                                               *)
WxLogin == INSTANCE Weixin WITH
  Panels <- {panel}, Console <- console, Bots <- {b1, b2}, MaxLogins <- 2, MaxRefresh <- 0,
  MaxMessages <- 1, MaxCrashes <- 0, Chains <- {}, Incoming <- {},
  issued <- wxIssued, handled <- wxHandled, running <- wxRunning, crashes <- wxCrashes,
  queue <- wxQueue
WxCrash == INSTANCE Weixin WITH
  Panels <- {panel}, Console <- console, Bots <- {b1}, MaxLogins <- 2, MaxRefresh <- 1,
  MaxMessages <- 1, MaxCrashes <- 1, Chains <- {}, Incoming <- {},
  issued <- wxIssued, handled <- wxHandled, running <- wxRunning, crashes <- wxCrashes,
  queue <- wxQueue
Segment(t, i) == [type |-> t, id |-> i, image |-> TRUE]
Items == {[type |-> t, text |-> x, ok |-> FALSE, ref |-> r] :
            t \in {"text", "image", "voice", "file"}, x \in {<<>>, <<"a">>},
            r \in [id : BOOLEAN, title : BOOLEAN]}
WxSend == INSTANCE Weixin WITH
  Panels <- {}, Console <- console, Bots <- {}, MaxLogins <- 0, MaxRefresh <- 0,
  MaxMessages <- 0, MaxCrashes <- 0,
  Chains <- {<<Segment("reply", 1), Segment("text", 2), Segment("image", 3), Segment("text", 4)>>,
             <<Segment("text", 1), Segment("mention", 2), Segment("text", 3), Segment("file", 4)>>,
             <<Segment("reply", 1)>>},
  Incoming <- {i \in UNION {[1..n -> Items] : n \in 0..2} :
                 \A k \in DOMAIN i : i[k].type \in {"image", "file"} => i[k].text = <<>>},
  issued <- wxIssued, handled <- wxHandled, running <- wxRunning, crashes <- wxCrashes,
  queue <- wxQueue

(* Feishu: the events of one message of a single chat, or of a group, and         *)
(* restarts; chains and a streamed card.                                         *)
FeishuTexts == UNION {[1..n -> {"a", "b", "@1", "@2", "@_all"}] : n \in 0..3}
FsEvents == INSTANCE Feishu WITH
  Messages <- {1}, ChatOf <- <<"p">>, P2P <- {"p"}, Texts <- {}, Chains <- {},
  MaxRestarts <- 2, MaxPatches <- 0, running <- fsRunning, seen <- fsSeen, out <- fsOut
FsGroup == INSTANCE Feishu WITH
  Messages <- {1}, ChatOf <- <<"g">>, P2P <- {}, Texts <- {}, Chains <- {},
  MaxRestarts <- 1, MaxPatches <- 0, running <- fsRunning, seen <- fsSeen, out <- fsOut
FsSend == INSTANCE Feishu WITH
  Messages <- {}, ChatOf <- <<>>, P2P <- {}, Texts <- FeishuTexts,
  Chains <- {<<"text", "file">>, <<"file">>, <<"at_all", "image">>},
  MaxRestarts <- 0, MaxPatches <- 2, running <- fsRunning, seen <- fsSeen, out <- fsOut

(* QQ official: the gateway with two lost connections; two callers and tokens     *)
(* that are revoked; two chains that answer one message, which is pushed twice.   *)
QQGate == INSTANCE QQOfficial WITH
  MaxEvents <- 3, MaxSessions <- 2, MaxBreaks <- 2, Callers <- {}, MaxTokens <- 0,
  Incoming <- {}, MaxPushes <- 0, Chains <- {}, Parts <- 2, Limit <- 2,
  breaks <- qqBreaks, out <- qqOut
QQToken == INSTANCE QQOfficial WITH
  MaxEvents <- 0, MaxSessions <- 0, MaxBreaks <- 0, Callers <- {1, 2}, MaxTokens <- 4,
  Incoming <- {}, MaxPushes <- 0, Chains <- {}, Parts <- 2, Limit <- 2,
  breaks <- qqBreaks, out <- qqOut
QQSend == INSTANCE QQOfficial WITH
  MaxEvents <- 0, MaxSessions <- 0, MaxBreaks <- 0, Callers <- {}, MaxTokens <- 0,
  Incoming <- {1}, MaxPushes <- 2,
  Chains <- {<<"text", "image", "at", "text">>, <<"reply", "text">>}, Parts <- 2, Limit <- 2,
  breaks <- qqBreaks, out <- qqOut

(* Discord: two servers and two sessions; two messages and who deletes them;      *)
(* chains and a streamed reply.                                                  *)
DcGate == INSTANCE Discord WITH
  Guilds <- {"g", "h"}, MaxReadies <- 2, Messages <- {}, Moderators <- {}, Chains <- {},
  MaxFiles <- 2, MaxTexts <- 0, pushes <- dcPushes, out <- dcOut, stream <- dcStream
DcRecall == INSTANCE Discord WITH
  Guilds <- {}, MaxReadies <- 0, Messages <- {1, 2}, Moderators <- {"mod"}, Chains <- {},
  MaxFiles <- 2, MaxTexts <- 0, pushes <- dcPushes, out <- dcOut, stream <- dcStream
DcSend == INSTANCE Discord WITH
  Guilds <- {}, MaxReadies <- 0, Messages <- {}, Moderators <- {},
  Chains <- {<<"reply", "text", "a", "b", "text", "c">>, <<"a", "other", "b">>,
             <<"text", "text">>},
  MaxFiles <- 2, MaxTexts <- 3, pushes <- dcPushes, out <- dcOut, stream <- dcStream

(* The caches: ids that are never repeated; and messages that come twice.        *)
Caches == INSTANCE AdapterCaches WITH
  Chats <- {"x", "y", "z"}, MaxIds <- 5, PerChat <- 2, MaxChats <- 2, Repeats <- FALSE,
  Refetches <- FALSE, MaxTokens <- 0
Repeating == INSTANCE AdapterCaches WITH
  Chats <- {"x", "y", "z"}, MaxIds <- 3, PerChat <- 2, MaxChats <- 2, Repeats <- TRUE,
  Refetches <- TRUE, MaxTokens <- 2

ASSUME /\ WsLil!OneBotAssumption /\ WsQQ!OneBotAssumption
       /\ HttpLil!OneBotAssumption /\ HttpQQ!OneBotAssumption
       /\ TgPoll!TelegramAssumption /\ TgSend!TelegramAssumption
       /\ WxLogin!WeixinAssumption /\ WxCrash!WeixinAssumption
       /\ WxSend!WeixinAssumption
       /\ FsEvents!FeishuAssumption /\ FsGroup!FeishuAssumption /\ FsSend!FeishuAssumption
       /\ QQGate!QQOfficialAssumption /\ QQToken!QQOfficialAssumption /\ QQSend!QQOfficialAssumption
       /\ DcGate!DiscordAssumption /\ DcRecall!DiscordAssumption /\ DcSend!DiscordAssumption
       /\ Caches!CachesAssumption /\ Repeating!CachesAssumption
-------------------------------------------------------------------------------
Init ==
  /\ scenario \in {"ws lil", "ws qq", "http lil", "http qq", "telegram poll", "telegram send",
                   "weixin login", "weixin crash", "weixin send", "feishu events",
                   "feishu group", "feishu send", "qq gate", "qq token", "qq send", "discord gate",
                   "discord recall", "discord send", "caches", "repeating"}
  /\ WsLil!Init /\ Caches!Init
  /\ IF scenario = "telegram poll" THEN TgPoll!Init ELSE TgSend!Init
  /\ CASE scenario = "weixin crash" -> WxCrash!Init
       [] scenario = "weixin send"  -> WxSend!Init
       [] OTHER                     -> WxLogin!Init
  /\ CASE scenario = "feishu events" -> FsEvents!Init
       [] scenario = "feishu group"  -> FsGroup!Init
       [] OTHER                      -> FsSend!Init
  /\ CASE scenario = "qq token" -> QQToken!Init
       [] scenario = "qq send"  -> QQSend!Init
       [] OTHER                 -> QQGate!Init
  /\ CASE scenario = "discord gate"   -> DcGate!Init
       [] scenario = "discord recall" -> DcRecall!Init
       [] OTHER                       -> DcSend!Init

OneBot ==
  /\ \/ scenario = "ws lil" /\ WsLil!Next
     \/ scenario = "ws qq" /\ WsQQ!Next
     \/ scenario = "http lil" /\ HttpLil!Next
     \/ scenario = "http qq" /\ HttpQQ!Next
  /\ UNCHANGED <<scenario, telegramVars, weixinVars, feishuVars,
               qqVars, discordVars, cacheVars>>

Telegram ==
  /\ \/ scenario = "telegram poll" /\ TgPoll!Next
     \/ scenario = "telegram send" /\ TgSend!Next
  /\ UNCHANGED <<scenario, onebotVars, weixinVars, feishuVars,
               qqVars, discordVars, cacheVars>>

Weixin ==
  /\ \/ scenario = "weixin login" /\ WxLogin!Next
     \/ scenario = "weixin crash" /\ WxCrash!Next
     \/ scenario = "weixin send" /\ WxSend!Next
  /\ UNCHANGED <<scenario, onebotVars, telegramVars, feishuVars, qqVars, discordVars, cacheVars>>

Feishu ==
  /\ \/ scenario = "feishu events" /\ FsEvents!Next
     \/ scenario = "feishu group" /\ FsGroup!Next
     \/ scenario = "feishu send" /\ FsSend!Next
  /\ UNCHANGED <<scenario, onebotVars, telegramVars, weixinVars,
               qqVars, discordVars, cacheVars>>

QQOfficial ==
  /\ \/ scenario = "qq gate" /\ QQGate!Next
     \/ scenario = "qq token" /\ QQToken!Next
     \/ scenario = "qq send" /\ QQSend!Next
  /\ UNCHANGED <<scenario, onebotVars, telegramVars, weixinVars,
               feishuVars, discordVars, cacheVars>>

Discord ==
  /\ \/ scenario = "discord gate" /\ DcGate!Next
     \/ scenario = "discord recall" /\ DcRecall!Next
     \/ scenario = "discord send" /\ DcSend!Next
  /\ UNCHANGED <<scenario, onebotVars, telegramVars, weixinVars,
               feishuVars, qqVars, cacheVars>>

Cache ==
  /\ \/ scenario = "caches" /\ Caches!Next
     \/ scenario = "repeating" /\ Repeating!Next
  /\ UNCHANGED <<scenario, onebotVars, telegramVars, weixinVars,
               feishuVars, qqVars, discordVars>>

Next == OneBot \/ Telegram \/ Weixin \/ Feishu \/ QQOfficial \/ Discord \/ Cache

\* The fairness of one OneBot adapter, as in its FairSpec.
Others == <<scenario, telegramVars, weixinVars, feishuVars, qqVars, discordVars, cacheVars>>
Fairly(A) == scenario = "ws lil" /\ A /\ UNCHANGED Others

Spec ==
  /\ Init /\ [][Next]_vars
  /\ WF_vars(Fairly(WsLil!Reader)) /\ WF_vars(Fairly(WsLil!Worker))
  /\ \A r \in {q1, q2} : WF_vars(Fairly(WsLil!Progress(r))) /\ WF_vars(Fairly(WsLil!Request(r)))
-------------------------------------------------------------------------------
\* The variables have the values they are declared for.
TypeOK ==
  /\ scenario = "ws lil" => WsLil!TypeOK
  /\ scenario = "ws qq" => WsQQ!TypeOK
  /\ scenario = "http lil" => HttpLil!TypeOK
  /\ scenario = "http qq" => HttpQQ!TypeOK
  /\ scenario = "telegram poll" => TgPoll!TypeOK
  /\ scenario = "telegram send" => TgSend!TypeOK
  /\ scenario = "weixin login" => WxLogin!TypeOK
  /\ scenario = "weixin crash" => WxCrash!TypeOK
  /\ scenario = "weixin send" => WxSend!TypeOK
  /\ scenario = "feishu events" => FsEvents!TypeOK
  /\ scenario = "feishu group" => FsGroup!TypeOK
  /\ scenario = "feishu send" => FsSend!TypeOK
  /\ scenario = "qq gate" => QQGate!TypeOK
  /\ scenario = "qq token" => QQToken!TypeOK
  /\ scenario = "qq send" => QQSend!TypeOK
  /\ scenario = "discord gate" => DcGate!TypeOK
  /\ scenario = "discord recall" => DcRecall!TypeOK
  /\ scenario = "discord send" => DcSend!TypeOK
  /\ scenario = "caches" => Caches!TypeOK
  /\ scenario = "repeating" => Repeating!TypeOK

\* What comes from a platform reaches the core once: processUpdates and updateDedup of
\* Telegram, the cursor of Weixin's getUpdates, which is of the account that is switched to,
\* Feishu's dedup keys, the sequence numbers with which QQ's gateway is resumed; one pool of
\* OneBot workers at a time, whose queue loses nothing; Discord names as the deleter of a
\* message only someone who deleted one; and a cache holds what its index says.
EventsOnce ==
  /\ TypeOK
  /\ scenario = "ws lil" => WsLil!OnePool
  /\ scenario = "ws qq" => WsQQ!OnePool
  /\ scenario = "telegram poll" => TgPoll!PolledOnce
  /\ scenario = "weixin login" => WxLogin!HandledOnce /\ WxLogin!CursorFollowsSwitch
  /\ scenario = "weixin crash" => WxCrash!HandledOnce /\ WxCrash!CursorFollowsSwitch
  /\ scenario = "feishu events" => FsEvents!EventsOnce
  /\ scenario = "feishu group" => FsGroup!EventsOnce
  /\ scenario = "qq gate" => QQGate!EventsOnce
  /\ scenario = "discord recall" => DcRecall!DeleterIsRight
  /\ scenario = "caches" => Caches!CacheIsExact

\* What is sent arrives as it was meant, whatever single calls fail: a reply's reference
\* is used once, parts keep their order and are repeated only after a time-out, every
\* number of a QQ push is used once and a refused token is not used again, files stay in
\* batches, a streamed reply ends with its last content shown, and the tokens with which
\* Weixin's messages are answered reach the disk.
SendsWhole ==
  /\ scenario = "telegram send" => TgSend!RepliesOnce /\ TgSend!FinalIsShown
  /\ scenario = "weixin send" => WxSend!InOrderAtMostTwice
  /\ scenario = "feishu send" => FsSend!CardIsFinal
  /\ scenario = "qq send" => QQSend!ReferredOnce /\ QQSend!SeqsPerPush
  /\ scenario = "qq token" => QQToken!TriesAnotherToken
  /\ scenario = "discord send" => DcSend!BatchesAreOrdered /\ DcSend!FinalIsShown
  /\ scenario = "caches" => Caches!TokensReachDisk
  /\ scenario = "repeating" => Repeating!TokensReachDisk

\* Nothing is lost or confused in translation: OneBot's identifiers carry the prefix of
\* their adapter and lose it on the way back; and the parsers of messages keep every
\* word, mention, piece of media and block of an upload, in order.
TranslatesWhole ==
  /\ scenario = "ws lil" => WsLil!IdsComeHome
  /\ scenario = "ws qq" => WsQQ!IdsComeHome
  /\ scenario = "http lil" => HttpLil!IdsComeHome
  /\ scenario = "http qq" => HttpQQ!IdsComeHome
  /\ scenario = "caches" /\ born = <<>> =>
       /\ WxSend!TranslationKeepsTexts /\ FsSend!WordsSurvive /\ FsSend!MentionsFound
       /\ QQSend!UploadIsWhole /\ QQSend!GroupMessageIsWhole /\ DcSend!ContentIsKept

\* wsadapter.go, request: an answer that has arrived is returned to its caller without
\* waiting for the time-out, unless the connection breaks, even if every worker waits for
\* an answer of its own.
Waits(r) == IF scenario = "ws lil" THEN (\E a \in replies : a[1] = r) /\ req[r] = "waiting"
            ELSE FALSE
AnswersArrive == \A r \in {q1, q2} : Waits(r) ~> req[r] # "waiting" \/ ~alive
================================================================================
