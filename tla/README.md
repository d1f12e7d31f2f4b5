# AniaBot: a verification development

TLA+ models of the parts of AniaBot in which the order of steps matters, TLC
configurations that check them on small instances, and TLAPS proofs of the
models of the AI chat plugin, of the core and of what they rest on. Paths are relative to the
repository's `bot/`; `pluginaichat/` is `bot/plugins/pluginaichat/`.
`PROJECT.json` lists, for machines, what this file describes: components, runs,
the source lines every definition stands for, the mutants that show that a
property can fail, findings, hazards and theorems.

## 1. The system

AniaBot is a bot framework in Go (some 53 000 lines without tests). Platform
**adapters** (NapCat and LLBot over WebSocket or HTTP, Feishu, Telegram, Discord,
QQ official, Weixin) turn platform events into messages and call the **core**,
each event in a goroutine of its own. The core drops duplicates and passes the
event along a **chain of plugins**, any of which may keep it. The AI chat plugin
is the largest of them: it answers messages with an LLM that may call tools,
launches subagents and teams, asks people for approval, and runs scheduled
tasks. A **web panel** shows and changes everything at run time, updates the bot
from git and installs plugins from a **marketplace**; both rebuild the binary,
exchange it and restart the process.

| Component | State it keeps | Operations | Interacts through | What is hard | What makes it correct |
|---|---|---|---|---|---|
| session lock (`pluginaichat/lock.go`) | a key with a TTL per session in the cache store, a channel of `rate_limit` slots | `tryLock`, heartbeat, `release` | cache store, chat sessions, sweeps | expiry under a live holder, failed heartbeats, look-then-delete, leaked slots | mutual exclusion, slots accounted for, no session locked for ever |
| chat sessions (`plugin.go`, `pendingqueue.go`, `llm.go`) | pending queue and cancel function per session | message, `/stop`, drain, rejection | lock, conversation, subagents | messages that come while one is answered, panics, `/stop` at any time | no message lost, answered twice or in the wrong session; one responder |
| ChatBots in memory (`chatcache.go`, `nomention.go`) | the ChatBot of each group, last use, messages without a mention | get, evict, count, clear | lock, history store | eviction between look-up and lock, a restart in the middle, late counts | what a ChatBot remembers is what is stored |
| background subagents (`subagent_async.go`, `usageacc.go`) | group of running subagents, token accumulator per session | launch, list, cancel, bill | chat sessions, query log | look-up and use of a shared object are two steps | all listed, all cancellable, tokens billed once |
| teams (`team.go`, `teamtool.go`, `subagent.go`) | teams of a conversation and of all, results of a run | define, run, time out, report | chat request, model, quota | members that never answer or panic, little time left | a whole report before the request's deadline |
| conversation (`component/aichat`, `historystore_sql.go`) | message window, stored rows, reported size | turn, tool round, compress, cut, load, clear | LLM back end, tools, SQL | cancellation during compression, parallel tools that panic, failed reads | tool calls and results paired, rows equal to the window, bounded window |
| model client (`llmclient.go`, `llmbackend_*.go`) | the answer so far, what was shown | generate, retry, fall back, assemble | model service | a stream that breaks after part of it was shown | what is shown is the answer; bounded requests |
| memory and knowledge (`memory.go`, `knowledge.go`) | rows with text and vector, old documents in the key-value store | add, update, remove, migrate, fill in vectors, cut, rank | SQL, embedding service, panel | vectors filled in beside updates, a crash in the migration, full scopes | nothing doubled, lost or brought back |
| skills (`skill.go`, `skillpanel.go`, `skilltool.go`) | a directory, the registry loaded from it | install, delete, reload | panel, model | loads that overlap, half-unpacked archives, crashes | directory whole, registry follows it |
| MCP and tools (`toolexecuter.go`, `mcp.go`, `mcptool.go`) | tools, managers, what a session loaded, configuration | add, remove, reconnect, load, call | MCP servers, configuration | connecting outside of all locks | an offered tool works, no connection leaks |
| quota (`quota.go`) | a counter per day and scope | check, add, reset | chat requests, teams, store | several writers, midnight, crashes, a counter that cannot be read or written | counts are use |
| scheduled tasks (`clock.go`, `component/tasklog`) | task table, its stored copy, cron entries, running set, log rows | add, update, delete, run, recover | cron, stores, chat back end | crash between two writes, triggers against updates, one-shot tasks | nothing answered is lost, one execution per task, log rows settle |
| subagents of a task (`clocksubagent.go`) | set of running and finished subagents | launch, wait, collect, cancel | scheduled tasks | deadline against results | ends, reports and bills everything |
| tool approval (`approval.go`) | pending requests, two locks | ask, reply, time-out | tool calls, messages | two locks, late and double replies | decided only by who may, never deadlocked |
| interceptor (`plugins/plugininterceptor`) | lists of who may talk to the bot | judge, load | core's chain, a management plugin | a list exchanged while a message is judged | hard rules hold; the documented verdict |
| event dispatch (`core/core.go`, `dedup.go`) | claimed keys | deliver, claim, handle | adapters, plugins, cache store | redelivery, lost replies, crash after the claim | handled once, never swallowed |
| identifier migration (`core/qid_migration.go`) | tables half converted | start, convert a row, fail, start again | SQL, every store | no transactions: any prefix of the statements; a failed lookup skips a table | converges, loses no row |
| configuration (`core/configstore`, `adminpanel/server.go`, `functool/config.go`) | settings, presets, the wizard's mark | defaults, save, delete, preset, complete | panel, AI's tool, start-up | saves that are several calls, failed lookups and writes, crashes | what was written stays |
| stores (`core/memory.go`, `redis.go`, `persistent_sql.go`) | keys with expiry, rows | get, set, set-if-absent, expire, lists, scan | everything | expiry, two implementations | memory and redis behave alike |
| plugin unload (`core/unload.go`, `sysrestart`) | marks, start-up order | restart, exit, remove | plugins, marketplace | sweeps that overlap, hooks that hang | every hook once, before the process ends |
| marketplace and update (`marketplace/`, `adminpanel/update.go`) | plugin directories, source tree, registry, manifest, binary, backups | install, upgrade, remove, roll back, update, replay | file system, restart | failure at each step, a manifest that is not written, hooks that hang, two pipelines, restarts | all or nothing, binary always there, plugins survive updates |
| OneBot adapters (`adapter/napcat`, `luckylilia`) | pending echoes, worker queue, connection | request, answer, event, reconnect | core | late answers, full queue, lost connection | answers reach their request; identifiers keep their prefix |
| Telegram adapter | offset, seen updates, messages sent | poll, dispatch, send, stream | core, Bot API | crash between poll and offset, refused markup, calls repeated after they were delivered | updates once, last content shown |
| Weixin adapter | credentials and cursor on disk, login sessions | scan, poll, switch account, send | console, panel, core | two login sessions, a switch during a poll, crashes | messages once, the cursor is the account's |
| QQ official adapter | gateway session, token, reply numbers | connect, resume, send, upload | core | lost connections, revoked tokens, pushed twice | events once, numbers once |
| Discord adapter | servers, cached messages, audit entries | events, recalls, send, stream | discordgo, core | handlers in any order | the deleter is right, batches in order |
| Feishu adapter | claimed keys, chats, card | events, recalls, send, card | SDK, core | acknowledged before handled, restarts | events once, the card ends final |
| the rest: logs, hooks, file, shell and web tools, todo lists, sign-in, small plugins, message model | | | | see section 6 and `PROJECT.json` | |

## 2. Modules

Each component module declares CONSTANTS, VARIABLES, `Init`, one action per
operation or step, `Next`, `Spec`, `FairSpec` where liveness is a question, and its
properties, with one type invariant `TypeOK`. An operator whose comment begins with
"Mutant:" is a faulty version of the definition after it and is used by no run. A
property that a comment, guide or changelog of the repository states and the code does
not keep is part of its module too; section 5 lists those.

**Chat.**

* `SessionMutex` (abstract): each handler waits for, holds and releases its session;
  never two holders.
* `SessionLock` (`lock.go`): `TakeSlot`/`SetKey`/`Refuse`/`SetLost` are the two
  halves of `tryLock`, `Beat`/`Miss` the heartbeat, `StopRenewal`, `FreeSlot`,
  `CheckToken`, `DeleteKey` the steps of `release`. `Tick` is a third of the TTL,
  the heartbeat's period, and `Lapse` the expiry of a key in the store. The
  constants say what the environment does: `MaxMissed` failed heartbeats in a row,
  `Revives` (the memory store lets EXPIRE revive a key), `MayStall` (time may
  pass while a release is under way).
* `SerialChat` (abstract): messages arrive, a session begins a batch of them when
  none is under way, and settles it as a whole.
* `ChatSession` (`plugin.go`, `pendingqueue.go`, `llm.go`, `subagent_async.go`,
  probes of `chatcache.go` and `nomention.go`): the handler of each message, the
  goroutine of each background subagent, `/stop`, and the sweeps that take the
  lock for a moment. It uses the lock as one step, which is what `SessionLock`
  implements (`ImplementsMutex`). `fate` records what became of a message; the history
  variable `before` of `RecordedSpec`, which no action reads, which message arrived before
  which. A message has arrived once its handler holds the lock or has enqueued it: one that
  was refused the lock comes between the others when it is enqueued (`plugin.go:236`),
  whatever came first on the platform.
* `ChatResidency` (`chatcache.go`, `nomention.go`, `llm.go`): `getChat` and the replay
  of stored history, the janitor's sweep (look, lock, look again, delete), the count of
  messages without a mention and the clearing it leads to, restarts. A turn is one step.
* `AsyncSubagents` (`subagent_async.go`, `usageacc.go`): the same subagents as seen
  by `subagent_list`, `subagent_cancel`, `/stop` and the query log.
* `Team` (`team.go`, `teamtool.go`, `subagent.go`): the stored teams and one `team_run`;
  `Tick` is time, against which a member's and the request's deadlines are set.
* `Conversation` (`chatbot.go`, `memorywindow.go`, `toolexecutor.go`,
  `historystore_sql.go`): a turn of one ChatBot, one at a time by `OneResponder`. A
  message is its role and a number. `StaleClear` is the clearing of a group whose ChatBot
  was evicted after `nomention.go` had taken it: the rows go, the window in use stays.
* `LlmClient` (`llmclient.go`, `llmbackend_*.go`): attempts, the backup model, what the
  user sees of a stream (nothing of a backup model's that broke off and cannot be taken
  back); as functions, the history in the form of each of three back ends
  and the assembly of their streams.
* `Quota` (`quota.go`): Check and Add of requests of a day, resets, restarts; beside the
  counters `used`, the tokens really used, which no action reads. A read that fails gives 0
  to Check and to Add, a write that fails leaves the counter. `Approval`
  (`approval.go`): requests, replies, the lock of each session and that of the
  administrator's chat. `Agents` puts `Approval`, `ClockSubagents`, `AsyncSubagents` and
  `Team` side by side.
* `Knowledge` (`knowledge.go`, `memory.go`, `memorytool.go`): one scope of either; the
  migration of old documents and `FillWrite`, the goroutine that fills in vectors, beside
  the calls; as functions, the cutting of a text and the ranking.
* `Skills` (`skill.go`, `skillpanel.go`, `skilltool.go`), `Mcp` (`toolexecuter.go`,
  `mcp.go`, `mcptool.go`): each operation in the steps between which another one runs.
* `ClockScheduler` (`clock.go`, `tasklog`): the table of tasks with crashes at each
  write, cron, executions and their log rows. `ClockSubagents` (`clock.go`,
  `clocksubagent.go`): the inside of one execution.

**Core and administration.**

* `EventDispatch` (`core.go`, `dedup.go`): deliveries of events, the claim in the store,
  the plugin chain.
* `Stores` (`memory.go`, `redis.go`, `persistent_sql.go`): both implementations given the
  same calls; patterns and name spaces as functions.
* `QidMigration` (`qid_migration.go`): tables row by row, a failure or the end after any
  statement, starts; a table that a failed lookup takes for missing (`passed`); what is
  written is what was read before the loop (`asRead`); the rewriting of values as functions.
* `Interceptor` (`plugininterceptor`): the checks of one message as separate reads of the
  lists, loads with their two locks; the parsing of rules.
* `PluginUnload` (`unload.go`, `restart_unix.go`): the sweeps of restart and exit, and
  the removal of one plugin.
* `Marketplace` (`install.go`, `manifest.go`, `replay.go`, `update.go`): files as
  functions from plugins to versions, both pipelines step by step with a failure at each:
  also of the writing of the manifest (`Record`, `Strike`, `Save`), which is only logged and
  leaves the old one in memory and on disk, and of a roll-back's own steps. `Hang` is an
  unload hook that does not return, before a removal or before the restart.
* `ConfigStore` (`configstore.go`, `presets.go`, `server.go`, `functool/config.go`): one
  call of the store is one step unless the process dies in it; a save of the panel is a
  series of them. With `"reads"` in `Faults` a lookup may answer that a key is missing, and
  the start then seeds, or fills in, its default.

**Adapters.** `OneBot` (napcat and luckylilia; the reader, the workers, requests and
echoes, reconnection, HTTP; which fields of what is decoded are relabelled),
`Telegram`, `Weixin` (login, polling, switch of accounts, sending), `QQOfficial`,
`Feishu`, `Discord`, and `AdapterCaches` (the message caches of four of them, Weixin's
context tokens). The answers of a platform to a call, and the order in which its events
come, are inputs; a call answered by a gateway error may have been delivered or not.

**Compositions.** `Agents` (approval, tasks, sessions, teams), `Core` (dispatch, unload) and
`Services` (quota, ChatBots in memory, configuration, MCP, interceptor, the model's client,
migration of identifiers, skills) bring together components that share no variable in the
code; a variable `scenario`, chosen initially and never changed, says which component a
behaviour is about, and what belongs to the others keeps its initial value (0 in `Services`).
`DataSurvives` and `AnswersAreSound` of `Services` collect what its components promise.

**For TLC.** `MCChatSession`, `MCAgents` and `MCCore` extend their module with model values
and definitions; `SessionLock`, `ClockScheduler`, `Conversation` and `Marketplace` need none.
What surrounds an `EventDispatch` is a record `env`, chosen initially among `Environments` and
never changed. That of a `Conversation` is a set: empty, or usage reports of the model and the
compressor (`"usage"`, `"summary usage"`), a store that fails (`"bad reads"`,
`"bad writes"`), or clearings of a ChatBot that is in memory no longer (`"stale clears"`);
that of `Marketplace` names the plugins the operator deals with, the steps
that may fail, and what else may happen (`"rollbacks"`, `"together"`: both pipelines at once,
`"reboots"`, `"hangs"`: hooks that do not return). `MCServices` extends `Services`: it gives the components their constants, adds
variants of them under other constants (`Capacity` and `NoMention` of the ChatBots in memory,
`FaultyQuota`, `FaultyConfig`, `LazyMcp`, `StuckModel`, `IdValues`, `TwinSkills`), and takes the stores, the
knowledge base and the memory by `INSTANCE`. `MCAdapters` is a suite of the adapters, one
instance for each circumstance. A property of either says of which scenarios it speaks.

**For TLAPS.** `SessionLock_proofs`, `ChatSession_proofs`, `ClockScheduler_proofs`,
`Conversation_proofs`, `Agents_proofs`, `Core_proofs`, `Marketplace_proofs`,
`Services_proofs`: section 4.

## 3. Runs

`(v)` marks a run that TLC is expected to refute: its property is a statement of a
guide, and the finding in `PROJECT.json` quotes it.

| Run | Instance | Shows |
|---|---|---|
| `lock` | 3 handlers, 2 sessions, 2 slots, TTL 3, one miss in a row, no stalled release | exclusion, the holder keeps its key, refinement of `SessionMutex` |
| `lock_lapse` | 2 handlers, any misses, stalls | slots never leak, every session becomes lockable again |
| `chat` | 4 messages of 2 sessions, a probe, `/stop`, 2 slots, queue of 2, panics, failing clears | one responder, slots, cancel function, no message vanishes, the model sees them in the order of arrival |
| `chat_live` | 2 messages, a subagent, a probe and a `/stop` of one session, 1 slot | refinement of `SerialChat`; the lock is freed; what is queued during a response is taken up or dropped |
| `agents` | approval: 3 requests, 3 replies, 2 chats; task: 3 subagents, 2 rounds; session: 2 subagents, 2 turns, 1 `/stop`; team: 4 calls of up to 2 members, a deadline of 4, a change of the stored teams | who decides a request; a task settles its subagents; list and bill are right; a team ends before its request, with a whole report; requests, tasks and teams end |
| `clock` | 2 tasks, 2 triggers, 1 surviving log row, a crash at any step | table, cron, executions and log agree, also after crashes |
| `conversation` | four environments: 3 turns without usage reports; 3 with reports of the model and the compressor; 2 with a store that fails at any time; 3 with clearings of an evicted ChatBot; 2 rounds of 2 calls each | pairing with and without faults, rows = window, bound, termination |
| `core` | dispatch, four environments: 3 deliveries of one event and of three events, and a store in the process; 3 of 2, a server that comes and goes, keys that expire; 3 of 2, a server whose replies get lost, a crash; 3 plugins, one of them deaf. Unload: 3 plugins, 2 restarts that may fail, `/exit`, a removal | once and whole; never swallowed; hooks once and in order; all ends |
| `market` | versions 1 and 2, 3 tasks, four environments: 2 plugins, batches of 2, a failure at any step but those `Orderly` excludes and the manifest's; 1 plugin, any failure, rollbacks, a restart, hooks that hang; 1 plugin, both pipelines at once; 2 plugins and a manifest that is not always written | batches are all or nothing; the binary stays; plugins survive updates; tasks end or wait for a hook that hangs |
| `market_race` (v) | the third of these environments | two pipelines exchange the binary at once and lose it |
| `adapters` | 20 scenarios of the six adapters, see below | events once, what is sent whole and in order, translations whole, answers arrive |
| `services` | 22 scenarios, see below | what is kept survives; what is offered, shown and decided is sound; computed values keep their laws |

The scenarios of `adapters`: `ws lil`, `ws qq`, `http lil`, `http qq` (two requests, two
events, a queue of one, a failed dial, a broken connection); `telegram poll` (4 updates, a
crash), `telegram send` (chains with refused markup, gateway errors behind which the message was
delivered or not, 429, a stream of 2 edits); `weixin login` (panel and console, 2 accounts), `weixin crash`, `weixin send`;
`feishu events`, `feishu group` (a message and its recall, delivered repeatedly, 2 and 1
restarts), `feishu send`; `qq gate` (3 events, 2 sessions, 2 breaks), `qq token` (2
callers, 4 tokens), `qq send` (a message pushed twice, two chains that answer it);
`discord gate`, `discord recall` (2 messages, a moderator), `discord send`; `caches`,
`repeating`. Those of `services`, components of `Services` and their variants: `quota` (4
requests, a midnight, a reset, a crash), `faulty quota` (2 requests of one session, any read
or write fails); `chats`, `capacity`, `no mention` (1 or 2 groups, 2
mentions, 2 other messages, a restart); `config`, `faulty config` (2 or 3 keys, 2 saves, a
preset, 1 or 2 restarts; lookups and writes that fail); `mcp`, `lazy mcp` (add, remove and reconnect at the same time);
`interceptor` (4 lists, 2 loads); `model`, `stuck model` (3 attempts, a backup, 2 pieces; the
stream can be taken back or not); `ids`, `id values` (3 tables each, any of them missed by a lookup, 2 starts, a row written
between); `skills`, `twin skills` (2 archives for one directory, a deletion, a reload, a
crash; two directories with a skill of one name). Beside them `stores`, `mixed` (a key used as
string and list); `knowledge`, `faulty knowledge`, `memory` (3 to 5 calls, 2 old documents, a
crash); `laws` (functions alone, over all inputs of a few elements).

**Bounds.** Every bound is a CONSTANT. Two actors suffice for a race between two
code paths and a third one for what happens between them; TTL 3 is the code's own
ratio of expiry to heartbeat. The queue's capacity of 2 lets it be empty, partly
filled and full. Three turns reach a compression, the turn after it and one more
cut. Two plugins let a batch fail with one of them done. A worker pool of one and a
queue of one reach the pool that waits for its own answers. Two starts are one that is
cut short and one that finds what it left. The messages of the first session are symmetric in
`chat`; no other run uses symmetry.
The passing runs fire each disjunct of each next-state relation.

**Deadlock** is checked, except where all actors are finite and the model really
ends (the runs of `ChatSession`, `Agents`, `MCCore`, `Marketplace`, `MCAdapters` and
`MCServices`).

**Conditions.** What a property needs of its surroundings is a constant or a scenario:
`lock` assumes fewer than TTL - 1 misses in a row and a release that is not stalled
beyond the expiry, `DiskIsWindow` and `WindowIsBounded` a store that works, and the former,
to say that rows and window are equal, that no clearing took another ChatBot's window (with
one the rows are still the end of the window: nothing older, nothing missing in between),
`ArrivalOrder` that a message which waits for the lock has not arrived, and that the holder's
own comes last in its first batch (`plugin.go:272`), `SendsWhole` of a reply's reference that
it is used once among the messages known to have arrived,
`NeverSwallowed` a server that does not lose a reply after executing the command and a
process that lives,
`BatchesAreWhole` and `PluginsAreKept` an `Orderly` operator (one pipeline at a time, no
rollback, no restart from elsewhere, an undo whose own steps succeed, plugin directories that
can be deleted and, by an update, read; every other step may fail); the former speaks of the
manifest only if its writes succeed (`record`, `strike`), and of the binary whenever the
pipelines do not overlap; `TasksEnd` takes a task whose hook hangs (`hung`) for ended,
`CleanedBeforeEnd` and `ReverseOrder` (in `HooksRunOnceInOrder`) that neither `/exit` nor a removal has come (`OnlyRestarts`),
`AnsweredIsKept` that writes succeed or the process dies, `StoresAgree` callers that use
a key for one kind of value, `DefaultsAreThere` and `SetupIsAskedOnce` writes that
succeed, the former no deletion (`NothingDeleted`), the latter lookups that succeed too,
`WrittenStays` a store whose lookups succeed, or else a key that has no default (with one
nothing but that default may replace what was written), `LetThroughBelow` and
`PassedByTheLast` counters that can be read and written, and the latter requests that all
check and all wait for their session's lock (`InOrder`; subagents and scheduled tasks do
not), the equalities of `CountsAreUse` the same counters (that nothing is counted that was
not used holds without it), `Converges` tables that a lookup found and rules that are not
odd (`RulesComeToRest` in section 5 says what those are), `ListenIsSet` one spelling of the
panel's address and no quotes around nothing (`PlainListen`), `MaskIsNotStored` that the
AI's tool is not given the mask it shows (`NoMaskIsSet`), `RowsAreWindow` that clearing and
eviction are not configured together (`NoStaleClear`), `NoConnectionLeaks` servers with a tool
name of their own and one call at most that connects to each (`Apart`),
`SkillsSurvive` that neither a skill nor its unpacked successor is deleted and no crash falls
between the clearing of a directory and the renaming of the successor, `UpdatesAreKept` and
`RemovedIsGone` the scenarios that state them. Section 5 says what happens otherwise.

**Fairness.** Weak fairness of goroutines that have begun: Go's scheduler is
preemptive. Nothing obliges a user, a platform or an administrator to act, nor the
model to answer; what ends a silent model is the deadline of the context, so
`ChatSession`, `ClockSubagents` and `Conversation` are fair to their deadlines and `Team`
to its clock. Acquisition of a `sync.Mutex` gets strong fairness (`Approval`,
`PluginUnload`): its starvation mode hands it to the waiter that has waited longest. A
plugin's unload hook is fair where no plugin is in `Hanging`; in `Marketplace` nothing is
assumed of hooks: a step that calls them may end in `Hang` and the task then counts as hung. `OneBot` is fair to its
reader, its workers and the time-outs of requests, not to the platform: whether an answer
comes is not assumed, only that one that has come is delivered. `MCAdapters`, `Agents` and
`Core` state the fairness of the components whose progress they check; `MCServices` needs none.

## 4. Proofs

TLAPS proves for every number of handlers, sessions, slots, tasks, deliveries, plugins,
versions, requests and replies, every length of a queue or a batch, every bound and every set
of environments:

* `SessionLock_proofs`: `TypeCorrect`, `SlotsAccounted` (both unconditional),
  `KeyIsKept`, `LockExcludes`, `LockImplementsMutex`. That a holder keeps its key is
  not inductive; `LeaseInv` is: the key of a handler that beats is live, carries its
  token, and the time left is exactly the TTL less the beats missed and the one due.
  With fewer than TTL - 1 misses that is at least one, so the key cannot lapse,
  `SetKey` cannot succeed for another handler, and each step maps to one of
  `SessionMutex` or to a stutter.
* `ChatSession_proofs`: `TypeCorrect`, `RespondsAlone`, `CancelsTheResponder`,
  `SlotsAreCounted`, `NothingIsLost`, `ChatIsSerial`, `MessagesKeepOrder`. The induction
  carries `OneResponder`, `LockOwned` (the lock of a session names a handler of that
  session inside its critical section) and `ActiveIsResponder` together; the slot count
  needs the cardinality of the set of handlers inside, one lemma for a handler that enters
  and one for one that leaves. `NothingVanishes` counts occurrences; the induction carries
  `Kept` instead, the same in terms of sets: queues and batches hold no message twice and
  none of another session (`Sorted`), and a message is with its goroutine, in its queue, in
  one batch or settled, never in two of these (`Placed`). The lemmas `GoesOn`, `Settles`,
  `SettlesItself` and `Takes` say what a kind of step does to `Kept`, and every action is
  of one kind. With `Kept` and `OneResponder` a session has at most one batch (`OneBatch`),
  so each step is one of `SerialChat` or leaves `Status` alone: the refinement that
  `chat_live` checks for three messages holds for any number. `MessagesKeepOrder` is a theorem
  of `RecordedSpec`: of two messages of a session that have arrived and are not settled, the
  earlier one stands before the later one in the queue and in a batch, and is not left in the
  queue when the later one is in a batch (`ArrivalOrder`). It is inductive with `Kept` and
  `OneResponder`: a message that arrives goes behind all that have (`EnqueueKeepsOrder`), a
  drain takes the whole queue, as it is (`TakingKeepsOrder`), and every other step only takes
  messages away (`ShrinkKeepsOrder`).
* `ClockScheduler_proofs`: `TypeCorrect`, `ExecutionsAccounted`, `RowsStayFinal`,
  `ScheduleIsKept`, and, for a store whose writes succeed, `AnswersAreKept` and
  `NothingReused`. `InductiveInvariant` is the conjunction of: a cron job belongs to an
  entry (`JobsAreEntries`), numbers still to be handed out are unused (`TriggersAreFresh`),
  the log keeps its length (`LogIsBounded`), nothing runs while the process is down
  (`DownIsIdle`), rows are as many as were counted (`RowsAreCounted`) and an unfinished row
  belongs to a running task (`RowsAreTheirs`). `EntriesFollow` and `Persisted` are
  inductive relative to it. That a finished row changes by eviction only needs the row with
  the largest number, whose existence (`MaxIsThere`) rests on the well-foundedness of `<`.
* `Core_proofs`: `DispatchIsOnceAndWhole` and `HooksRunInOrder`, the two invariants of the
  run `core`, with the parts `PluginsSeeItOnce`, `ChainsAreWhole`, `NothingIsSwallowed` and
  `HooksAreCalledOnce`. Dispatch: while the store is sound `Claimed` is inductive (a delivery
  that was refused, and every one that has begun, finds its event's key in the store, and no
  two of an event have begun), and while replies arrive `KeysAreHandled` (every key belongs to
  an event some delivery carries to the plugins), whatever outages and expiries do. Unload:
  `CalledOnce` says who holds a mark that nobody has called for yet, and that it is one
  actor; that no hook is called twice is not inductive without it. With restarts alone
  `OneSweep` adds what a sweep has behind it at each of its steps (`SweptSoFar`): the marks are
  closed upwards, one hook at most is running, it is the first marked one, and all other marked
  hooks have been called. A sweep that finds the marks of a failed restart thus skips only
  hooks that have returned. Assumed is `CoreAssumption`.
* `Conversation_proofs`: `HistoryStaysPaired`, `DiskFollowsWindow`, `WindowStaysBounded`. A
  list of messages is `Paired` when every request for tools is followed by as many results as
  it has calls and no result stands elsewhere. Concatenation, the later half that a cut keeps
  and a finished round preserve it (`PairedConcat`, `PairedSuffix`, `LaterHalfIsPaired`,
  `RoundCloses`). The induction adds what the turn under way has collected: `TurnIsPaired` (its
  messages, and while tools run those with the results still to come, are paired),
  `NothingLingers` (between turns nothing is left of one) and `TurnIsShort` (its length by its
  rounds). `DiskIsWindow` and `WindowFits` (the window now, by the point the turn is at) are
  inductive relative to it; after a stale clear the rows are a suffix of the window, and what
  a turn adds, or a compression writes anew, keeps them one (`EndsLasts`). Any number of rounds, calls and turns, any threshold, and any set
  of environments.
* `Agents_proofs`: `RepliesDecide` and `SubagentsSettle`, with the parts
  `WaitingStaysRegistered`, `AdminKnowsWhich` and `OnlyTheEntitledAllow` of the former. A step
  of `Agents` is a step of one component and leaves the others alone, so each component has an
  inductive invariant of its own. Approval: `Locked` (a request past a lock holds it, what is
  registered in a session is of that session) makes a second registration impossible until the
  first is gone; `Verdicts` (a verdict on its way comes from an entitled reply that matched
  this request). A task: `TaskInv` (usage is accounted for before a subagent counts as
  finished; when the wait was not cut short nobody is pending). A session: `Listed` (whoever is
  listed in the group of the map will take itself out of this very group, a group yet to be
  made is empty, `/stop` makes room for one more) and `Accounted` (tokens in an accumulator or
  in the log belong to a subagent that is past adding them). A team: `RunIsPaced` (members
  are resolved in the order of the call, all of them before the first one starts),
  `MembersAreNamed` (whoever is done has its own result in its own place) and `SpentIsBilled`
  (what members spent is billed, or of one that panicked) carry `EndBeforeRequest` and
  `ReportIsWhole`; that the stored teams stay within their limit needs the cardinality of the
  teams of a scope, for any limit and any number of names.
* `Marketplace_proofs`: `BatchesWhole` and `PluginsKept`, the two safety properties of
  `market`, `TypeCorrect`, and `BinaryStays` (the part about the binary, which needs no
  orderly operator). That all agrees when no task runs says nothing of the steps between, so
  the invariant `Inv` has layers. `Control` adds to the types where in its batch the
  marketplace is (`AtIsRight`). `Alone` and `BinaryKept`: as long as pipelines do not overlap
  one of them is idle, and the binary is missing at `place` only, when the old one is there.
  For an orderly operator `Tidy` says of every operation of the batch at which stage it is:
  its plugin is untouched (`AtRest`), done, half done but undoable (`BackedUp`: what `Revert`
  needs is still in the backup or in the persistent directory), or recorded (`Staged`); which
  steps are reachable with which tasks (`Paced`); and what the files of each step hold
  (`Filed`: built is what the source tree registers, old is what the batches that went through
  have left). What the manifest tells (`Told`) is a part of its own, under the condition that
  its writes succeed.
  `StepKinds` sorts the steps into starts, moves, failures and ends, and each layer has one
  lemma per kind or action. A failed batch leaves everything at rest because `Undo` takes each
  undoable operation to `AtRest`, in an order that never depends on another operation
  (`NamedOnce`: no batch names a plugin twice). TLC checked `Inv` on the instance of `market`
  before the proof.
* `Services_proofs`: `DataAlwaysSurvives`, `AnswersStaySound` and the `InductiveInvariant` they
  follow from. As in `Agents`, a step is one component's and leaves the others alone, so each
  component has an `IInv` in its own module, which stands there under "Why these hold" and
  which TLC checked on the component's instance first; the theorem conjoins them by scenario.
  - *Quota*: while a request has counted for its session only, the counter of all misses just
    its tokens and what was lost (`HalfIsRest`); nothing is counted for days to come
    (`FutureIsZero`); of the requests that have a session's lock one runs, and while it runs
    the session is below its limit (`OneRuns`).
  - *ChatBots in memory*: who may hold which lock (`LocksAreHeld`), what the janitor has in hand
    (`SweepHasEntry`), that a driver's ChatBot is the one in memory (`DriversHaveBots`). With
    `WindowsAreOwn` (no two groups share a ChatBot, nobody clears one that is not in memory)
    the rows are the window. That an answered message is stored once is `InOnePlace` (rows,
    queue and batches hold no message twice) and `IsSomewhere`.
  - *Configuration*: before the first start is over nobody has written anything
    (`NothingBefore`), a save runs only while the process is up (`SavesAreUp`), and how far the
    defaults have come at each step of a start (`DefaultsCome`).
  - *MCP*: one way of offering tools is in use (`OneWay`); what a call found and connected is
    its own until it has ended (`Found`, `Connected`, `Used`); a connection is kept by the
    names it offers or by its call (`Keep`).
  - *Interceptor*: each check that was passed was passed by a list that was in force then
    (`ChecksPassed`), and, if there was only one, by that (`PassedByOne`).
  - *The model's client*: what is shown is what the attempt has got (`ShownIsGot`), and each
    client counts its attempts (`AttemptsAreCounted`).
  - *Migration of identifiers*: rows only move from the old key to the new one (`RowsMoveOn`),
    what is to be written was read from the row that is still there (`ItemsAreRows`), of a table that was found what is
    not at rest is still to be gone through (`TodoIsRead`), and a value that is copied over is
    converted (`CopyIsConverted`).
  - *Skills*: what is unpacked stays until it is renamed, unless it is deleted
    (`UnpackedStays`), and who has cleared a directory has its successor (`ClearedIsReplaced`).
    The first attempt at this failed for a reason of the code: a reload registers the
    temporary directory of an upload too, and a deletion of its skill then removes it between
    the validation and the renaming, after which the old skill is gone as well
    (`skillpanel.go:153`, `:206`, `:221`). The model had missed it; the property now names the
    case.

They assume only `ASSUME`s on constants, which TLC evaluates in the runs, and what a
theorem itself states: the bound on misses, and that writes succeed.

Model-checked only:

* all liveness (the prover has no ENABLED): `NoZombieLock`, `LockIsFreed`,
  `QueuedDuringResponse`, `TurnEnds`, `TasksEnd`, `AnswersArrive`, and both `EverythingEnds`;
* the adapters (`EventsOnce`, `SendsWhole`, `TranslatesWhole`): twenty scenarios of six
  protocols, each of which would need an inductive invariant of its own, and parsers whose
  properties are inductions over data;
* `OthersHold`: the two stores against each other, the knowledge base and the memory, that the
  registry of skills follows the directory, the variants of the components of `Services` (the
  theorems are about every value of the constants, so they hold of a variant too; the run
  shows them without it), and the laws of functions over texts and streams, which would need
  induction over data.

## 5. Where the code and its documentation part

One disagreement is a run: `market_race`. The others are stated as properties of the
modules, next to what holds, and no run repeats them; TLC refutes each one on a small
instance of its module, that of section 3 unless the second column says otherwise.

| Property (module) | Fails with | Source and what it says | What the code does |
|---|---|---|---|
| `HolderKeepsKey` (SessionLock) | `MaxMissed = 2` | `lock.go:15-16`: two spare heartbeats | the second miss in a row lets the key expire at the next beat (`lock.go:88`) |
| `SlotReturnedLast` (SessionLock) | the constants of `lock` | `lock.go:65-67`: the slot is returned last | it is returned before the key is deleted (`:75`) |
| `FalseDropsQueue` (ChatSession) | `ClearMayFail = TRUE`, 2 messages | `plugin.go:376-378`: when a batch gives up, the queue has been dropped | not on the path of a failing `/clear` (`:399`) |
| `OverLimitIsRejected` (ChatSession) | `RateLimit = 1`, a message in each of 2 sessions | `docs/guide/configuration.md:253`: requests over the limit are refused | `tryLock` does not tell the limit from a busy session, so they are queued (`plugin.go:234`), in a session that nothing drains |
| `StopStopsResponse` (ChatSession) | 1 message, `/stop` | `docs/guide/builtin-plugins.md:57`: it stops the response under way | between the lock and the registration of the cancel function it finds nothing to stop (`:268`) |
| `QueuedIsServed` (ChatSession) | 2 messages | `plugin.go:235`, `docs/guide/builtin-plugins.md:65`: what is queued is answered after the current response | a message queued after the last drain (`:278`) and before the release waits for the next message |
| `LeftoversAreOlder` (ChatSession) | 2 messages of one session | `plugin.go:270`: what the first drain finds was left by the response before | messages queued while the holder is in `getChat` are found too, and put before the older message of the holder (`:272`) |
| `RunningIsListed` (AsyncSubagents) | 2 subagents, `MaxStops = 1` | `subagent_async.go:90`, `:98`: all running subagents are cancelled and listed | look-up and insertion are two steps (`:137`), `/stop` in between leaves a subagent in a group nobody finds |
| `UsageIsKept` (AsyncSubagents) | 2 subagents, `MaxTurns = 2` | `usageacc.go:53`: counted into the next query | look-up and addition are two steps (`:64`), tokens go to an accumulator already taken |
| `OnlyOneShotsAreDestroyed` (ClockScheduler) | 1 task, 1 trigger | `clock.go:514`: destroys one-shot tasks | a task made recurring during its execution is destroyed too (`:492` reads the old copy) |
| `AnsweredIsKept` (ClockScheduler) | `WritesMayFail = TRUE` | `clock.go:82`: no state is lost by a restart | results of `Set` and `Del` are ignored (`:281`) |
| `OneShotsAreExecuted` (ClockScheduler) | 1 task | `clock.go:491`: destroyed after its execution | a trigger that is skipped because the task is running destroys it too (`:492`) |
| `AllResultsAreReported` (ClockSubagents) | 1 subagent | `clocksubagent.go:204`: the system waits for all and reports all | one that has ended before `Chat` returns is never reported (`clock.go:775`) |
| `SendNeverBlocks` (Approval) | 1 request, 2 replies | `approval.go:155`: sending does not block | a second reply matched before the request left blocks its goroutine |
| `SaveOverwrites` (Conversation) | `"bad reads"` in `env` | `memorywindow.go:62`: the next save overwrites | the next save only inserts (`:76-84`), unread rows come back |
| `DropServesTurn` (Conversation) | `Threshold = 1` | `memorywindow.go:221-222`: history is dropped so that the turn succeeds | it is dropped on the cancelled context of `/stop` as well (`:219`) |
| `CompressionIsBilled` (Conversation) | `Threshold = 1` | `chatbot.go:104`: a compression's tokens belong to the turn | a prompt hook that blocks the input discards them (`:120`) |
| `EstimateBounds` (Conversation) | `"summary usage"` alone in `env` | `chatbot.go:105-106`: its prompt is not the size of the context | `RecordUsage` falls back to it (`memorywindow.go:161`), the estimate is never used again |
| `NeverSwallowed` (EventDispatch) | `env.lost`, or `env.crashes = 1` with `env.remote` | `dedup.go:40`: rather twice than never | a claim whose reply is lost, or whose process died, makes the only delivery a duplicate (`:44`, `core.go:696`) |
| `CleanedBeforeEnd` (PluginUnload) | a restart and `/exit` | `CHANGELOG.md:36`: the hook is called before the process ends | a marked plugin is skipped while its hook still runs (`unload.go:40`) |
| `ReverseOrder` (PluginUnload) | a restart and `/exit` | `unload.go:30`: last started, first cleaned | two sweeps take turns at the marks (`:38`) |
| `RemovalIsTold` (PluginUnload) | a failed restart, then a removal | `docs/guide/plugin-marketplace.md:50`: called with `reason=uninstall` | the mark of the restart suppresses the call (`:68`) |
| `RequestsEnd` (PluginUnload) | `Hanging = {p2}`, `FairSpec` | `common/plugin/plugin.go:127`: the framework goes on after the time-out | the hook is called synchronously (`:47`) |
| `RollbackRestores` (Marketplace) | `"rollbacks"` in `env`, 3 tasks | `install.go:666`: binary and manifest of before the last exchange | every save overwrites the one backup of the manifest (`manifest.go:65`) |
| `ManifestTells` (Marketplace) | `"record"` or `"strike"` in `env` | `manifest.go:22`: it is the list of the installed plugins | a write that fails is only logged, the task ends as done (`install.go:610`, `:628`) |
| `HooksAreTimed` (Marketplace) | `"hangs"` in `env` | `core/unload.go:14`: the hook has a time-out | it is called synchronously (`install.go:624`, `unload.go:47`), and the task waits for it for ever |
| `UpdateKeepsPlugins` (Marketplace) | `"reboots"` or `"together"` in `env` | `replay.go:18`, `update.go:415`: plugins survive updates | a plugin moved aside for its upgrade is taken for removed (`replay.go:47`, `update.go:422`) |
| `RowsAreWindow` (ChatResidency) | `Threshold = 2`, `MaxIdle = 1` | `nomention.go:104`: the history is cleared under the lock | the entry found before the lock may be evicted and rebuilt meanwhile: the old ChatBot is cleared, the new one keeps its window |
| `EvictedHasNoQueue` (ChatResidency) | `MaxIdle = 1`, 2 mentions | `chatcache.go:115`: no entry with queued messages is evicted | they come after the look |
| `DueWhenCleared` (ChatResidency) | 2 mentions, 3 other messages, `Threshold = 2` | `nomention.go:13`, `config.go:266`: so many messages in a row without a mention | a goroutine that counted before the last mention clears after it |
| `PanicIsReported` (Team) | | `team.go:328`: a member's failure goes into the report | a panic is counted as a success |
| `DeletedIsGone` (Team) | | `teamtool.go:203`: deleted | the answer does not depend on the write, which may have failed |
| `OneChunkCallIsWhole` (LlmClient) | | `llmbackend_chatcompletions.go:119`: first chunk id and name, later ones the arguments | a provider that sends a call in one chunk loses its arguments |
| `DeadIsNotAsked` (LlmClient) | | `llmclient.go:163`: the wait respects the context | the other case of the select may be chosen |
| `BeginningIsReturned` (LlmClient) | `stuck model` | `llmclient.go:206`: what has come is returned with the error if it cannot be taken back | of the backup model's answer nothing is (`:236`) |
| `SessionIsNotOverdrawn` (Quota) | | `quota.go:26`: a session is passed by its last request at most | scheduled tasks check beside its requests, subagents not at all |
| `UseIsCounted` (Quota) | `faulty quota` | `quota.go:23`: the counters are kept | what is added where the counter cannot be read replaces it (`:197`), and what cannot be written is missing (`:203`) |
| `VectorsFit` (Knowledge) | | `knowledge.go:131`: read again under the lock, so that nothing is overwritten | the vectors of the old text are written to the new one |
| `EverythingIsFound` (Knowledge) | | `knowledge.go:309`: chunks overlap, nothing is cut apart | of a line longer than a chunk the part behind its first chunk is in none (`:338`) |
| `UpdatesAreKept` (Knowledge) | `memory` | `memory.go:115-129`: vectors are filled in, nothing else changes | the row is written back as it was listed, with the text of before an update |
| `RemovedIsGone` (Knowledge) | `Faults = TRUE` | `knowledge.go:270`: migrated once | old documents that could not be dropped are migrated again, the removed ones with them |
| `RegistryIsLatest` (Skills) | | `skill.go:124`: exchanged atomically after an upload | a reload that read before another's change is exchanged after it |
| `OnlyInstalledAreLoaded` (Skills) | | `skillpanel.go:206`: unpacked aside and replaced after validation | a reload meanwhile registers what lies aside |
| `RemovedIsGone` (Skills) | | `skilltool.go:155`: uninstalled | another directory may hold a skill of that name |
| `RefreshIsPossible` (Skills) | | `skill.go:138`: reloads after files were edited | not when the first load failed |
| `UnlistedIsNotChosen` (Skills) | | `skillpanel.go:304`: an installed skill that is not loaded was not chosen | or its name was taken |
| `BuiltInsStay` (Mcp) | | `toolexecuter.go:32`: a taken name is skipped | a reconnection takes the bot's own names (`:388`) |
| `RegisteredOnce` (Mcp) | | `toolexecuter.go:256`: a server is registered once | two calls at once register it twice |
| `RemovedIsClosed` (Mcp) | | `toolexecuter.go:369`: a reconnection does not bring back a removed server | the manager does (`mcp.go:304`) |
| `WhatRunsIsConfigured` (Mcp) | | `mcptool.go:143`: what runs and what is configured agree | calls that overlap write in another order than they act |
| `HandledOnce` (Telegram) | | `telegram/dedup.go`: no update has its effect twice | the claims are in memory only, a crash forgets them |
| `FirstCarriesReply` (Telegram) | | `telegram/send.go`: the first message carries the reply | one with media alone does not |
| `ReplyIsSpent` (Telegram, Discord) | | `telegram/send.go`, `discord/send.go`: only the first message carries the reply | a call that a gateway refused after the message was delivered is sent again as it was (`telegram/client.go:188`) |
| `StartIsShown` (Telegram) | | `common/bot/event.go:49`: the end of a stream forces its final content | the handle starts empty (`telegram/stream.go:77`): a stream nothing is patched to is edited down to its mentions (`:124`) |
| `StaleIsScannedAgain` (Weixin) | | `weixin/adapter.go:434`: an expired login is scanned anew | the expired token is still in `account.json` and is used again |
| `CursorIsOfItsBot` (Weixin) | | `weixin/adapter.go:530`: another account's cursor is dropped | not after an expiry noticed first, nor after a restart between the save and the switch |
| `SaveIsNoticed` (Weixin) | | `weixin/adapter.go:531`: in use after one round | a save between the switch and the next look is not noticed |
| `ConsoleGivesWay` (Weixin) | | `weixin/adapter.go:236`: the console gives way to the panel | not while it reads a line |
| `ArrivesOnce` (Weixin) | | `weixin/send.go:202`: an idempotent id | the second try has another one |
| `RecallKnowsItsChat` (Feishu) | | `feishu/adapter.go:479`: a recall follows its chat's type | not one handled before its message, or after a restart |
| `FilesAreSentAlone` (Feishu) | | `feishu/adapter.go:1104`: files are sent apart | a chain of files alone is not sent |
| `AllIsMentioned` (Feishu) | | `feishu/adapter.go:1119`: mentions are always delivered | that of all is lost next to images alone |
| `SeqsNeverRepeat` (QQOfficial) | | `qqofficial/send.go:26`: numbers increase | a message that is pushed again starts them anew |
| `DeleterIsNeverWrong` (Discord) | | `discord/notice.go:101`: without an entry the author deleted it | the entry may be late |
| `OnlyJoinedIsAdded` (Discord) | | `discord/session.go:148`: only a server joined at run time is new | one that was unavailable at the start is added as well |
| `LongTextsAreWhole` (Discord) | | `discord/send.go:195`: long texts are split | not those with an attachment |
| `StartIsShown` (Discord) | | `discord/stream.go:133`: a stream begins with its prefix | one that nothing is added to is shown without |
| `FindsWhatItHolds` (AdapterCaches) | `Repeats` | `qqofficial/history.go:53`: messages are found by their id | when the older copy is cut the index loses the newer one |
| `NewestFirst` (AdapterCaches) | `Refetches` | `discord/history.go:116`: newest first | what is fetched again goes on top (`:79`) |
| `AnyClientAgrees` (Stores) | `Careful = FALSE` | `common/storage`: one interface | keys used as two kinds, times on lists, and out-of-range indices differ |
| `ScanIsLimited` (Stores) | | `redis.go:140`: the limit is an upper bound of the results, as in memory | memory may return one more, as it looks at the limit only behind the first list (`memory.go:259`) |
| `EmptyListsAgree` (Stores) | | `common/storage`: one interface | memory keeps and lists a list without entries and says of its range that it is missing (`memory.go:192`, `:259`, `:300`), redis drops it and gives an empty one (`redis.go:218`) |
| `NewIsKeptInKV` (QidMigration) | | `qid_migration.go:555`: the new record is kept | not in `ania_kv` (`:109`) |
| `AllIsMigrated` (QidMigration) | | `core.go:278`: existing data is migrated before it is read | a table whose existence could not be asked is skipped (`qid_migration.go:814`), the migration ends as done |
| `SessionsStayWhole` (QidMigration) | | `qid_migration.go:555`: the new session is kept | a session and its messages may end up with different origins |
| `FailureLosesNothing` (QidMigration) | | `core.go:281`: a failure is logged and does no harm | the program runs and writes new rows, for which the next start drops the old ones |
| `OtherRulesAreKept` (QidMigration) | | `qid_migration.go:29`: other platforms' prefixes are left alone | a number behind one gets a prefix of its own (`:467`) |
| `RulesComeToRest` (QidMigration) | | `qid_migration.go:467`: rules that were converted are left alone | some gain a prefix at every start |
| `VerdictIsOfOneList` (Interceptor) | | `liststore.go:30`: replaced atomically by a reload | a message's checks may read two lists |
| `LoadKeepsPlatforms` (Interceptor) | | `liststore.go:196`: keeps the current platforms | not those loaded between its two locks |
| `SettingsOutliveLookups` (ConfigStore) | `faulty config` | `configstore.go:130`, `:62`: what is there is not overwritten, an initialised store is left alone | a lookup that fails says the key is missing (`core/persistent_sql.go:152`), and its default, or all of them, replace what is stored |
| `ListenIsNeverLost` (ConfigStore) | values `null`, `""` in quotes, another spelling | `server.go:536`, `presets.go:135`, `config.go:169`: the panel's address may not be emptied | null deletes it, another spelling is not compared, the tool decodes after it has looked |
| `SnapshotsAreOfNoSave` (ConfigStore) | | `presets.go:17`: a complete snapshot | one taken in the middle of a save has half of it |
| `ClearedStaysUnset` (ConfigStore) | | `server.go:523`: a cleared parameter is unset again | the next start writes its default |

## 6. What is not modelled

*Left out throughout:* formatting, parsing of commands and arguments, wording, the fields
of single platform calls and of LLM requests that no property speaks of, images, HTTP.

*Components left out:* the query, operation, console and message logs (their recording,
updating and eviction are those of the task log in `ClockScheduler`, or ring buffers for
display); the marketplace's catalogue and its login with a code host (requests and a cache
of one answer); file, shell and web tools, computer use and agent hooks (calls to the
operating system; the prompt hook's verdict is an input of `Conversation`); todo lists and
plans (single writes); the news, repeater and log plugins (one answer to one message); the
message model and its builders (data). Of the panel, sign-in and the handlers that only
read; what its other handlers change is in `ConfigStore`, `Marketplace`, `Weixin`, `Skills`
and `Team`.

*In modelled components:* the sizes of messages (`Conversation` knows small and large),
streaming in `Conversation` (it is in `LlmClient`), `SessionStart` hooks, commands of a
chat other than `/stop` and `/clear`, a kill between two renames (`Marketplace`), the
repeats of `discordgo` and a first post of a stream that was delivered twice, messages of two
sessions whose numbers do not meet when the look-up of a row fails (`QidMigration` takes the
conflict for a failure), Windows restarts, panics of tool observers, `Set` and
`Get` of JSON values in the stores, the transport of the OneBot HTTP adapters, overrides of
the configuration by the environment and the repair of presets without a name, the rules of
`gate.go` that decide which tool needs an approval, start-up, contacts and button clicks of
the core. Sessions of the Discord and Feishu gateways are in their vendors' SDKs. The
store's errors are those its callers can see. `PROJECT.json` has a reason for each component
left out.

## 7. State of the plan

1. *Done, first part*: the session lock and chat sessions, with proofs; then their
   neighbours (subagents, conversation, scheduled tasks, approval), the core (dispatch,
   unload) and the marketplace.
2. *Done, second part*: adapters; stores, migration, configuration, interceptor; quota,
   teams, MCP, skills, the model's client, knowledge and memory, ChatBots in memory.
3. *Done, proofs*: the scheduler; that no chat message is lost, that messages keep their
   order and that `ChatSession` implements `SerialChat`; that an event is handled once
   and whole, and how unload hooks are called; who decides a request for approval; the
   conversation's pairing, rows and bound; what a task, a session and a team owe those who
   started them; that batches of the marketplace are whole, and that the binary and the
   installed plugins stay; what the eight components of `Services` keep and answer.
4. *Possible next*: `Knowledge` and `Stores` as components of `Services`, with an abstract store
   that both implementations refine; proofs for adapters, of which Telegram's polling and QQ's
   session are the nearest; the composition of `ChatResidency` with the inside of a turn; the
   rules of `gate.go`.
