----------------------------------- MODULE Mcp -----------------------------------
(***************************************************************************)
(* The MCP servers of the bot: the tools of all conversations and their     *)
(* connections (llmtool/toolexecuter.go, mcp.go), the tools one of them has *)
(* loaded, and the model's own mcp_add, mcp_remove and mcp_reconnect, which *)
(* also write the configuration (pluginaichat/mcptool.go).  Calls of one    *)
(* round run side by side; connecting happens outside of every shared lock. *)
(***************************************************************************)
EXTENDS Naturals, FiniteSets, Functions

CONSTANTS Servers,
          Ops,       \* calls: [kind |-> "add" | "remove" | "reconnect", server, n]
          Names,     \* names of tools
          ToolsOf,   \* ToolsOf[s]: the names server s offers
          BuiltIns,  \* names of the bot's own tools
          Configured,\* servers in files.mcp_json at the start
          Lazy       \* plugin.ai_chat_bot.mcp.lazy_load

McpAssumption ==
  /\ IsFiniteSet(Ops) /\ ToolsOf \in [Servers -> SUBSET Names] /\ BuiltIns \subseteq Names
  /\ Configured \subseteq Servers /\ Lazy \in BOOLEAN /\ {"none", "bot"} \cap Servers = {}
  /\ \A o \in Ops : o.kind \in {"add", "remove", "reconnect"} /\ o.server \in Servers

VARIABLES tools,    \* e.tools: who answers to a name
          managers, \* e.mcpManagers: the managers, as those who made them
          mgr,      \* mgr[m]: the client the manager has, and what it has cached
          open,     \* the clients whose connection is open
          config,   \* the servers of files.mcp_json
          step, cfg, old, \* of every call: where it is, the configuration it read, the client
                    \* or manager it found
          loaders,  \* the session's loader tools, by manager
          sess      \* the MCP tools the session has loaded

vars == <<tools, managers, mgr, open, config, step, cfg, old, loaders, sess>>

\* A client is made by a call, or at the start for each server of the configuration.
Boot(s)   == [kind |-> "start", server |-> s, n |-> 0]
Makers    == Ops \cup {Boot(s) : s \in Servers}
NoOne     == [kind |-> "none", server |-> "none", n |-> 0]
Own       == [kind |-> "bot", server |-> "bot", n |-> 0]

\* registerLocked: a name that is taken is skipped.
Register(ts, c) == [n \in Names |-> IF ts[n] = NoOne /\ n \in ToolsOf[c.server] THEN c ELSE ts[n]]

Booted(up) ==
  [n \in Names |-> IF n \in BuiltIns THEN Own
                   ELSE IF \E s \in up : n \in ToolsOf[s]
                   THEN Boot(CHOOSE s \in up : n \in ToolsOf[s]) ELSE NoOne]

\* Start-up connects what is configured; what fails is only logged.
Init ==
  \E up \in SUBSET Configured :
    /\ open = {Boot(s) : s \in up}
    /\ managers = (IF Lazy THEN {Boot(s) : s \in up} ELSE {})
    /\ tools = Booted(IF Lazy THEN {} ELSE up)
    /\ mgr = [m \in Makers |-> [client |-> m, cache |-> {}, busy |-> NoOne]]
    /\ config = Configured
    /\ step = [o \in Ops |-> "new"] /\ cfg = [o \in Ops |-> {}] /\ old = [o \in Ops |-> NoOne]
    /\ loaders = {} /\ sess = [n \in Names |-> NoOne]

\* hasMCPLocked: a manager of that name, or a tool of a client of that name.
Of(s)  == {m \in managers : m.server = s}
HasMCP(s) == Of(s) # {} \/ \E n \in Names : tools[n] # Own /\ tools[n].server = s

To(o, where) == step' = [step EXCEPT ![o] = where]
At(o, kind, where) == o.kind = kind /\ step[o] = where
sessVars == <<loaders, sess>>
-------------------------------------------------------------------------------
(* AddMCP: looked up under the read lock, connected, registered under the   *)
(* write lock, with no second look.                                         *)
AddChecks(o) ==
  /\ step[o] = "check"
  /\ To(o, IF HasMCP(o.server) THEN "refused" ELSE "connect")
  /\ UNCHANGED <<tools, managers, mgr, open, config, cfg, old, sessVars>>

Connect(o, next) ==
  /\ step[o] = "connect" \/ step[o] = "connect again"
  /\ \/ open' = open \cup {o} /\ To(o, next)
     \/ UNCHANGED open /\ To(o, "failed")

AddConnects(o) ==
  /\ step[o] = "connect" /\ Connect(o, "register")
  /\ UNCHANGED <<tools, managers, mgr, config, cfg, old, sessVars>>

AddRegisters(o) ==
  /\ step[o] = "register"
  /\ IF Lazy THEN managers' = managers \cup {o} /\ UNCHANGED tools
     ELSE tools' = Register(tools, o) /\ UNCHANGED managers
  /\ To(o, IF o.kind = "add" THEN "save" ELSE "done")
  /\ UNCHANGED <<mgr, open, config, cfg, old, sessVars>>

\* mcp_add: what it read of the configuration before it connected, it writes back with its own.
AddReads(o) ==
  /\ At(o, "add", "new")
  /\ cfg' = [cfg EXCEPT ![o] = config]
  /\ To(o, IF o.server \in config THEN "refused" ELSE "check")
  /\ UNCHANGED <<tools, managers, mgr, open, config, old, sessVars>>
AddSaves(o) ==
  /\ step[o] = "save"
  /\ \/ config' = cfg[o] \cup {o.server} /\ To(o, "done")
     \/ UNCHANGED config /\ To(o, "unregister")
  /\ UNCHANGED <<tools, managers, mgr, open, cfg, old, sessVars>>
-------------------------------------------------------------------------------
(* RemoveMCP, in one hold of the write lock: the first manager of the name, *)
(* or every tool of that name and the client of one of them.                *)
RemoveMCP(s) ==
  IF Of(s) # {}
  THEN \E m \in Of(s) : /\ managers' = managers \ {m} /\ open' = open \ {mgr[m].client}
                        /\ UNCHANGED tools
  ELSE LET mine == {n \in Names : tools[n].server = s} IN
       IF mine = {} THEN UNCHANGED <<tools, managers, open>>
       ELSE /\ \E n \in mine : open' = open \ {tools[n]}
            /\ tools' = [n \in Names |-> IF n \in mine THEN NoOne ELSE tools[n]]
            /\ UNCHANGED managers

Unregister(o) ==
  /\ step[o] = "unregister" /\ RemoveMCP(o.server) /\ To(o, "done")
  /\ UNCHANGED <<mgr, config, cfg, old, sessVars>>

\* mcp_remove: the configuration first.
RemoveReads(o) ==
  /\ At(o, "remove", "new")
  /\ cfg' = [cfg EXCEPT ![o] = config]
  /\ To(o, IF o.server \in config THEN "write" ELSE "refused")
  /\ UNCHANGED <<tools, managers, mgr, open, config, old, sessVars>>
RemoveWrites(o) ==
  /\ At(o, "remove", "write")
  /\ \/ config' = cfg[o] \ {o.server} /\ To(o, "unregister")
     \/ UNCHANGED config /\ To(o, "failed")
  /\ UNCHANGED <<tools, managers, mgr, open, cfg, old, sessVars>>
-------------------------------------------------------------------------------
(* ReconnectMCP.                                                           *)
\* The manager or a client of that name; if there is none, mcp_reconnect adds it from the
\* configuration.  A manager's own lock is held from here until it is connected.
ReconnectFinds(o) ==
  /\ At(o, "reconnect", "new")
  /\ IF Of(o.server) # {}
     THEN \E m \in Of(o.server) : old' = [old EXCEPT ![o] = m] /\ To(o, "lock")
     ELSE LET cs == {tools[n] : n \in Names} IN
          IF \E c \in cs : c.server = o.server
          THEN \E c \in cs : c.server = o.server /\ old' = [old EXCEPT ![o] = c]
                                /\ To(o, "connect again")
          ELSE UNCHANGED old /\ To(o, IF o.server \in config THEN "check" ELSE "refused")
  /\ UNCHANGED <<tools, managers, mgr, open, config, cfg, sessVars>>

LocksManager(o) ==
  /\ step[o] = "lock" /\ mgr[old[o]].busy = NoOne
  /\ mgr' = [mgr EXCEPT ![old[o]].busy = o] /\ To(o, "connect again")
  /\ UNCHANGED <<tools, managers, open, config, cfg, old, sessVars>>

ReconnectConnects(o) ==
  /\ step[o] = "connect again" /\ Connect(o, "swap")
  /\ mgr' = IF step'[o] = "failed" /\ mgr[old[o]].busy = o
            THEN [mgr EXCEPT ![old[o]].busy = NoOne] ELSE mgr
  /\ UNCHANGED <<tools, managers, config, cfg, old, sessVars>>

\* A manager gets its new client, whether or not it is still registered.
SwapManager(o) ==
  /\ step[o] = "swap" /\ mgr[old[o]].busy = o
  /\ mgr' = [mgr EXCEPT ![old[o]] = [client |-> o, cache |-> {}, busy |-> NoOne]]
  /\ open' = open \ {mgr[old[o]].client} /\ To(o, "done")
  /\ UNCHANGED <<tools, managers, config, cfg, old, sessVars>>

\* Mutant: when the tools were removed meanwhile the new client is not closed.
SwapToolsLeaving(o) ==
  /\ step[o] = "swap" /\ mgr[old[o]].busy # o
  /\ IF \E n \in Names : tools[n] = old[o]
     THEN /\ tools' = [n \in Names |-> IF n \in ToolsOf[o.server] THEN o
                                       ELSE IF tools[n] = old[o] THEN NoOne ELSE tools[n]]
          /\ open' = open \ {old[o]} /\ To(o, "done")
     ELSE To(o, "refused") /\ UNCHANGED <<tools, open>>
  /\ UNCHANGED <<managers, mgr, config, cfg, old, sessVars>>

\* Registered tools are exchanged if they are still the ones found; those of the new client
\* are put under their names whoever had them.
SwapTools(o) ==
  /\ step[o] = "swap" /\ mgr[old[o]].busy # o
  /\ IF \E n \in Names : tools[n] = old[o]
     THEN /\ tools' = [n \in Names |-> IF n \in ToolsOf[o.server] THEN o
                                       ELSE IF tools[n] = old[o] THEN NoOne ELSE tools[n]]
          /\ open' = open \ {old[o]} /\ To(o, "done")
     ELSE open' = open \ {o} /\ To(o, "refused") /\ UNCHANGED tools
  /\ UNCHANGED <<managers, mgr, config, cfg, old, sessVars>>
-------------------------------------------------------------------------------
(* One conversation's executor.                                            *)
NewSession ==
  /\ loaders # managers
  /\ loaders' = managers /\ sess' = [n \in Names |-> NoOne]
  /\ UNCHANGED <<tools, managers, mgr, open, config, step, cfg, old>>

\* mcp_load: from the manager's cache, or what it was told when it connected.
LoadTool(m, n) ==
  /\ m \in loaders /\ n \in ToolsOf[m.server] /\ mgr[m].busy = NoOne
  /\ mgr' = [mgr EXCEPT ![m].cache = @ \cup {<<n, mgr[m].client>>}]
  /\ sess' = [sess EXCEPT ![n] =
       IF \E c \in Makers : <<n, c>> \in mgr[m].cache
       THEN CHOOSE c \in Makers : <<n, c>> \in mgr[m].cache ELSE mgr[m].client]
  /\ UNCHANGED <<tools, managers, open, config, step, cfg, old, loaders>>

\* ClearDynamicMCPTools, when a conversation is cleared.
ClearLoaded == /\ sess # [n \in Names |-> NoOne] /\ sess' = [n \in Names |-> NoOne]
               /\ UNCHANGED <<tools, managers, mgr, open, config, step, cfg, old, loaders>>

\* resolveTool, and the definitions sent with a request (toolsWithSession).
ResolveTool(n) == IF sess[n] # NoOne THEN sess[n] ELSE tools[n]
Definitions == [n \in {x \in Names : sess[x] # NoOne \/ tools[x] # NoOne} |-> ResolveTool(n)]

Step(o) == \/ AddReads(o) \/ AddChecks(o) \/ AddConnects(o) \/ AddRegisters(o) \/ AddSaves(o)
           \/ Unregister(o) \/ RemoveReads(o) \/ RemoveWrites(o) \/ ReconnectFinds(o)
           \/ LocksManager(o) \/ ReconnectConnects(o) \/ SwapManager(o) \/ SwapTools(o)
Next == NewSession \/ ClearLoaded \/ (\E o \in Ops : Step(o))
        \/ \E m \in Makers, n \in Names : LoadTool(m, n)
Spec == Init /\ [][Next]_vars
-------------------------------------------------------------------------------
Over(o) == step[o] \in {"new", "done", "failed", "refused"}

Steps == {"new", "check", "connect", "register", "save", "write", "unregister", "lock",
          "connect again", "swap", "done", "failed", "refused"}
Managed == [client : Makers, cache : SUBSET (Names \X Makers), busy : Ops \cup {NoOne}]
TypeOK ==
  /\ tools \in [Names -> Makers \cup {NoOne, Own}] /\ sess \in [Names -> Makers \cup {NoOne}]
  /\ managers \cup loaders \cup open \subseteq Makers /\ config \subseteq Servers
  /\ mgr \in [Makers -> Managed]
  /\ step \in [Ops -> Steps] /\ cfg \in [Ops -> SUBSET Servers]
  /\ old \in [Ops -> Makers \cup {NoOne}]

\* A tool every conversation is offered has a connection, whoever reconnects or removes its
\* server meanwhile (toolexecuter.go:288, 369).
OfferedToolsWork ==
  /\ \A n \in Names : tools[n] \notin {NoOne, Own} => tools[n] \in open
  /\ \A m \in managers : mgr[m].client \in open

\* What a manager has cached is of its present client: after a reconnection nobody is given
\* a tool of the old one (mcp.go:304).
CacheIsCurrent == \A m \in Makers : \A e \in mgr[m].cache : e[2] = mgr[m].client

\* No connection is left open that nothing uses: no tool, no manager, no call in progress; if
\* every server offers a name that is only its own, and one call at most connects to it.
OwnNames(s) == {n \in ToolsOf[s] \ BuiltIns : \A z \in Servers : n \in ToolsOf[z] => z = s}
Apart ==
  /\ ~Lazy /\ \A s \in Servers : OwnNames(s) # {}
  /\ \A o, p \in Ops : "remove" \notin {o.kind, p.kind} /\ o.server = p.server => o = p
NoConnectionLeaks ==
  Apart => \A c \in open : \/ \E n \in Names : tools[n] = c
                           \/ \E m \in managers : mgr[m].client = c
                           \/ c \in Ops /\ ~Over(c)

\* Why these hold: one way of offering tools is in use; what a call has found and connected is
\* used by nothing but itself; a manager's client is its own, or of a call that found it.
After == {"save", "unregister", "done"}
OneWay ==
  /\ Lazy => \A n \in Names : tools[n] \in {NoOne, Own}
  /\ ~Lazy => /\ managers = {} /\ \A m \in Makers : mgr[m].busy = NoOne
              /\ \A o \in Ops : step[o] # "lock"
Kinds ==
  \A o \in Ops : o.kind = "remove" =>
    step[o] \in {"new", "write", "unregister", "done", "failed", "refused"}
FoundBefore ==
  \A o \in Ops :
    /\ step[o] \in {"lock", "connect again", "swap"} => old[o] \in Makers /\ old[o].server = o.server
    /\ step[o] \in {"new", "check", "connect", "register", "save"} => old[o] = NoOne
FoundBusy ==
  \A o \in Ops : Lazy /\ step[o] \in {"connect again", "swap"} => mgr[old[o]].busy = o
FoundFree ==
  \A o \in Ops : Lazy /\ old[o] \in Ops => step[old[o]] \in After /\ old[old[o]] = NoOne
Found == FoundBefore /\ FoundBusy /\ FoundFree
Connected == \A o \in Ops : step[o] \in {"register", "swap"} => o \in open
Used ==
  /\ \A n \in Names : tools[n] \in Ops => step[tools[n]] \in After
  /\ \A m \in managers : m \in Ops => step[m] \in After /\ old[m] = NoOne
  /\ \A m \in Ops : step[m] \notin After => mgr[m].client = m
  /\ \A m \in Makers : \/ mgr[m].client = m
                       \/ /\ mgr[m].client \in Ops /\ step[mgr[m].client] \in After
                          /\ old[mgr[m].client] = m
Named == \A n \in Names : /\ tools[n] \in Makers => n \in ToolsOf[tools[n].server]
                          /\ tools[n] = Own => n \in BuiltIns
Keep ==
  Apart =>
    /\ \A c \in open : \/ \A n \in OwnNames(c.server) : tools[n] = c
                       \/ c \in Ops /\ step[c] \in {"register", "swap"}
    /\ \A o \in Ops : step[o] \in {"connect", "register"} =>
         \A n \in Names : tools[n].server # o.server
IInv == /\ TypeOK /\ OneWay /\ Kinds /\ Found /\ Connected /\ Used /\ Named /\ Keep
        /\ OfferedToolsWork /\ CacheIsCurrent
-------------------------------------------------------------------------------
(* Claims of the sources that do not hold of this model.                   *)

\* "A taken name is skipped" (toolexecuter.go:32): a reconnection takes the bot's own names.
BuiltInsStay == \A n \in BuiltIns : tools[n] = Own

\* "Server already registered" (toolexecuter.go:256): two calls at once register it twice.
RegisteredOnce == \A s \in Servers : Cardinality(Of(s)) <= 1

\* A reconnection does not bring back a removed server (toolexecuter.go:369): a manager does.
RemovedIsClosed ==
  \A c \in open : Lazy => \/ \E m \in managers : mgr[m].client = c
                          \/ c \in Ops /\ ~Over(c)

\* "Stay consistent" (mcptool.go:143): when all calls are over, what runs is configured.
WhatRunsIsConfigured ==
  (\A o \in Ops : Over(o)) => \A m \in managers : m.server \in config
===============================================================================
