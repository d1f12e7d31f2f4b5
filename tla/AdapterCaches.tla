------------------------------ MODULE AdapterCaches ------------------------------
(***************************************************************************)
(* What adapters keep of their platform's messages: msgCache (telegram,      *)
(* weixin, discord and qqofficial history.go), the last messages of the last *)
(* chats, with an index by message id where ids are unique (qqofficial); and *)
(* contextTokenStore (weixin account.go), written by the poll loop.         *)
(***************************************************************************)
EXTENDS Naturals, Sequences, FiniteSets, SequencesExt

CONSTANTS Chats, MaxIds,    \* ids are numbers, later messages have greater ones
          PerChat, MaxChats, \* msgCachePerChat, msgCacheMaxChats
          Repeats,          \* whether a message may be pushed twice
          Refetches,        \* whether GetMsgDetail puts what it fetched into the cache
          MaxTokens         \* bound: tokens set

CachesAssumption ==
  /\ {PerChat, MaxChats} \subseteq Nat \ {0} /\ {MaxIds, MaxTokens} \subseteq Nat
  /\ {Repeats, Refetches} \subseteq BOOLEAN

VARIABLES msgs,    \* of each chat, newest first
          recent,  \* the chats in the cache, by lastPush, newest first
          index,   \* idIndex: pairs of a message and its chat
          born,    \* the chat of each message so far
          tokens   \* contextTokenStore

cacheVars == <<msgs, recent, index, born>>
vars == <<cacheVars, tokens>>

Init ==
  /\ msgs = [c \in Chats |-> <<>>] /\ recent = <<>> /\ index = {} /\ born = <<>>
  /\ tokens = [mem |-> 0, dirty |-> FALSE, copy |-> 0, writes |-> FALSE, disk |-> 0,
               failed |-> FALSE]
-------------------------------------------------------------------------------
\* Push: the entries of forgotten messages, whatever chat they name.
Unindexed(gone) == {p \in index : p[1] \notin gone}

\* Push: on top, the rest cut; a chat too many goes, with what the index has of it.
Push(id, c) ==
  LET list  == <<id>> \o msgs[c]
      kept  == SubSeq(list, 1, IF Len(list) > PerChat THEN PerChat ELSE Len(list))
      cut   == Range(SubSeq(list, PerChat + 1, Len(list)))
      order == <<c>> \o SelectSeq(recent, LAMBDA d : d # c)
      with  == {p \in Unindexed(cut) : p[1] # id} \cup {<<id, c>>}
  IN IF Len(order) <= MaxChats
     THEN /\ msgs' = [msgs EXCEPT ![c] = kept] /\ recent' = order /\ index' = with
     ELSE LET old == Last(order)
              gone == Range(msgs[old])
          IN /\ msgs' = [msgs EXCEPT ![c] = kept, ![old] = <<>>]
             /\ recent' = SelectSeq(order, LAMBDA d : d # old)
             /\ index' = {p \in with : p[1] \notin gone}

\* handleMessage, onGroupMessage, onC2CMessage, cacheSent
NewMessage ==
  /\ Len(born) < MaxIds
  /\ \E c \in Chats : born' = Append(born, c) /\ Push(Len(born) + 1, c)
  /\ UNCHANGED tokens

\* A platform pushes a message again.
Repeat ==
  /\ Repeats /\ \E id \in DOMAIN born : Push(id, born[id])
  /\ UNCHANGED <<born, tokens>>

\* GetMsgDetail (discord): what is not in the cache is fetched and pushed.
Refetch ==
  /\ Refetches
  /\ \E id \in DOMAIN born : ~Contains(msgs[born[id]], id) /\ Push(id, born[id])
  /\ UNCHANGED <<born, tokens>>

\* Find, by the index and the list of the chat it names.
Find(id) == \E p \in index : p[1] = id /\ Contains(msgs[p[2]], id)

\* History
History(c, count) ==
  SubSeq(msgs[c], 1, IF count = 0 \/ count > Len(msgs[c]) THEN Len(msgs[c]) ELSE count)
-------------------------------------------------------------------------------
(* contextTokenStore.                                                      *)

SetToken ==
  /\ tokens.mem < MaxTokens
  /\ tokens' = [tokens EXCEPT !.mem = @ + 1, !.dirty = TRUE]
  /\ UNCHANGED cacheVars

\* flush: copied and marked clean under the lock, written outside of it.
Flush ==
  /\ ~tokens.writes
  /\ tokens' = [tokens EXCEPT !.copy = tokens.mem, !.writes = tokens.dirty, !.dirty = FALSE]
  /\ UNCHANGED cacheVars

Written(t) == t

WriteTokens ==
  /\ tokens.writes
  /\ \/ tokens' = Written([tokens EXCEPT !.writes = FALSE, !.disk = tokens.copy,
                                        !.failed = FALSE])
     \/ tokens' = [tokens EXCEPT !.writes = FALSE, !.failed = TRUE]
  /\ UNCHANGED cacheVars
-------------------------------------------------------------------------------
Next == NewMessage \/ Repeat \/ Refetch \/ SetToken \/ Flush \/ WriteTokens

Spec == Init /\ [][Next]_vars
-------------------------------------------------------------------------------
TypeOK ==
  /\ \A c \in Chats : Range(msgs[c]) \subseteq 1..MaxIds
  /\ Range(recent) \subseteq Chats /\ index \subseteq (1..MaxIds) \X Chats
  /\ {tokens.mem, tokens.disk, tokens.copy} \subseteq 0..MaxTokens

\* However chats and messages come, the cache is bounded; the index names no message the
\* lists do not hold and, if none comes twice, all of them; if none is fetched again
\* either, a history is newest first.
CacheIsExact ==
  /\ \A c \in Chats : Len(msgs[c]) <= PerChat /\ (msgs[c] # <<>> <=> Contains(recent, c))
  /\ Len(recent) <= MaxChats
  /\ \A p \in index : Contains(msgs[p[2]], p[1])
  /\ ~Repeats =>
       \A id \in DOMAIN born : Contains(msgs[born[id]], id) => Find(id)
  /\ ~Repeats /\ ~Refetches =>
       \A c \in Chats : \A i, j \in DOMAIN msgs[c] : i < j => msgs[c][i] > msgs[c][j]

\* definition.go has the platform push a message again; when its older copy is cut, the
\* index loses the newer one, and GetMsgDetail does not find what the cache holds.
FindsWhatItHolds == \A id \in DOMAIN born : Contains(msgs[born[id]], id) => Find(id)

\* history.go says a history is newest first: what is fetched again goes on top.
NewestFirst ==
  \A c \in Chats : \A i, j \in DOMAIN msgs[c] : i < j => msgs[c][i] > msgs[c][j]

\* A token that is set while the store is being written is not taken for written.
TokensReachDisk == ~tokens.dirty /\ ~tokens.writes /\ ~tokens.failed => tokens.disk = tokens.mem
================================================================================
