--------------------------------- MODULE Stores ---------------------------------
(***************************************************************************)
(* The two stores behind storage.Storage, the maps in memory (memory.go)    *)
(* and a redis server (redis.go), given the same calls; and the name spaces *)
(* of the persistent store (persistent_sql.go).  Clients see one interface  *)
(* and may be moved from one store to the other by configuration.           *)
(***************************************************************************)
EXTENDS Integers, Sequences, FiniteSets, SequencesExt

CONSTANTS Keys,     \* full keys: sequences of the parts that ":" separates
          KindOf,   \* KindOf[k]: what clients keep under k, a set of "string" and "list"
          Values,
          MaxLen,   \* bound: entries of a list
          MaxTime,  \* bound of the clock
          Careful   \* clients use the interface as the code of this repository does

StoresAssumption ==
  /\ IsFiniteSet(Keys) /\ KindOf \in [Keys -> SUBSET {"string", "list"}]
  /\ {MaxLen, MaxTime} \subseteq Nat /\ Careful \in BOOLEAN

VARIABLES now,
          strs, lists,  \* store.data, store.lists
          server,       \* the keys of the server
          last          \* what the last call returned: from memory, from the server

vars == <<now, strs, lists, server, last>>

NoItem == [on |-> FALSE, val |-> 0, exp |-> 0]
NoList == [on |-> FALSE, items |-> <<>>, exp |-> 0]
NoKey  == [kind |-> "none", val |-> <<>>, exp |-> 0]

Init ==
  /\ now = 0 /\ last = [mem |-> 1, red |-> 1]
  /\ strs = [k \in Keys |-> NoItem] /\ lists = [k \in Keys |-> NoList]
  /\ server = [k \in Keys |-> NoKey]

IsExpired(e) == e.exp # 0 /\ now > e.exp
Live(e)      == e.on /\ ~IsExpired(e)
Until(ttl)   == IF ttl > 0 THEN now + ttl ELSE 0

\* The server forgets what has expired before it looks at a key, and a list that is empty.
Kept(e) == IF e.kind = "none" \/ IsExpired(e) \/ (e.kind = "list" /\ e.val = <<>>)
           THEN NoKey ELSE e
On(k)   == Kept(server[k])
Put(k, kind, val, exp) ==
  server' = [server EXCEPT ![k] = Kept([kind |-> kind, val |-> val, exp |-> exp])]

Return(m, r) == last' = [mem |-> m, red |-> r]
Is(b) == IF b THEN 1 ELSE 0
-------------------------------------------------------------------------------
(* Strings.                                                                *)

GetString(k)    == IF Live(strs[k]) THEN strs[k].val ELSE 0
RedisGet(k)     == IF On(k).kind = "string" THEN On(k).val[1] ELSE 0

\* SetString, WithTTL and WithCheckExist; the server replaces whatever the key held.
SetString(k, v, ttl, nx) ==
  /\ "string" \in KindOf[k]
  /\ LET mem == ~(nx /\ Live(strs[k]))
         red == ~(nx /\ On(k).kind # "none") IN
     /\ IF mem THEN strs' = [strs EXCEPT ![k] = [on |-> TRUE, val |-> v, exp |-> Until(ttl)]]
               ELSE UNCHANGED strs
     /\ IF red THEN Put(k, "string", <<v>>, Until(ttl)) ELSE UNCHANGED server
     /\ Return(Is(mem), Is(red))
  /\ UNCHANGED <<now, lists>>

Del(k) ==
  /\ strs' = [strs EXCEPT ![k] = NoItem] /\ lists' = [lists EXCEPT ![k] = NoList]
  /\ server' = [server EXCEPT ![k] = NoKey] /\ Return(1, 1) /\ UNCHANGED now

\* Clear of the store cloned with a prefix.
Clear(prefix) ==
  LET gone == {k \in Keys : IsPrefix(prefix, k)} IN
  /\ strs'  = [k \in Keys |-> IF k \in gone THEN NoItem ELSE strs[k]]
  /\ lists' = [k \in Keys |-> IF k \in gone THEN NoList ELSE lists[k]]
  /\ server' = [k \in Keys |-> IF k \in gone THEN NoKey ELSE server[k]]
  /\ Return(1, 1) /\ UNCHANGED now

\* Expire looks for the entry, not for whether it is still alive.
Found(e) == e.on
Expire(k, ttl) ==
  /\ Careful => Live(strs[k])
  /\ IF Found(strs[k])
     THEN strs' = [strs EXCEPT ![k].exp = now + ttl] /\ UNCHANGED lists
     ELSE IF Found(lists[k])
     THEN lists' = [lists EXCEPT ![k].exp = now + ttl] /\ UNCHANGED strs
     ELSE UNCHANGED <<strs, lists>>
  /\ IF On(k).kind # "none" THEN Put(k, On(k).kind, On(k).val, now + ttl) ELSE UNCHANGED server
  /\ Return(Is(Found(strs[k]) \/ Found(lists[k])), Is(On(k).kind # "none"))
  /\ UNCHANGED now
-------------------------------------------------------------------------------
(* Lists.                                                                  *)

\* The list a push starts from.
Pushed(k) == IF Live(lists[k]) THEN lists[k] ELSE [NoList EXCEPT !.on = TRUE]

\* LPush, RPush: a push to a key that holds a string is refused by the server only.
Push(k, v, left) ==
  /\ "list" \in KindOf[k]
  /\ LET add(s) == IF left THEN <<v>> \o s ELSE Append(s, v)
         mem == [Pushed(k) EXCEPT !.items = add(@)]
         ok  == On(k).kind # "string" IN
     /\ Len(mem.items) <= MaxLen
     /\ lists' = [lists EXCEPT ![k] = mem]
     /\ IF ok THEN Put(k, "list", add(On(k).val), On(k).exp) ELSE UNCHANGED server
     /\ Return(Len(mem.items), IF ok THEN Len(add(On(k).val)) ELSE 0)
  /\ UNCHANGED <<now, strs>>

\* LPop, RPop.
Pop(k, left) ==
  /\ "list" \in KindOf[k]
  /\ LET end(s)  == IF left THEN Head(s) ELSE Last(s)
         rest(s) == IF left THEN Tail(s) ELSE Front(s)
         mem == Live(lists[k]) /\ lists[k].items # <<>>
         red == On(k).kind = "list" IN
     /\ IF mem THEN lists' = [lists EXCEPT ![k].items = rest(@)] ELSE UNCHANGED lists
     /\ IF red THEN Put(k, "list", rest(On(k).val), On(k).exp) ELSE UNCHANGED server
     /\ Return(IF mem THEN end(lists[k].items) ELSE 0, IF red THEN end(On(k).val) ELSE 0)
  /\ UNCHANGED <<now, strs>>

\* The indices of LRange and LTrim: negative ones count from the end.
From(n, i) == LET j == IF i < 0 THEN n + i ELSE i IN IF j < 0 THEN 0 ELSE j
To(n, i) == LET j == IF i < 0 THEN n + i ELSE i IN IF j >= n THEN n - 1 ELSE j
Slice(s, start, stop) == SubSeq(s, From(Len(s), start) + 1, To(Len(s), stop) + 1)
\* What redis does: the entries whose index, from either end, is within.
RedisSlice(s, start, stop) ==
  LET n == Len(s)
      within(i) == /\ IF start >= 0 THEN i - 1 >= start ELSE i - 1 - n >= start
                   /\ IF stop >= 0 THEN i - 1 <= stop ELSE i - 1 - n <= stop
      in == {i \in 1..n : within(i)}
  IN [i \in 1..Cardinality(in) |-> s[CHOOSE j \in in : Cardinality({x \in in : x <= j}) = i]]

\* LRange: the entries, and whether there is a list: one that was emptied is none in memory,
\* and to the server every key without a string is a list.
LRange(k, start, stop) ==
  IF Live(lists[k]) /\ lists[k].items # <<>>
  THEN [items |-> Slice(lists[k].items, start, stop), ok |-> TRUE]
  ELSE [items |-> <<>>, ok |-> FALSE]
RedisRange(k, start, stop) ==
  IF On(k).kind = "string" THEN [items |-> <<>>, ok |-> FALSE]
  ELSE [items |-> RedisSlice(On(k).val, start, stop), ok |-> TRUE]
LLen(k) == IF Live(lists[k]) THEN Len(lists[k].items) ELSE 0
LIndex(k, i) == IF Live(lists[k]) /\ i >= 0 /\ i < Len(lists[k].items)
                THEN lists[k].items[i + 1] ELSE 0
RedisIndex(k, i) == LET s == RedisRange(k, i, i).items IN IF s = <<>> THEN 0 ELSE s[1]

LTrim(k, start, stop) ==
  /\ "list" \in KindOf[k]
  /\ IF Live(lists[k]) THEN lists' = [lists EXCEPT ![k].items = Slice(@, start, stop)]
                       ELSE UNCHANGED lists
  /\ IF On(k).kind = "list"
     THEN Put(k, "list", RedisSlice(On(k).val, start, stop), On(k).exp) ELSE UNCHANGED server
  /\ Return(1, 1) /\ UNCHANGED <<now, strs>>

LSet(k, i, v) ==
  /\ "list" \in KindOf[k]
  /\ LET mem == Live(lists[k]) /\ i >= 0 /\ i < Len(lists[k].items)
         n   == Len(On(k).val)
         j   == IF i < 0 THEN n + i ELSE i
         red == On(k).kind = "list" /\ j >= 0 /\ j < n IN
     /\ IF mem THEN lists' = [lists EXCEPT ![k].items[i + 1] = v] ELSE UNCHANGED lists
     /\ IF red THEN Put(k, "list", [On(k).val EXCEPT ![j + 1] = v], On(k).exp)
               ELSE UNCHANGED server
     /\ Return(Is(mem), Is(red))
  /\ UNCHANGED <<now, strs>>

\* LRem: removes the first count entries that equal v, the last ones if count is
\* negative, and all if it is 0: the loops, with the copy that is turned round.
WithoutFirst(s, count, v) ==
  FoldLeft(LAMBDA acc, x : IF x = v /\ acc.removed < count
                           THEN [acc EXCEPT !.removed = @ + 1]
                           ELSE [acc EXCEPT !.kept = Append(@, x)],
           [removed |-> 0, kept |-> <<>>], s).kept
Removed(s, count, v) ==
  IF count = 0 THEN SelectSeq(s, LAMBDA x : x # v)
  ELSE IF count > 0 THEN WithoutFirst(s, count, v)
  ELSE Reverse(WithoutFirst(Reverse(s), -count, v))
\* What redis does: of the entries that equal v, those that have fewer than count
\* others before them (behind them) go.
RedisRemoved(s, count, v) ==
  LET same(i) == {j \in 1..Len(s) : s[j] = v /\ IF count > 0 THEN j < i ELSE j > i}
      n       == IF count < 0 THEN -count ELSE count
      stays   == {i \in 1..Len(s) : s[i] # v \/ (count # 0 /\ Cardinality(same(i)) >= n)}
  IN [i \in 1..Cardinality(stays) |->
        s[CHOOSE j \in stays : Cardinality({x \in stays : x <= j}) = i]]

LRem(k, count, v) ==
  /\ "list" \in KindOf[k]
  /\ LET mem == IF Live(lists[k]) THEN Removed(lists[k].items, count, v) ELSE <<>>
         red == RedisRemoved(On(k).val, count, v) IN
     /\ On(k).kind # "string"
     /\ IF Live(lists[k]) THEN lists' = [lists EXCEPT ![k].items = mem] ELSE UNCHANGED lists
     /\ IF On(k).kind = "list" THEN Put(k, "list", red, On(k).exp) ELSE UNCHANGED server
     /\ Return(LLen(k) - Len(mem), Len(On(k).val) - Len(red))
  /\ UNCHANGED <<now, strs>>
-------------------------------------------------------------------------------
(* Scanning.                                                               *)

\* ScanKeys: expired entries are cleaned, then the strings are listed up to count, and
\* the loop over the lists tests the limit only behind its first entry.
Scanned(count) ==
  LET s == {k \in Keys : Live(strs[k])}
      l == {k \in Keys : Live(lists[k])}
  IN IF count = 0 \/ Cardinality(s \cup l) < count THEN {s \cup l}
     ELSE IF Cardinality(s) < count
     THEN {s \cup y : y \in {z \in SUBSET (l \ s) : Cardinality(z) = count - Cardinality(s)}}
     ELSE UNION {IF l = {} THEN {x} ELSE {x \cup {k} : k \in l} :
                   x \in {z \in SUBSET s : Cardinality(z) = count}}
RedisScanned(count) ==
  LET all == {k \in Keys : On(k).kind # "none"}
  IN IF count = 0 \/ Cardinality(all) <= count THEN {all}
     ELSE {z \in SUBSET all : Cardinality(z) = count}
ScanKeys ==
  /\ strs'  = [k \in Keys |-> IF IsExpired(strs[k]) THEN NoItem ELSE strs[k]]
  /\ lists' = [k \in Keys |-> IF IsExpired(lists[k]) THEN NoList ELSE lists[k]]
  /\ Return(1, 1) /\ UNCHANGED <<now, server>>

Tick == now < MaxTime /\ now' = now + 1 /\ UNCHANGED <<strs, lists, server, last>>

Indices == IF Careful THEN 0..MaxLen ELSE -2..MaxLen
Next ==
  \/ \E k \in Keys :
       \/ \E v \in Values, ttl \in {0, 1}, nx \in BOOLEAN : SetString(k, v, ttl, nx)
       \/ Del(k) \/ Expire(k, 1)
       \/ \E left \in BOOLEAN : Pop(k, left) \/ \E v \in Values : Push(k, v, left)
       \/ \E i, j \in -2..MaxLen : LTrim(k, i, j)
       \/ \E v \in Values : \/ \E c \in -1..1 : LRem(k, c, v)
                            \/ \E i \in Indices : LSet(k, i, v)
  \/ \E k \in Keys : Clear(Front(k))
  \/ ScanKeys \/ Tick

Spec == Init /\ [][Next]_vars
-------------------------------------------------------------------------------
(* Patterns and name spaces: functions of their arguments.                 *)

\* The pieces of a pattern between its stars.
Pieces(p) == FoldLeft(LAMBDA acc, c : IF c = "*" THEN Append(acc, <<>>)
                                      ELSE [acc EXCEPT ![Len(acc)] = Append(@, c)],
                      <<<<>>>>, p)
\* The rest of s behind the first place where piece is found.
Places(s, piece) == {i \in 0..(Len(s) - Len(piece)) : SubSeq(s, i + 1, i + Len(piece)) = piece}
Behind(s, piece) == LET i == CHOOSE i \in Places(s, piece) : \A j \in Places(s, piece) : i <= j
                    IN SubSeq(s, i + Len(piece) + 1, Len(s))
Ends(s, first, end) == /\ IsPrefix(first, s)
                       /\ IsSuffix(end, SubSeq(s, Len(first) + 1, Len(s)))
MatchPattern(s, pattern) ==
  LET ps == Pieces(pattern)
      first == ps[1]
      end == Last(ps)
      middle == SubSeq(s, Len(first) + 1, Len(s) - Len(end))
      rest == FoldLeft(LAMBDA acc, p : IF acc.ok /\ Places(acc.s, p) # {}
                                       THEN [acc EXCEPT !.s = Behind(@, p)]
                                       ELSE [acc EXCEPT !.ok = FALSE],
                       [ok |-> TRUE, s |-> middle], SubSeq(ps, 2, Len(ps) - 1))
  IN IF Len(ps) = 1 THEN s = pattern ELSE Ends(s, first, end) /\ rest.ok

\* What a star means: f[i, j] says whether the last i of s match the last j of pattern.
Glob(s, pattern) ==
  LET f[i \in 0..Len(s), j \in 0..Len(pattern)] ==
        IF j = 0 THEN i = 0
        ELSE LET c == pattern[Len(pattern) - j + 1] IN
             IF c = "*" THEN f[i, j - 1] \/ (i > 0 /\ f[i - 1, j])
             ELSE i > 0 /\ s[Len(s) - i + 1] = c /\ f[i - 1, j - 1]
  IN f[Len(s), Len(pattern)]

\* prefixRange of persistent_sql.go, on strings of bytes; top stands for 0xFF.
Below(a, b) == \E n \in 0..Len(a) : /\ n < Len(b) /\ SubSeq(a, 1, n) = SubSeq(b, 1, n)
                                    /\ n = Len(a) \/ a[n + 1] < b[n + 1]
PrefixRange(p, top) ==
  IF p = <<>> \/ Last(p) = top THEN [ok |-> FALSE, lo |-> p, hi |-> <<>>]
  ELSE [ok |-> TRUE, lo |-> p, hi |-> [p EXCEPT ![Len(p)] = @ + 1]]
\* Clear of the persistent store: everything, a range, or one name space after another.
Cleared(spaces, p, top) ==
  LET r == PrefixRange(p, top) IN
  IF p = <<>> THEN spaces
  ELSE IF r.ok THEN {n \in spaces : ~Below(n, r.lo) /\ Below(n, r.hi)}
  ELSE {n \in spaces : IsPrefix(p, n)}
-------------------------------------------------------------------------------
TypeOK ==
  /\ now \in 0..MaxTime
  /\ \A k \in Keys : strs[k].on => strs[k].val \in Values
  /\ \A k \in Keys : Range(lists[k].items) \subseteq Values /\ Len(lists[k].items) <= MaxLen
  /\ \A k \in Keys : server[k].kind \in {"none", "string", "list"}

\* A list that was emptied stays in the map, and is listed by ScanKeys.
Emptied == {k \in Keys : Live(lists[k]) /\ lists[k].items = <<>>}

\* memory.go and redis.go: for clients that keep one kind of value under a key and
\* extend only what is there, both stores return the same and hold the same: strings, the
\* ranges of lists, their lengths, and the keys, but for the lists that were emptied, which
\* memory lists; and whether there is a list, if it has an entry.
StoresAgree ==
  Careful =>
    /\ last.mem = last.red
    /\ \A keys \in Scanned(0) : RedisScanned(0) = {keys \ Emptied}
    /\ \A k \in Keys :
         /\ GetString(k) = RedisGet(k)
         /\ "list" \in KindOf[k] =>
              /\ LLen(k) = Len(On(k).val)
              /\ \A i, j \in -2..MaxLen :
                   /\ LRange(k, i, j).items = RedisRange(k, i, j).items
                   /\ LLen(k) > 0 => LRange(k, i, j).ok = RedisRange(k, i, j).ok
              /\ \A i \in 0..MaxLen : LIndex(k, i) = RedisIndex(k, i)
-------------------------------------------------------------------------------
(* Claims of the sources that do not hold of this model.                   *)

\* One interface stands for both stores (storage.go): any client sees the same.
AnyClientAgrees == last.mem = last.red

\* The limit is an upper bound of the results, as in memory (redis.go:140).
ScanIsLimited == \A c \in 1..2 : \A z \in Scanned(c) : Cardinality(z) <= c

\* ScanKeys and LRange of a list without entries, or of none, answer alike in both stores.
EmptyListsAgree ==
  Careful => /\ Scanned(0) = RedisScanned(0)
             /\ \A k \in Keys : "list" \in KindOf[k] => LRange(k, 0, -1) = RedisRange(k, 0, -1)
-------------------------------------------------------------------------------

\* matchPattern: "*" stands for any string, and nothing else does.
PatternsAreGlobs ==
  \A s \in UNION {[1..n -> {"a", "b"}] : n \in 0..4} :
    \A p \in UNION {[1..n -> {"a", "b", "*"}] : n \in 0..4} :
      MatchPattern(s, p) <=> Glob(s, p)

\* Clear, prefixRange: exactly a name space and those below it are cleared.
ClearIsExact ==
  LET spaces == UNION {[1..n -> 0..2] : n \in 0..3} IN
  \A p \in spaces : Cleared(spaces, p, 2) = {n \in spaces : IsPrefix(p, n)}
================================================================================
