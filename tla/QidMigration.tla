------------------------------ MODULE QidMigration ------------------------------
(***************************************************************************)
(* The start-up migration of bare QQ numbers to "qq:" identifiers           *)
(* (core/qid_migration.go).  The tables are converted one after the other,  *)
(* row by row, every statement on its own, with no transaction: the rows of *)
(* a table are read first, and each is rewritten as it was read.  Whatever   *)
(* fails, the program only logs it, starts, and migrates again next time; a *)
(* table whose existence cannot be asked is passed over.                    *)
(***************************************************************************)
EXTENDS Naturals, Sequences, FiniteSets

CONSTANTS Tables,     \* those that exist, of "kv" "session" "message" "memory" "doc" "log"
          InValue,    \* those whose rows also hold identifiers beside their key
          MaxStarts,  \* bound: starts of the program
          MaxWrites   \* bound: rows the program writes between two migrations

QidAssumption ==
  /\ Tables \subseteq {"kv", "session", "message", "memory", "doc", "log"}
  /\ InValue \subseteq Tables \cap {"kv", "memory", "log"}
  /\ {MaxStarts, MaxWrites} \subseteq Nat

VARIABLES rows,    \* rows[t][f]: the row of table t under the old or the new key
          origin,  \* what the rows held before the first migration
          stage,   \* the table under migration: an index of Order; 0: none; beyond: all done
          todo,    \* the keys it read and has not come to
          asRead,  \* the rows as it read them
          passed,  \* the tables this migration has passed over
          half,    \* the value is copied over, the row it comes from still there
          starts, running, writes

vars == <<rows, origin, stage, todo, asRead, passed, half, starts, running, writes>>

\* A row's data is where it was born; ids tells whether identifiers in it are converted: an odd
\* one is a rule of a group that is rewritten more than once (migrateGroupUserRule).
NoRow  == [tag |-> "none", ids |-> "new"]
Row(t) == {NoRow} \cup [tag : {"bornOld", "bornNew"},
                        ids : CASE t = "kv" /\ t \in InValue -> {"old", "odd", "new"}
                                [] t # "kv" /\ t \in InValue -> {"old", "new"}
                                [] OTHER -> {"new"}]
Nothing == [t \in Tables |-> [f \in {"old", "new"} |-> NoRow]]
\* What a row is rewritten to.
Converted(r) == {[r EXCEPT !.ids = i] : i \in IF r.ids = "odd" THEN {"odd", "new"} ELSE {"new"}}

\* The rows of a log are found by their number: only what they hold changes.
Keyed(t) == t # "log"

\* What a table may hold at first: a row under the old key, the new one, both or neither.
Begins(t) == {r \in [{"old", "new"} -> Row(t)] :
                /\ r["old"].tag # "bornNew" /\ r["new"].tag # "bornOld"
                /\ Keyed(t) \/ r["new"] = NoRow}

Init ==
  /\ rows \in {r \in [Tables -> UNION {Begins(t) : t \in Tables}] :
                 \A t \in Tables : r[t] \in Begins(t)}
  /\ origin = rows
  /\ stage = 0 /\ todo = {} /\ asRead = Nothing /\ passed = {} /\ half = FALSE
  /\ starts = 0 /\ running = FALSE /\ writes = 0

Holds(t, f) == rows[t][f] # NoRow

\* migrateQQIDPrefix's order; the session and message tables are one stage, whose list is of
\* sessions of either table, and each of them has its session row done before its messages.
Order == <<{"kv"}, {"session", "message"}, {"memory"}, {"doc"}, {"log"}>>

\* What the SELECTs of the stage return: the keys under which a table of it that is found has
\* a row.
Read(i, tabs) ==
  {x \in tabs \X {"old", "new"} :
     IF i = 2 THEN x[2] = "old" /\ \E t \in tabs : Holds(t, "old") ELSE Holds(x[1], x[2])}

\* The stage begins: tableExists answers that there is no table when it fails.
Enter(i) ==
  /\ stage' = i /\ asRead' = rows
  /\ \E tabs \in SUBSET (Order[i] \cap Tables) :
       /\ i = 1 => tabs = Order[i] \cap Tables
       /\ todo' = Read(i, tabs)
       /\ passed' = (IF i = 1 THEN {} ELSE passed) \cup ((Order[i] \cap Tables) \ tabs)

\* Does the loop leave a row alone: nothing of it would be rewritten.
Settled(t, f, row) == (f = "new" \/ ~Keyed(t)) /\ row.ids = "new"
Skipped(t, f) == Settled(t, f, asRead[t][f])

Turn(t, f) == /\ ~half /\ <<t, f>> \in todo
              /\ t = "message" => <<"session", f>> \notin todo

Done(t, f) == todo' = todo \ {<<t, f>>}
-------------------------------------------------------------------------------
\* The program starts and the migration reads its first table.
Start ==
  /\ ~running /\ stage = 0 /\ starts < MaxStarts
  /\ starts' = starts + 1 /\ Enter(1) /\ half' = FALSE
  /\ UNCHANGED <<rows, origin, running, writes>>

\* A table is done; a table that does not exist has nothing to read.
NextTable ==
  /\ stage \in DOMAIN Order /\ todo = {} /\ ~half
  /\ IF stage < Len(Order) THEN Enter(stage + 1) /\ UNCHANGED running
     ELSE stage' = stage + 1 /\ running' = TRUE /\ asRead' = Nothing /\ UNCHANGED <<todo, passed>>
  /\ UNCHANGED <<rows, origin, half, starts, writes>>

Skip(t, f) ==
  /\ Turn(t, f) /\ Skipped(t, f)
  /\ Done(t, f) /\ UNCHANGED <<rows, origin, stage, asRead, passed, half, starts, running, writes>>

\* UPDATE of the key, of the identifiers beside it, or of both, to what was read, rewritten;
\* a session that has no row in this table has nothing to update.
ConvertedKey(t) == IF Keyed(t) THEN "new" ELSE "old"
Rewrite(t, f) ==
  /\ Turn(t, f) /\ ~Skipped(t, f)
  /\ (f = "old" /\ Keyed(t)) => ~Holds(t, "new")
  /\ \E row \in Converted(asRead[t][f]) :
       rows' = [rows EXCEPT ![t] =
         [g \in {"old", "new"} |->
            IF g = (IF f = "old" THEN ConvertedKey(t) ELSE f) THEN row
            ELSE IF g = f THEN NoRow ELSE rows[t][g]]]
  /\ Done(t, f) /\ UNCHANGED <<origin, stage, asRead, passed, half, starts, running, writes>>

\* The new key is taken.  The tables keep its row; so does ania_kv unless the old value
\* holds identifiers, which is then written over the new one first (migrateKVRows).
CopyOver(t) ==
  /\ Turn(t, "old") /\ t = "kv" /\ Holds(t, "new") /\ asRead[t]["old"].ids # "new"
  /\ \E row \in Converted(asRead[t]["old"]) : rows' = [rows EXCEPT ![t]["new"] = row]
  /\ half' = TRUE /\ UNCHANGED <<origin, stage, todo, asRead, passed, starts, running, writes>>

DropOld(t) ==
  /\ <<t, "old">> \in todo /\ Keyed(t) /\ Holds(t, "new")
  /\ half \/ (Turn(t, "old") /\ ~(t = "kv" /\ asRead[t]["old"].ids # "new"))
  /\ half => t = "kv"
  /\ rows' = [rows EXCEPT ![t]["old"] = NoRow]
  /\ half' = FALSE /\ Done(t, "old")
  /\ UNCHANGED <<origin, stage, asRead, passed, starts, running, writes>>

\* A statement or a query fails, or an UPDATE to a key that is taken but could not be looked up:
\* the migration returns, the program starts all the same.
Ends == stage' = 0 /\ todo' = {} /\ asRead' = Nothing /\ passed' = {} /\ half' = FALSE
Fails ==
  /\ stage \in DOMAIN Order /\ starts < MaxStarts
  /\ Ends /\ running' = TRUE /\ UNCHANGED <<rows, origin, starts, writes>>

\* The process ends, in the middle of the migration or later.
Stop ==
  /\ stage # 0 \/ running
  /\ starts < MaxStarts
  /\ Ends /\ running' = FALSE /\ UNCHANGED <<rows, origin, starts, writes>>

\* The program, which knows only the new identifiers, writes a row it does not find.
Write(t) ==
  /\ running /\ Keyed(t) /\ ~Holds(t, "new") /\ writes < MaxWrites
  /\ rows' = [rows EXCEPT ![t]["new"] = [tag |-> "bornNew", ids |-> "new"]]
  /\ writes' = writes + 1 /\ UNCHANGED <<origin, stage, todo, asRead, passed, half, starts, running>>

Step == Start \/ NextTable \/ \E t \in Tables : \/ CopyOver(t) \/ DropOld(t)
                                                \/ \E f \in {"old", "new"} : Skip(t, f) \/ Rewrite(t, f)
Next == Step \/ Fails \/ Stop \/ \E t \in Tables : Write(t)
Spec == Init /\ [][Next]_vars
-------------------------------------------------------------------------------
TypeOK ==
  /\ rows \in [Tables -> [{"old", "new"} -> UNION {Row(t) : t \in Tables}]]
  /\ \A t \in Tables : rows[t] \in [{"old", "new"} -> Row(t)] /\ origin[t] \in Begins(t)
  /\ \A t \in Tables : asRead[t] \in [{"old", "new"} -> Row(t)]
  /\ asRead \in [Tables -> [{"old", "new"} -> UNION {Row(t) : t \in Tables}]]
  /\ stage \in 0..(Len(Order) + 1) /\ todo \subseteq Tables \X {"old", "new"} /\ passed \subseteq Tables
  /\ {half, running} \subseteq BOOLEAN /\ starts \in 0..MaxStarts /\ writes \in 0..MaxWrites

\* Another run would not touch the row, unless it is a rule that was odd from the beginning.
AtRest(t, f) ==
  /\ f = "new" \/ ~Keyed(t)
  /\ \/ rows[t][f].ids = "new"
     \/ rows[t][f].ids = "odd" /\ \E g \in {"old", "new"} : origin[t][g].ids = "odd"

\* However often the migration was cut short before, and whatever has been written over what,
\* when a table has been gone through no row of it is left that another run would touch
\* (qid_migration.go:78, 494, 580, 634, 683), if the table was found and but for odd rules.
Converges ==
  \A i \in DOMAIN Order : stage > i =>
    \A t \in (Order[i] \cap Tables) \ passed, f \in {"old", "new"} : Holds(t, f) => AtRest(t, f)

\* No row vanishes: under one key or the other, what was there is there, unless the new key
\* had a row of its own; and the row under a new key is never replaced by a migrated one,
\* except in ania_kv (qid_migration.go:109, 554, 615, 667).
NothingVanishes ==
  \A t \in Tables :
    LET had == \E f \in {"old", "new"} : origin[t][f] # NoRow
        has == \E f \in {"old", "new"} : Holds(t, f) IN
    /\ had => has
    /\ (t # "kv" /\ origin[t]["new"] # NoRow) => rows[t]["new"].tag = "bornNew"
    /\ (Holds(t, "new") /\ rows[t]["new"].tag = "bornOld") => origin[t]["old"].tag = "bornOld"

\* Why these hold: rows only move from the old key to the new one, also those that were read;
\* what the migration has not come to is as it read it, or copied over; what it has to rewrite of
\* the table it has read; and a value that is copied over is converted.
RowsMoveOn ==
  \A t \in Tables :
    /\ \A r \in {rows[t], asRead[t]} :
         /\ r["old"].tag # "bornNew"
         /\ r["old"] # NoRow => origin[t]["old"].tag = "bornOld"
         /\ r["new"].tag = "bornOld" => origin[t]["old"].tag = "bornOld"
         /\ Keyed(t) \/ r["new"] = NoRow
         /\ \A f \in {"old", "new"} :
              r[f].ids = "odd" => \E g \in {"old", "new"} : origin[t][g].ids = "odd"
ItemsAreRows ==
  \A t \in Tables, f \in {"old", "new"} : <<t, f>> \in todo =>
    /\ asRead[t][f] = rows[t][f] \/ (t = "kv" /\ f = "new" /\ AtRest(t, f))
    /\ stage # 2 => asRead[t][f] # NoRow /\ Holds(t, f)
    /\ stage = 2 => f = "old"
TodoIsRead ==
  /\ running => stage \in {0, Len(Order) + 1}
  /\ \A x \in todo : stage \in DOMAIN Order /\ x[1] \in Order[stage] \ passed
  /\ stage \in DOMAIN Order =>
       \A t \in (Order[stage] \cap Tables) \ passed, f \in {"old", "new"} :
         Holds(t, f) => AtRest(t, f) \/ <<t, f>> \in todo
  /\ \A t \in passed : \E i \in DOMAIN Order : t \in Order[i] /\ i <= stage
CopyIsConverted ==
  half => /\ <<"kv", "old">> \in todo /\ Holds("kv", "new") /\ AtRest("kv", "new")
IInv == /\ TypeOK /\ RowsMoveOn /\ ItemsAreRows /\ TodoIsRead /\ CopyIsConverted
        /\ Converges /\ NothingVanishes
-------------------------------------------------------------------------------
(* Claims of the sources that do not hold of this model.                   *)

\* "The new record is kept" (qid_migration.go:555, 616, 668): ania_kv too.
NewIsKeptInKV == "kv" \in Tables /\ origin["kv"]["new"] # NoRow => rows["kv"]["new"].tag = "bornNew"

\* "Keep the new session" (qid_migration.go:555): a session is kept or dropped with its messages.
SessionsStayWhole ==
  ({"session", "message"} \subseteq Tables /\ stage > 2
     /\ Holds("session", "new") /\ Holds("message", "new"))
    => rows["session"]["new"].tag = rows["message"]["new"].tag

\* "Existing data is migrated, before it is read" (core.go:278): a table whose existence could not
\* be asked is left as it is, and the migration ends as one that is done.
AllIsMigrated ==
  stage > Len(Order) =>
    \A t \in Tables, f \in {"old", "new"} : Holds(t, f) => f = "new" \/ ~Keyed(t)

\* A row of the old number is not lost because a migration failed before (core.go:281).
FailureLosesNothing ==
  \A t \in Tables : (origin[t]["old"] # NoRow /\ origin[t]["new"] = NoRow)
    => \E f \in {"old", "new"} : rows[t][f].tag = "bornOld"
-------------------------------------------------------------------------------
(* What is rewritten in keys and values.  A text is the sequence of its     *)
(* parts between ":"; "1" and "2" stand for numbers.                        *)
Numbers   == {"1", "2"}
Normalized(p) == IF Len(p) = 1 /\ p[1] \in Numbers THEN <<"qq", p[1]>> ELSE p

\* rewriteScopeIDs: a number after a part "g" or "f" gets its prefix.
RewriteScopeIDs(s) ==
  LET part(i) == IF i > 1 /\ s[i - 1] \in {"g", "f"} THEN Normalized(<<s[i]>>) ELSE <<s[i]>>
      first[i \in 0..Len(s)] == IF i = 0 THEN <<>> ELSE first[i - 1] \o part(i) IN
  first[Len(s)]

\* migrateGroupUserRule: "group:user", where the group may have its platform's prefix.
RulePrefixes == {"qq", "qo", "fs", "tg", "dc"}
Boundary(s)  == IF s[1] \in RulePrefixes /\ Len(s) > 2 THEN 2 ELSE 1
MigrateGroupUserRule(s) ==
  IF Len(s) < 2 THEN Normalized(s)
  ELSE Normalized(SubSeq(s, 1, Boundary(s))) \o Normalized(SubSeq(s, Boundary(s) + 1, Len(s)))

\* Lists of identifiers in configuration values and log columns, part by part; an identifier
\* that was written as a JSON number is one of the bare ones.
MigrateAll(items) == [i \in DOMAIN items |-> Normalized(items[i])]

\* migratePromptJSON: prompts by group and friend; the bare key's prompt replaces the other.
MigratePrompts(groups) ==
  LET bare == {k \in DOMAIN groups : Normalized(k) # k}
      left == (DOMAIN groups \ bare) \cup {Normalized(k) : k \in bare} IN
  [k \in left |-> IF \E b \in bare : Normalized(b) = k
                  THEN groups[CHOOSE b \in bare : Normalized(b) = k] ELSE groups[k]]

\* migrateConfigValue, migratePresetRaw, migrateAIJSONValue, migrateTargetAndSenders: the
\* fields of a value that are rewritten, by the name space it is in.
FieldsOf == [config |-> {"admin_id", "groups", "friends", "group_users", "prompts"},
             presets |-> {"admin_id", "groups", "friends", "group_users", "prompts"},
             memory |-> {"user_id"}, kb |-> {"scope"}, clock |-> {"target_id", "created_by"},
             clocklog |-> {"target_id", "senders"}, querylog |-> {"target_id", "senders"}]
RewriteField(field, x) ==
  CASE field \in {"admin_id", "user_id", "target_id", "created_by"} -> Normalized(x)
    [] field \in {"groups", "friends", "senders"} -> MigrateAll(x)
    [] field = "group_users" -> [i \in DOMAIN x |-> MigrateGroupUserRule(x[i])]
    [] field = "prompts" -> MigratePrompts(x)
    [] field = "scope" -> RewriteScopeIDs(x)

\* migrateKVValue: what is not rewritten is kept, a preset's name and dates too.
MigrateKVValue(space, value) ==
  [field \in DOMAIN value |-> IF field \in FieldsOf[space] THEN RewriteField(field, value[field])
                              ELSE value[field]]
-------------------------------------------------------------------------------
(* Laws of the rewriting, over short texts.                                *)
Texts(n) == UNION {[1..k -> {"g", "qq", "tg", "x", "1", "2"}] : k \in 1..n}
Users    == {<<"1">>, <<"qq", "1">>, <<"tg", "1">>, <<"x">>}
Values == {[user_id |-> u, scope |-> <<"g", "1">>, name |-> <<"1">>] : u \in Users}
     \cup {[group_users |-> <<g \o u>>, senders |-> <<u, g>>, name |-> <<"1">>] :
             g \in {<<"1">>, <<"2">>, <<"qq", "2">>}, u \in Users}
     \cup {[prompts |-> p, created_by |-> <<"1">>] : p \in [{<<"1">>, <<"qq", "1">>} -> {"old", "new"}]}

\* Every start migrates again: what has been rewritten is a fixed point, other fields than
\* those of the name space are as they were, and nothing bare is left in the ones that are
\* (qid_migration.go:29 and the comment at 305 on what an earlier version destroyed).
RewritesOnce ==
  /\ \A s \in Texts(4) : RewriteScopeIDs(RewriteScopeIDs(s)) = RewriteScopeIDs(s)
  /\ \A s \in Texts(4) : (\A i \in DOMAIN s : s[i] \notin {"1", "2"}) => RewriteScopeIDs(s) = s
  /\ \A v \in Values, space \in DOMAIN FieldsOf :
       LET w == MigrateKVValue(space, v) IN
       /\ MigrateKVValue(space, w) = w
       /\ DOMAIN w = DOMAIN v /\ \A x \in DOMAIN v \ FieldsOf[space] : w[x] = v[x]
       /\ \A x \in DOMAIN w \cap FieldsOf[space] \cap {"user_id", "created_by"} :
            \A n \in Numbers : w[x] # <<n>>

\* "Does not rewrite other platforms' prefixes" (qid_migration.go:29): a rule with one stays.
OtherRulesAreKept ==
  starts < 1 \/ \A s \in Texts(3) : s[1] \in {"tg", "wx"} => MigrateGroupUserRule(s) = s

\* The rule of a group, read again at every start, comes to rest after the first.
RulesComeToRest ==
  starts < 1 \/ \A s \in Texts(3) :
    MigrateGroupUserRule(MigrateGroupUserRule(s)) = MigrateGroupUserRule(s)
===============================================================================
