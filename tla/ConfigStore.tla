------------------------------ MODULE ConfigStore ------------------------------
(***************************************************************************)
(* The configuration in the database (core/configstore): the defaults of    *)
(* the first start and of later ones, what the panel and the AI's tool write *)
(* (adminpanel/server.go, functool/config.go), presets, the setup wizard,    *)
(* with statements that fail and crashes between any two of them.  The        *)
(* store's mutex makes one call one step, unless it is cut short; a save of   *)
(* the panel is several calls.  A lookup that fails answers that nothing is   *)
(* there (persistent_sql.go:152).                                           *)
(***************************************************************************)
EXTENDS Naturals

CONSTANTS Keys, Listen,      \* of the configuration; the panel's address
          Spellings, LowerOf, \* keys as they are written in a request
          Seeded,            \* keys with a default in config_tmpl.yaml
          Registered,        \* keys with a default in pluginconfig
          Saves,             \* what the panel sends: id and updates
          Sets,              \* what the tool is called with: key and value
          Presets,           \* names
          TypedIn,             \* values somebody types in, that are not empty
          Faults,            \* what of the store may fail: "writes", "reads"
          MaxCrashes         \* bound

None  == "absent"
Null  == "null"       \* in a request: delete
Mask  == "mask"       \* in a request: unchanged
Empty == "empty"
Quoted == "quoted"    \* of the tool: "" with its quotes, which JSON decodes
Default == "default"

ConfigAssumption ==
  /\ LowerOf \in [Spellings -> Keys] /\ Listen \in Keys \cap Spellings
  /\ Seeded \cup Registered \subseteq Keys /\ MaxCrashes \in Nat
  /\ Faults \subseteq {"writes", "reads"}
  /\ TypedIn \cap {None, Null, Mask, Empty, Quoted, Default} = {}
  /\ \A s \in Saves : s.updates \in [DOMAIN s.updates -> TypedIn \cup {Null, Mask, Empty}]
                     /\ DOMAIN s.updates \subseteq Spellings
  /\ \A s \in Sets : s.key \in Keys /\ s.value \in TypedIn \cup {Mask, Empty, Quoted}

VARIABLES conf,              \* the stored values
          initialized, setup, \* meta.initialized, meta.setup_pending
          presets,           \* of each name: nothing, or its snapshot
          at, todo,          \* the process, the defaults it has left to write
          pc, left,          \* of each save: its place, the keys it has left to delete
          wanted,            \* what was last written to a key by somebody, None: nothing
          completed,         \* the wizard was completed
          crashes

vars == <<conf, initialized, setup, presets, at, todo, pc, left, wanted, completed, crashes>>
metaVars == <<initialized, setup, completed>>
saveVars == <<pc, left>>

Init ==
  /\ conf = [k \in Keys |-> None] /\ initialized = FALSE /\ setup = FALSE
  /\ presets = [n \in Presets |-> {}] /\ at = "down" /\ todo = {}
  /\ pc = [s \in Saves |-> "new"] /\ left = [s \in Saves |-> {}]
  /\ wanted = [k \in Keys |-> None] /\ completed = FALSE /\ crashes = 0
-------------------------------------------------------------------------------
(* The start.                                                              *)

Booting(place, keys) ==
  /\ at' = place /\ todo' = keys /\ UNCHANGED <<presets, saveVars, wanted, completed, crashes>>

WritesFail == "writes" \in Faults
ReadsFail  == "reads" \in Faults

\* Init: everything begins anew when the lookup of the mark fails.
Start ==
  /\ at = "down" /\ UNCHANGED <<conf, initialized, setup>>
  /\ \/ initialized /\ Booting("ensure", Registered)
     \/ (~initialized \/ ReadsFail) /\ Booting("seed", Seeded)

\* seedDefaults: a failed write ends the process (core.go), the next start begins again.
Seed ==
  /\ at = "seed" /\ UNCHANGED <<initialized, setup>>
  /\ \/ /\ todo = {} /\ Booting("pending", {}) /\ UNCHANGED conf
     \/ \E k \in todo : conf' = [conf EXCEPT ![k] = Default] /\ Booting("seed", todo \ {k})
     \/ WritesFail /\ todo # {} /\ Booting("down", {}) /\ UNCHANGED conf
MarkPending ==
  /\ at = "pending" /\ Booting("mark", {}) /\ UNCHANGED <<conf, initialized>>
  /\ \/ setup' = TRUE
     \/ WritesFail /\ UNCHANGED setup
MarkInitialized ==
  /\ at = "mark" /\ UNCHANGED <<conf, setup>>
  /\ \/ initialized' = TRUE /\ Booting("ensure", Registered)
     \/ WritesFail /\ UNCHANGED initialized /\ Booting("down", {})

\* EnsureDefaults: what is missing or seems to be, and a failed write is passed over.
EnsureDefaults ==
  /\ at = "ensure" /\ UNCHANGED <<initialized, setup>>
  /\ \/ todo = {} /\ Booting("up", {}) /\ UNCHANGED conf
     \/ \E k \in todo :
          /\ Booting("ensure", todo \ {k})
          /\ \/ (conf[k] = None \/ ReadsFail) /\ conf' = [conf EXCEPT ![k] = Default]
             \/ (conf[k] # None \/ WritesFail) /\ UNCHANGED conf
-------------------------------------------------------------------------------
(* Writing.  `values' maps each key to the values that one call writes to it, *)
(* in any order.  A call that is cut short has written some of the keys.      *)

Written(values, some) ==
  \E v \in [some -> UNION {values[k] : k \in some}] :
    /\ \A k \in some : v[k] \in values[k]
    /\ conf' = [k \in Keys |-> IF k \in some THEN v[k] ELSE conf[k]]
    /\ wanted' = [k \in Keys |-> IF k \in some THEN v[k] ELSE wanted[k]]

All(values) == {k \in Keys : values[k] # {}}

Dies ==
  /\ crashes < MaxCrashes /\ crashes' = crashes + 1 /\ at' = "down" /\ todo' = {}
  /\ pc' = [s \in Saves |-> IF pc[s] = "new" THEN "new" ELSE "over"]
  /\ left' = [s \in Saves |-> {}]
Lives == UNCHANGED <<at, todo, crashes>>

\* SetMany: the first write that fails is the last.
SetMany(values, answer, ok, failed) ==
  \/ Written(values, All(values)) /\ answer = ok /\ Lives
  \/ /\ \E some \in SUBSET All(values) : some # All(values) /\ Written(values, some)
     /\ WritesFail /\ answer = failed /\ Lives

\* handleConfigPut: null deletes, a mask leaves alone, the address is not emptied.
Nulls(s) == {x \in DOMAIN s.updates : s.updates[x] = Null}
Kept(s) == {x \in DOMAIN s.updates : /\ s.updates[x] \notin {Null, Mask}
                                     /\ ~(x = Listen /\ s.updates[x] = Empty)}
ValuesOf(s) == [k \in Keys |-> {s.updates[x] : x \in {y \in Kept(s) : LowerOf[y] = k}}]

BeginSave(s) ==
  /\ at = "up" /\ pc[s] = "new" /\ pc' = [pc EXCEPT ![s] = "deleting"]
  /\ left' = [left EXCEPT ![s] = Nulls(s)]
  /\ UNCHANGED <<conf, metaVars, presets, at, todo, wanted, crashes>>
Delete(s) ==
  /\ pc[s] = "deleting" /\ UNCHANGED <<metaVars, presets, at, todo, pc, crashes>>
  /\ \E x \in left[s] :
       /\ left' = [left EXCEPT ![s] = @ \ {x}]
       /\ \/ /\ conf' = [conf EXCEPT ![LowerOf[x]] = None]
             /\ wanted' = [wanted EXCEPT ![LowerOf[x]] = None]
          \/ WritesFail /\ UNCHANGED <<conf, wanted>>
Save(s) ==
  /\ pc[s] = "deleting" /\ left[s] = {} /\ UNCHANGED <<metaVars, presets, left>>
  /\ \E answer \in {"ok", "failed"} :
       /\ SetMany(ValuesOf(s), answer, "ok", "failed") /\ pc' = [pc EXCEPT ![s] = answer]

\* config_set: what is decoded is written, the address is looked at before.
ToolSets(s) ==
  /\ at = "up" /\ ~(s.key = Listen /\ s.value = Empty)
  /\ LET v == IF s.value = Quoted THEN Empty ELSE s.value IN
     Written([k \in Keys |-> IF k = s.key THEN {v} ELSE {}], {s.key})
  /\ UNCHANGED <<metaVars, presets, saveVars, at, todo, crashes>>
-------------------------------------------------------------------------------
(* Presets and the wizard.                                                 *)

\* allLocked leaves out what it fails to read.
SavePreset(n) ==
  /\ at = "up"
  /\ \E read \in SUBSET Keys :
       /\ ReadsFail \/ read = Keys
       /\ presets' = [presets EXCEPT ![n] = {[k \in Keys |-> IF k \in read THEN conf[k] ELSE None]}]
  /\ UNCHANGED <<conf, metaVars, saveVars, at, todo, wanted, crashes>>
DeletePreset(n) ==
  /\ at = "up" /\ presets[n] # {} /\ presets' = [presets EXCEPT ![n] = {}]
  /\ UNCHANGED <<conf, metaVars, saveVars, at, todo, wanted, crashes>>

\* What the snapshot lacks is left alone.
Snapshot(n) ==
  [k \in Keys |-> {v \in {c[k] : c \in presets[n]} : v # None /\ ~(k = Listen /\ v = Empty)}]
ApplyPreset(n) ==
  /\ at = "up" /\ presets[n] # {} /\ UNCHANGED <<metaVars, presets, saveVars>>
  /\ \E answer \in {"ok", "failed"} : SetMany(Snapshot(n), answer, "ok", "failed")

CompleteSetup ==
  /\ at = "up" /\ setup /\ completed' = TRUE
  /\ \/ setup' = FALSE
     \/ WritesFail /\ UNCHANGED setup
  /\ UNCHANGED <<conf, initialized, presets, saveVars, at, todo, wanted, crashes>>

\* The process ends between two steps, or within a call that writes several keys.
Crash ==
  /\ at # "down" /\ Dies /\ UNCHANGED <<metaVars, presets>>
  /\ \/ UNCHANGED <<conf, wanted>>
     \/ \E s \in Saves : /\ pc[s] = "deleting" /\ left[s] = {}
                         /\ \E some \in SUBSET All(ValuesOf(s)) : Written(ValuesOf(s), some)
     \/ \E n \in Presets : /\ at = "up" /\ presets[n] # {}
                           /\ \E some \in SUBSET All(Snapshot(n)) : Written(Snapshot(n), some)

Next ==
  \/ Start \/ Seed \/ MarkPending \/ MarkInitialized \/ EnsureDefaults
  \/ \E s \in Saves : BeginSave(s) \/ Delete(s) \/ Save(s)
  \/ \E s \in Sets : ToolSets(s)
  \/ \E n \in Presets : SavePreset(n) \/ DeletePreset(n) \/ ApplyPreset(n)
  \/ CompleteSetup \/ Crash
Spec == Init /\ [][Next]_vars
-------------------------------------------------------------------------------
Values == {None, Default, Empty, Mask} \cup TypedIn
TypeOK ==
  /\ conf \in [Keys -> Values] /\ wanted \in [Keys -> Values]
  /\ presets \in [Presets -> SUBSET [Keys -> Values]]
  /\ at \in {"down", "seed", "pending", "mark", "ensure", "up"} /\ todo \subseteq Seeded \cup Registered
  /\ pc \in [Saves -> {"new", "deleting", "ok", "failed", "over"}]
  /\ left \in [Saves -> SUBSET Spellings] /\ crashes \in 0..MaxCrashes
  /\ initialized \in BOOLEAN /\ setup \in BOOLEAN /\ completed \in BOOLEAN

\* What is asked for: nothing is deleted; the tool is not given the mask it shows; the
\* panel's address is written in one way only, and not with quotes around nothing.
NothingDeleted == \A s \in Saves : Nulls(s) = {}
NoMaskIsSet == \A s \in Sets : s.value # Mask
PlainListen ==
  /\ \A x \in Spellings : LowerOf[x] = Listen => x = Listen
  /\ \A s \in Sets : s.key = Listen => s.value # Quoted

\* What somebody has written stays, whatever starts, ends or fails after that: the defaults
\* are for new configurations and for what is missing (configstore.go:62, :130).  A lookup that
\* fails is all that can lose it, to nothing but the key's default, and only where it has one.
WrittenStays ==
  \A k \in Keys : wanted[k] # None =>
    conf[k] = wanted[k] \/ (ReadsFail /\ k \in Seeded \cup Registered /\ conf[k] = Default)

\* A running bot has a value for every key with a default, if none is deleted.
DefaultsAreThere ==
  at = "up" /\ ~WritesFail /\ NothingDeleted =>
    \A k \in Seeded \cup Registered : conf[k] # None

\* The wizard is not shown again when it was completed (configstore.go:125).
SetupIsAskedOnce == completed /\ Faults = {} => ~setup

\* The mask of a secret is stored nowhere (server.go:531), if the tool is not given it.
MaskIsNotStored ==
  NoMaskIsSet =>
    \A k \in Keys : /\ conf[k] # Mask
                    /\ \A n \in Presets : \A c \in presets[n] : c[k] # Mask

\* Without other spellings of its key and quoted values, the panel's address is never empty.
ListenIsSet == PlainListen => conf[Listen] # Empty

\* Why these hold: before the first start is over nobody has written anything, a save runs in
\* a process that is up, and the defaults come in the order of the start.
NothingBefore ==
  /\ at \in {"ensure", "up"} => initialized
  /\ at \in {"seed", "pending", "mark"} => ~initialized \/ ReadsFail
  /\ ~initialized => /\ ~completed /\ \A k \in Keys : wanted[k] = None
                     /\ \A s \in Saves : pc[s] = "new"
SavesAreUp == \A s \in Saves : /\ pc[s] = "deleting" => at = "up"
                               /\ left[s] \subseteq Nulls(s)
DefaultsCome ==
  NothingDeleted =>
    /\ \A k \in Seeded : initialized \/ at \in {"pending", "mark"} \/ (at = "seed" /\ k \notin todo)
                          => conf[k] # None
    /\ \A k \in Registered : ~WritesFail /\ (at = "up" \/ (at = "ensure" /\ k \notin todo))
                              => conf[k] # None
IInv == /\ TypeOK /\ NothingBefore /\ SavesAreUp /\ DefaultsCome
        /\ WrittenStays /\ SetupIsAskedOnce /\ MaskIsNotStored /\ ListenIsSet
-------------------------------------------------------------------------------
(* Claims of the sources that do not hold of this model.                   *)

\* "What is there is not overwritten" (configstore.go:130), "initialised already: nothing is
\* done" (configstore.go:62): one lookup that fails brings the defaults back over it, and the
\* setup wizard with them.
SettingsOutliveLookups == \A k \in Keys : wanted[k] # None => conf[k] = wanted[k]

\* "The panel's address may not be emptied" (server.go:536, presets.go:135): null deletes it,
\* another spelling of the key is not compared, and the tool decodes "" after it has looked.
ListenIsNeverLost == at = "up" => conf[Listen] \notin {None, Empty}

\* A preset is a complete snapshot of the configuration (presets.go:17): one taken in the
\* middle of a save has the keys deleted and those to be written as they were.
SnapshotsAreOfNoSave ==
  [][\A n \in Presets : presets'[n] # presets[n] /\ presets'[n] # {} =>
       ~\E s \in Saves : pc[s] = "deleting" /\ left[s] # Nulls(s) /\ Kept(s) # {}]_vars

\* A cleared parameter is unset again, and not passed on (server.go:523): the next start
\* writes its default.
ClearedStaysUnset ==
  [][\A s \in Saves : pc[s] = "ok" =>
       \A x \in Nulls(s) : conf[LowerOf[x]] = None => conf'[LowerOf[x]] # Default]_vars
================================================================================
