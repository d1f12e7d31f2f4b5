---------------------------------- MODULE Skills ----------------------------------
(***************************************************************************)
(* The skills directory and the registry loaded from it (llmtool/skill.go,  *)
(* pluginaichat/skillpanel.go, skilltool.go).  The panel and the model      *)
(* install, delete and reload skills side by side; only the exchange of the *)
(* registry itself is under a lock.  Uploads are unpacked into a temporary  *)
(* directory that lies in the skills directory.                             *)
(***************************************************************************)
EXTENDS Naturals, Sequences, FiniteSets

CONSTANTS Ops,      \* calls: [id, kind : "install" | "delete" | "refresh", dir, name, skill]
          Order,    \* the entries as os.ReadDir sorts them: temporary ones (ids) and directories
          Names,    \* names in SKILL.md
          Present,  \* Present[d]: the skill that is in directory d at first, or NoSkill
          Chosen,   \* plugin.ai_chat_bot.skills; empty for all
          MaxCrashes

NoSkill == [name |-> "none", ok |-> TRUE, ver |-> 0]
Temps   == {o.id : o \in Ops}
Places  == {Order[i] : i \in DOMAIN Order}
Dirs    == Places \ Temps

SkillsAssumption ==
  /\ IsFiniteSet(Ops) /\ Temps \subseteq Places /\ MaxCrashes \in Nat
  /\ \A i, j \in DOMAIN Order : Order[i] = Order[j] => i = j
  /\ \A o, p \in Ops : o.id = p.id => o = p
  /\ \A o \in Ops : /\ o.kind \in {"install", "delete", "refresh"}
                   /\ o.kind = "install" => o.dir \in Dirs /\ o.skill # NoSkill
  /\ DOMAIN Present = Dirs /\ \A d \in Dirs : Present[d].ok /\ Chosen \subseteq Names

VARIABLES disk,     \* disk[p]: the SKILL.md in an entry of the directory
          registry, \* m.skills: the entry and the skill loaded under a name
          known,    \* m.dir is set
          step,
          todo, found, \* of a reload: the entries still to visit, what it has loaded
          path,     \* of a deletion: the entry the registry named
          overlap,  \* calls have met
          deleted,  \* entries deleted, and those whose successor was before it was renamed
          torn,     \* entries a crash left cleared
          crashes

vars == <<disk, registry, known, step, todo, found, path, overlap, deleted, torn, crashes>>
ghosts == <<overlap, deleted, torn, crashes>>

Nothing == [place |-> "none", skill |-> NoSkill]
Empty   == [n \in Names |-> Nothing]

\* One entry of loadFromDirLocked: skipped without a SKILL.md, registered over a skill of the
\* same name, or left out by the filter.
Visit(reg, p, skill) ==
  IF skill = NoSkill \/ (Chosen # {} /\ skill.name \notin Chosen) THEN reg
  ELSE [reg EXCEPT ![skill.name] = [place |-> p, skill |-> skill]]

\* A whole load of directory d: the first SKILL.md that cannot be read ends it.
LoadAll(d) ==
  LET after(acc, p) == IF ~acc.ok THEN acc
                       ELSE IF ~d[p].ok THEN [acc EXCEPT !.ok = FALSE]
                       ELSE [acc EXCEPT !.reg = Visit(@, p, d[p])]
      first[n \in 0..Len(Order)] == IF n = 0 THEN [ok |-> TRUE, reg |-> Empty]
                                    ELSE after(first[n - 1], Order[n]) IN
  first[Len(Order)]

\* LoadFromDirWithFilter at the start: what was loaded before a failure stays registered.
Load(d) == registry' = LoadAll(d).reg /\ known' = LoadAll(d).ok

Init ==
  /\ disk = [p \in Places |-> IF p \in Dirs THEN Present[p] ELSE NoSkill]
  /\ registry = LoadAll(disk).reg /\ known = TRUE
  /\ step = [o \in Ops |-> "new"] /\ todo = [o \in Ops |-> <<>>] /\ found = [o \in Ops |-> Empty]
  /\ path = [o \in Ops |-> "none"] /\ overlap = FALSE /\ deleted = {} /\ torn = {} /\ crashes = 0

Over(o)  == step[o] \in {"new", "done", "failed", "killed", "refused", "unlisted"}
Quiet    == \A o \in Ops : Over(o)
To(o, s) == step' = [step EXCEPT ![o] = s]
Begins   == overlap' = (overlap \/ ~Quiet)
Put(p, skill) == disk' = [disk EXCEPT ![p] = skill]
loadVars == <<registry, known, todo, found>>
-------------------------------------------------------------------------------
(* installSkillZip and SkillInstallFromContent.                            *)

\* os.MkdirTemp, and the SKILL.md written into it.
Unpacks(o) ==
  /\ o.kind = "install" /\ step[o] = "new" /\ Begins
  /\ Put(o.id, o.skill) /\ To(o, "unpacked")
  /\ UNCHANGED <<loadVars, path, deleted, torn, crashes>>

\* ValidateSkillDir; the deferred removal of the temporary directory.  A reload may have found
\* that directory, and a deletion of its skill removed it.
Validates(o) ==
  /\ step[o] = "unpacked"
  /\ IF disk[o.id] # NoSkill /\ o.skill.ok THEN To(o, "validated") /\ UNCHANGED disk
     ELSE To(o, "refused") /\ Put(o.id, NoSkill)
  /\ UNCHANGED <<loadVars, path, ghosts>>

Clears(o) ==
  /\ step[o] = "validated" /\ Put(o.dir, NoSkill) /\ To(o, "cleared")
  /\ UNCHANGED <<loadVars, path, ghosts>>

\* os.Rename: it fails when another call has put its skill there meanwhile, or removed this one.
Renames(o) ==
  /\ step[o] = "cleared"
  /\ IF disk[o.dir] = NoSkill /\ disk[o.id] # NoSkill
     THEN /\ disk' = [disk EXCEPT ![o.dir] = disk[o.id], ![o.id] = NoSkill]
          /\ To(o, "reload")
     ELSE Put(o.id, NoSkill) /\ To(o, "failed")
  /\ UNCHANGED <<loadVars, path, ghosts>>
-------------------------------------------------------------------------------
(* SkillDelete; the name is resolved by the registry, the entry removed.   *)
Finds(o) ==
  /\ o.kind = "delete" /\ step[o] = "new"
  /\ IF registry[o.name] = Nothing
     THEN To(o, "refused") /\ UNCHANGED <<path, overlap>>
     ELSE To(o, "remove") /\ path' = [path EXCEPT ![o] = registry[o.name].place] /\ Begins
  /\ UNCHANGED <<disk, loadVars, deleted, torn, crashes>>

Removes(o) ==
  /\ step[o] = "remove" /\ Put(path[o], NoSkill) /\ To(o, "reload")
  /\ deleted' = deleted \cup {path[o]} \cup
                {x.dir : x \in {y \in Ops : y.id = path[o] /\ step[y] \in {"validated", "cleared"}}}
  /\ UNCHANGED <<loadVars, path, overlap, torn, crashes>>
-------------------------------------------------------------------------------
(* Reload and Refresh: read without a lock, exchanged under it.            *)
Refreshes(o) ==
  /\ o.kind = "refresh" /\ step[o] = "new"
  /\ IF known THEN To(o, "reload") /\ Begins ELSE To(o, "refused") /\ UNCHANGED overlap
  /\ UNCHANGED <<disk, loadVars, path, deleted, torn, crashes>>

ReadsDir(o) ==
  /\ step[o] = "reload"
  /\ todo' = [todo EXCEPT ![o] = SelectSeq(Order, LAMBDA p : disk[p] # NoSkill)]
  /\ found' = [found EXCEPT ![o] = Empty] /\ To(o, "load")
  /\ UNCHANGED <<disk, registry, known, path, ghosts>>

Loads(o) ==
  /\ step[o] = "load" /\ todo[o] # <<>>
  /\ LET p == Head(todo[o]) IN
     /\ todo' = [todo EXCEPT ![o] = IF disk[p].ok THEN Tail(@) ELSE <<>>]
     /\ found' = [found EXCEPT ![o] = IF disk[p].ok THEN Visit(@, p, disk[p]) ELSE Empty]
     /\ IF disk[p].ok THEN UNCHANGED step ELSE To(o, "failed")
  /\ UNCHANGED <<disk, registry, known, path, ghosts>>

Swaps(o) ==
  /\ step[o] = "load" /\ todo[o] = <<>>
  /\ registry' = found[o] /\ known' = TRUE
  /\ To(o, IF o.kind = "install" THEN "look" ELSE "done")
  /\ found' = [found EXCEPT ![o] = Empty]
  /\ UNCHANGED <<disk, todo, path, ghosts>>

\* skillInfoByDir: what the installer is told is the skill loaded from its directory.
SkillInfoByDir(d) == {n \in Names : registry[n].place = d}
Looks(o) ==
  /\ step[o] = "look" /\ To(o, IF SkillInfoByDir(o.dir) # {} THEN "done" ELSE "unlisted")
  /\ UNCHANGED <<disk, loadVars, path, ghosts>>
-------------------------------------------------------------------------------
\* The process ends and starts again; nothing removes the temporary directories.
Restart ==
  /\ crashes < MaxCrashes /\ crashes' = crashes + 1 /\ Load(disk)
  /\ torn' = torn \cup {o.dir : o \in {x \in Ops : step[x] = "cleared"}}
  /\ step' = [o \in Ops |-> IF Over(o) THEN step[o] ELSE "killed"]
  /\ todo' = [o \in Ops |-> <<>>] /\ found' = [o \in Ops |-> Empty]
  /\ UNCHANGED <<disk, path, overlap, deleted>>

Step(o) == \/ Unpacks(o) \/ Validates(o) \/ Clears(o) \/ Renames(o) \/ Finds(o) \/ Removes(o)
           \/ Refreshes(o) \/ ReadsDir(o) \/ Loads(o) \/ Swaps(o) \/ Looks(o)
Next == Restart \/ \E o \in Ops : Step(o)
Spec == Init /\ [][Next]_vars
-------------------------------------------------------------------------------
(* The root of an archive: paths are sequences of names.                   *)
\* detectSkillRoot: SKILL.md at the top, or in the one directory there is.
DetectSkillRoot(files) ==
  LET tops == {f[1] : f \in {x \in files : Len(x) > 1}} IN
  IF <<"SKILL.md">> \in files THEN [ok |-> TRUE, prefix |-> <<>>]
  ELSE IF Cardinality(tops) = 1 /\ \E t \in tops : <<t, "SKILL.md">> \in files
       THEN [ok |-> TRUE, prefix |-> <<CHOOSE t \in tops : TRUE>>] ELSE [ok |-> FALSE, prefix |-> <<>>]

\* extractSkillZip: what lies below the root; a path with ".." is refused.
Extracted(files, prefix) ==
  LET below == {x \in files : Len(x) > Len(prefix) /\ SubSeq(x, 1, Len(prefix)) = prefix} IN
  {SubSeq(f, Len(prefix) + 1, Len(f)) : f \in below}
-------------------------------------------------------------------------------
TypeOK ==
  /\ \A p \in Places : disk[p].name \in Names \cup {"none"}
  /\ \A n \in Names : registry[n].place \in Places \cup {"none"}
  /\ known \in BOOLEAN /\ deleted \cup torn \subseteq Places \cup {"-"}

\* Outside of the temporary directories there are only whole skills, and one that was there is
\* lost only by being deleted or by a deletion of its successor or a crash between its removal
\* and the renaming of its successor, whoever installs what at the same time
\* (skillpanel.go:153, 206, 221).
SkillsSurvive ==
  \A d \in Dirs :
    /\ disk[d].ok
    /\ (Quiet /\ Present[d] # NoSkill /\ d \notin deleted \cup torn) => disk[d] # NoSkill

\* Why: what is unpacked stays until it is renamed, unless it is deleted; and who has cleared an
\* entry has its successor.
Steps == {"new", "unpacked", "validated", "cleared", "remove", "reload", "load", "look",
          "done", "failed", "killed", "refused", "unlisted"}
UnpackedStays ==
  \A o \in Ops : step[o] \in {"unpacked", "validated", "cleared"} =>
    /\ o.kind = "install" /\ disk[o.id] \in {o.skill, NoSkill}
    /\ step[o] # "unpacked" => o.skill.ok /\ (disk[o.id] = NoSkill => o.dir \in deleted)
ClearedIsReplaced ==
  \A d \in Dirs :
    /\ disk[d].ok
    /\ (Present[d] # NoSkill /\ d \notin deleted \cup torn /\ disk[d] = NoSkill)
         => \E o \in Ops : o.dir = d /\ step[o] = "cleared" /\ disk[o.id] # NoSkill
Shelved == {NoSkill} \cup {Present[d] : d \in Dirs} \cup {o.skill : o \in Ops}
IInv == /\ disk \in [Places -> Shelved] /\ step \in [Ops -> Steps]
        /\ UnpackedStays /\ ClearedIsReplaced

\* Calls that come one after the other leave the registry as a load of the directory would
\* make it, unless one of them said that it failed (skillpanel.go:229, 282; skill.go:124).
RegistryFollows ==
  (Quiet /\ ~overlap /\ crashes = 0 /\ \A o \in Ops : step[o] # "failed")
    => registry = LoadAll(disk).reg

\* detectSkillRoot, extractSkillZip: what is unpacked has its SKILL.md at the top, a
\* directory's skill is unpacked whole, and an archive of one skill is never refused.
RootIsFound ==
  LET paths == {<<"SKILL.md">>, <<"x">>, <<"d", "SKILL.md">>, <<"d", "x">>, <<"e", "SKILL.md">>,
                <<"d", "e", "SKILL.md">>} IN
  \A files \in SUBSET paths :
    LET r == DetectSkillRoot(files)
        skills == {f \in files : Len(f) <= 2 /\ f[Len(f)] = "SKILL.md"} IN
    /\ r.ok => <<"SKILL.md">> \in Extracted(files, r.prefix)
    /\ r.ok => \A f \in files : f = Append(r.prefix, f[Len(f)])
                              => <<f[Len(f)]>> \in Extracted(files, r.prefix)
    /\ (Cardinality(skills) = 1 /\ \A f \in files, g \in files :
          (Len(f) > 1 /\ Len(g) > 1) => f[1] = g[1]) => r.ok
-------------------------------------------------------------------------------
(* Claims of the sources that do not hold of this model.                   *)

\* "Atomic replacement, for the hot update after an upload" (skill.go:124): a reload that read
\* before another one's change is exchanged after it.
RegistryIsLatest ==
  (Quiet /\ crashes = 0 /\ \A o \in Ops : step[o] # "failed") => registry = LoadAll(disk).reg

\* "Unpacked to a temporary directory first, replaced after validation" (skillpanel.go:206): a
\* reload at that moment registers the temporary directory's skill.
OnlyInstalledAreLoaded == \A n \in Names : registry[n].place \notin Temps

\* "Uninstalled" (skilltool.go:155): another directory may hold a skill of that name.
RemovedIsGone ==
  \A o \in Ops : (o.kind = "delete" /\ step[o] = "done" /\ Quiet /\ ~overlap /\ crashes = 0
                    /\ \A x \in Ops : x.kind = "install" => step[x] = "new")
                 => registry[o.name] = Nothing

\* "Reloads after the files were edited" (skill.go:138): not when the first load failed.
RefreshIsPossible == crashes = 0 \/ known

\* "Installed but not loaded: perhaps not among the chosen ones" (skillpanel.go:304): or another
\* directory has a skill of that name.
UnlistedIsNotChosen == \A o \in Ops : step[o] = "unlisted" => Chosen # {} /\ o.skill.name \notin Chosen
===============================================================================
