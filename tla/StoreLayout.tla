---------------------------- MODULE StoreLayout ----------------------------
(***************************************************************************)
(* The layout rules of the two local stores of the skills: how             *)
(* understanding_index.py and memory_index.py walk                         *)
(* <run folder>/<category>/<slug>.<kind>.md, which copies they read, which *)
(* they name in a problem, which copy of a slug is current, and when an    *)
(* archive proves that a unit survives its workspace.                      *)
(*                                                                         *)
(* A path is [store, dirs, name, kind]: dirs the folders that hold it,     *)
(* outermost first, kind "unit" (the postfixed file), "note" (any other    *)
(* .md) or "asset" (a file of the sibling <slug>.assets folder).  A store  *)
(* is a function from paths to contents.  Only folders that hold a file    *)
(* exist.                                                                  *)
(***************************************************************************)
EXTENDS Naturals, FiniteSets, Sequences

CONSTANTS Fold,       \* what a case-insensitive file system compares of a slug
          Day,        \* minutes in a day: stamps are minutes, `updated` is a day
          StaleAfter, \* days after which a unit with a question is stale
          StaleAfterOutcome

(* The folder names: run folders of the two eras, _unfiled, a folder with  *)
(* no stamp, and a category.                                               *)
RunName(stamp, session) == [shape |-> "run", stamp |-> stamp, session |-> session]
LegacyName(stamp, subject) == [shape |-> "legacy", stamp |-> stamp, subject |-> subject]
Unfiled == [shape |-> "unfiled"]
Category(c) == [shape |-> "category", name |-> c]

(* stamp_of, session_of: no stamp sorts oldest; only a run folder names a  *)
(* session.                                                                *)
StampOf(run) == IF run.shape \in {"run", "legacy"} THEN run.stamp ELSE 0
SessionOf(run) == IF run.shape = "run" THEN run.session ELSE <<0, 0>>
(* stamp_problem is reported of a top-level folder of no known shape.      *)
StampProblem(run) == run.shape \notin {"run", "legacy", "unfiled"}

(* A session id that had to be rewritten carries a digest of the original. *)
SafeSessionId(session, plain) ==
  IF plain = session THEN <<plain, 0>> ELSE <<plain, session>>
(* run_folder_name: the folders an export captures once, stamp first.      *)
RunFolderName(session, plain, now) == <<RunName(now, SafeSessionId(session, plain))>>

-----------------------------------------------------------------------------
(* The contents of a unit as the checks tell them apart: its text, its day *)
(* of update, the slugs its `inherited` list brackets and those it only    *)
(* names, whether it is portable, has a question, and the shape its        *)
(* frontmatter was written in.                                             *)
Shapes == {"well formed", "no frontmatter", "bad field", "flow list"}
IsBody(body) ==
  /\ body = [text |-> body.text, updated |-> body.updated, links |-> body.links, bare |-> body.bare,
             portable |-> body.portable, question |-> body.question, shape |-> body.shape]
  /\ body.updated \in Nat /\ body.shape \in Shapes
(* parse_frontmatter: a flow list is read as a scalar, so it lists nothing.*)
Bracketed(body) == IF body.shape = "flow list" THEN {} ELSE body.links
InheritedTargets(body) == IF body.shape = "flow list" THEN {} ELSE body.links \cup body.bare
IsRead(body) == body.shape # "no frontmatter"
(* read_unit of the two generators: only the understandings store knows    *)
(* lists, so only it reports one written in flow style.                    *)
UnitHasProblem(body) == body.shape # "well formed"
MemoryHasProblem(body) == body.shape \in {"no frontmatter", "bad field"}

(* A path holds a file at most one category below its run folder. *)
IsPath(p, slugs) ==
  /\ p = [store |-> p.store, dirs |-> p.dirs, name |-> p.name, kind |-> p.kind]
  /\ p.store \in {"understandings", "memories"} /\ p.kind \in {"unit", "note", "asset"}
  /\ p.name \in slugs
  /\ p.dirs = << >> \/ p.dirs = <<p.dirs[1]>> \/ p.dirs = <<p.dirs[1], p.dirs[2]>>
  /\ p.dirs # << >> => StampOf(p.dirs[1]) \in Nat /\ SessionOf(p.dirs[1]) \in Nat \X Nat

(* A mutant: one walk over both stores. *)
FilesOfBoth(store, files) == {p \in DOMAIN files : p.store # "none" /\ store # "none"}
(* The files of one store and the folders that hold them. *)
FilesOf(store, files) == {p \in DOMAIN files : p.store = store}
Runs(paths) == {p.dirs[1] : p \in {q \in paths : Len(q.dirs) >= 1}}
CategoriesOf(run, paths) ==
  {p.dirs[2] : p \in {q \in paths : Len(q.dirs) >= 2 /\ q.dirs[1] = run}}
(* A mutant: units directly inside a run folder win. *)
NestedWithoutUnits(run, paths) ==
  CategoriesOf(run, paths) # {} /\ ~\E p \in paths : p.dirs = <<run>> /\ p.kind = "unit"
(* Categories win the moment any exist. *)
Nested(run, paths) == CategoriesOf(run, paths) # {}
In(dirs, kind, paths) == {p \in paths : p.dirs = dirs /\ p.kind = kind}
(* The units the walk reads: of a nested run folder those of its           *)
(* categories, of a legacy one those directly inside it.                   *)
Records(paths) ==
  UNION {IF Nested(run, paths)
         THEN UNION {In(<<run, c>>, "unit", paths) : c \in CategoriesOf(run, paths)}
         ELSE In(<<run>>, "unit", paths) : run \in Runs(paths)}
(* The files and the folders the walk names in a problem, whatever holds   *)
(* the current versions.                                                   *)
StrayFiles(paths) ==
  {p \in paths : p.kind # "asset" /\ p.dirs = << >>}
    \cup {p \in paths : p.kind = "note" /\ Len(p.dirs) \in {1, 2}}
    \cup {p \in paths : p.kind = "unit" /\ Len(p.dirs) = 1 /\ Nested(p.dirs[1], paths)}
NamedFolders(paths) ==
  {<<run>> : run \in {r \in Runs(paths) :
     \/ StampProblem(r)
     \/ ~Nested(r, paths) /\ In(<<r>>, "unit", paths) \cup In(<<r>>, "note", paths) = {}}}
  \cup {d \in {<<r, c>> : r \in Runs(paths), c \in UNION {CategoriesOf(r, paths) : r \in Runs(paths)}} :
          /\ d[2] \in CategoriesOf(d[1], paths)
          /\ In(d, "unit", paths) \cup In(d, "note", paths) = {}}
(* The generator of the memories walks its store by the same rules. *)
MemoryRecords(paths) == Records(paths)
MemoryStrays(paths) == StrayFiles(paths)

(* case_collisions: distinct paths that are one entry when case is folded. *)
Folded(p) == [p EXCEPT !.name = Fold[p.name]]
OneNameEach(paths) == \A p, q \in paths : Folded(p) = Folded(q) => p = q
CaseCollisions(records) ==
  {p \in records : \E q \in records : q # p /\ Folded(q) = Folded(p)}
MemoryCaseCollisions(records) == CaseCollisions(records)

(* version_key and group_versions: the run stamp decides, then `updated`,  *)
(* the session and the path; a copy no reader could parse takes part, with *)
(* no `updated`.                                                           *)
UpdatedOf(body) == IF IsRead(body) THEN body.updated + 1 ELSE 0
LessPair(a, b) == a[1] < b[1] \/ (a[1] = b[1] /\ a[2] < b[2])
OlderThan(p, q, files) ==
  LET sp == StampOf(p.dirs[1])  sq == StampOf(q.dirs[1])
      up == UpdatedOf(files[p])  uq == UpdatedOf(files[q])
      ip == SessionOf(p.dirs[1])  iq == SessionOf(q.dirs[1])
  IN  \/ sp < sq
      \/ sp = sq /\ up < uq
      \/ sp = sq /\ up = uq /\ LessPair(ip, iq)
NewestOf(copies, files) ==
  CHOOSE p \in copies : \A q \in copies : ~OlderThan(p, q, files)
Current(records, files) ==
  {NewestOf({q \in records : q.name = slug}, files) : slug \in {p.name : p \in records}}
MemoryCurrent(records, files) == Current(records, files)

(* dangling_references: a bracketed slug of a current unit that no copy in *)
(* the store has.                                                          *)
Dangling(current, records, files) ==
  {p \in current : /\ IsRead(files[p])
                   /\ ~(Bracketed(files[p]) \subseteq {q.name : q \in records})}

(* inherited_targets and review: with lineage recorded somewhere, a        *)
(* current unit that no version of any unit names was never inherited; a   *)
(* unit is stale past its window, which is shorter without a question.     *)
(* A mutant: only the lineage of current versions counts. *)
UsedByCurrent(records, files) ==
  UNION {InheritedTargets(files[p]) : p \in {q \in Current(records, files) : IsRead(files[q])}}
(* Every slug that a readable copy inherited, whatever its age. *)
UsedSlugs(records, files) ==
  UNION {InheritedTargets(files[p]) : p \in {q \in records : IsRead(files[q])}}
NeverInherited(rows, records, files) ==
  LET used == UsedSlugs(records, files)
  IN  IF used = {} THEN {} ELSE {p \in rows : p.name \notin used}
Window(body) == IF body.question THEN StaleAfter ELSE StaleAfterOutcome
IsStale(body, now) == now \div Day > body.updated + Window(body)
(* review of the memories: only the recheck window, and never a failure.   *)
MemoryIsStale(body, now) == IsStale(body, now)

-----------------------------------------------------------------------------
(* Archives.  An entry is [path, body, type, good]: type "file" or         *)
(* "symlink", good when its bytes read back.  An archive is a set of       *)
(* entries.                                                                *)
EntryTypeOk(e) == e.type = "file"
MemberReadsCleanly(e) == e.good
(* A mutant: names are compared as they are written. *)
ConsumeProblemsByName(archive, paths) ==
  {e \in archive : ~MemberReadsCleanly(e) \/ ~EntryTypeOk(e) \/ e.path \in paths}
(* consume_problems: the entries for which the whole archive is refused.   *)
ConsumeProblems(archive, paths) ==
  {e \in archive :
     \/ ~MemberReadsCleanly(e)
     \/ ~EntryTypeOk(e)
     \/ \E q \in paths : Folded(q) = Folded(e.path)
     \/ \E f \in archive : f # e /\ Folded(f.path) = Folded(e.path)}
(* _same_unit: publish adds a line and drops brackets, nothing else.       *)
SameUnit(archived, local) ==
  /\ [archived EXCEPT !.links = {}, !.bare = {}] = [local EXCEPT !.links = {}, !.bare = {}]
  /\ archived.links \subseteq local.links
  /\ archived.links \cup archived.bare = local.links \cup local.bare
AssetsOf(p, paths) ==
  {q \in paths : q.kind = "asset" /\ q.store = p.store /\ q.dirs = p.dirs /\ q.name = p.name}
(* A mutant: a unit is published when an archive names it. *)
NamedInArchive(paths, files, archives) ==
  {p \in paths : /\ p.kind = "unit" /\ p \in DOMAIN files
                 /\ \E a \in archives : \E e \in a : e.path = p}
(* published_paths: the units some archive that consume would accept holds *)
(* in their present form, with every asset.                                *)
PublishedPaths(paths, files, archives) ==
  {p \in paths : /\ p.kind = "unit" /\ Len(p.dirs) \in {1, 2}
                 /\ \E a \in archives :
                      /\ ConsumeProblems(a, {}) = {}
                      /\ \E e \in a : e.path = p /\ SameUnit(e.body, files[p])
                      /\ \A q \in AssetsOf(p, paths) :
                           \E e \in a : e.path = q /\ e.body = files[q]}
=============================================================================
