----------------------------- MODULE LocalStore -----------------------------
(***************************************************************************)
(* The two local stores of a workspace and what happens to them: sessions  *)
(* that capture a run folder once and write their units into it, the       *)
(* generators of the two INDEX.md files, the archives an agent publishes   *)
(* from the understandings store, the check before an archive is           *)
(* unpacked, and the loss of the workspace.                                *)
(*                                                                         *)
(* The generators, --run-folder and --consume-check are code; writing a    *)
(* unit, publishing and unpacking are done by the agent as the skills'     *)
(* procedures say and are external.                                        *)
(***************************************************************************)
EXTENDS StoreLayout

CONSTANTS Sessions,     \* the session ids, numbers
          Plain,        \* session -> the id with its unsafe characters replaced
          Slugs,
          Writes,       \* what an agent may write: [store, under, name, kind, body]
          Bodies,       \* the contents an asset or an edit may have
          OldStores,    \* the stores a workspace may start with
          MaxClock,     \* bound: minutes that pass
          MaxFiles,     \* bound: files of both stores
          MaxArchives,  \* bound: archives published
          MaxChanges    \* bound: edits in place and damages to archives

(* What a workspace starts with was written before: no run folder of its   *)
(* own minutes is there yet, and no evidence without its folders.  The     *)
(* procedures of the skills write a unit into the run folder or into one   *)
(* category of it.                                                         *)
ASSUME WorkspaceAssumption ==
  /\ Day \in Nat \ {0} /\ MaxClock \in Nat \ {0}
  /\ \A s \in Sessions : s \in Nat /\ Plain[s] \in Nat
  /\ \A body \in Bodies : IsBody(body)
  /\ \A w \in Writes : /\ w.store \in {"understandings", "memories"} /\ w.kind \in {"unit", "note"}
                       /\ w.name \in Slugs /\ (w.under = << >> \/ w.under = <<w.under[1]>>)
                       /\ IsBody(w.body)
  /\ \A fs \in OldStores :
       /\ IsFiniteSet(DOMAIN fs) /\ fs = [p \in DOMAIN fs |-> fs[p]]
       /\ \A p \in DOMAIN fs : IsPath(p, Slugs) /\ IsBody(fs[p])
       /\ \A p \in DOMAIN fs : p.dirs # << >> /\ p.dirs[1].shape = "run" => StampOf(p.dirs[1]) < 1

NoFolder == << >>

VARIABLES files,     \* path -> content
          folds,     \* the file system compares names without case
          clock,     \* the UTC minute
          open,      \* session -> the run folder it captured
          archives,  \* the publish directory beside the store
          unpacking, \* the archives a check found safe to extract
          changes    \* edits in place and damages so far

vars == <<files, folds, clock, open, archives, unpacking, changes>>

Init ==
  /\ files \in OldStores
  /\ folds \in BOOLEAN
  /\ folds => OneNameEach(DOMAIN files)
  /\ clock = 1
  /\ open = [s \in Sessions |-> NoFolder]
  /\ archives = {}
  /\ unpacking = {}
  /\ changes = 0

Tick ==
  /\ clock < MaxClock
  /\ clock' = clock + 1
  /\ UNCHANGED <<files, folds, open, archives, unpacking, changes>>

(* --run-folder prints the whole folder for the session, stamped now. *)
RunFolder(s) ==
  /\ open[s] = NoFolder
  /\ open' = [open EXCEPT ![s] = RunFolderName(s, Plain[s], clock)]
  /\ UNCHANGED <<files, folds, clock, archives, unpacking, changes>>

(* What a write leaves: on a file system that folds case the entry of      *)
(* another case is replaced.                                               *)
SameEntry(p, q) == p = q \/ (folds /\ Folded(p) = Folded(q))
Written(p, body, fs) ==
  LET kept == {q \in DOMAIN fs : ~SameEntry(q, p)}
  IN  [q \in kept \cup {p} |-> IF q = p THEN body ELSE fs[q]]
HasRoom == Cardinality(DOMAIN files) < MaxFiles

(* The agent writes a unit of its run.  A slug that differs only by case   *)
(* from one of the folder reuses that name, so it is not a new file.  An   *)
(* agent may also use the old habit, or leave out the postfix.             *)
WriteUnit(s) ==
  /\ open[s] # NoFolder /\ HasRoom
  /\ \E w \in Writes :
       LET p == [store |-> w.store, dirs |-> open[s] \o w.under, name |-> w.name, kind |-> w.kind]
       IN  /\ \A q \in DOMAIN files : q.dirs = p.dirs /\ q.store = w.store => Folded(q) # Folded(p)
           /\ files' = Written(p, [w.body EXCEPT !.updated = clock \div Day], files)
  /\ UNCHANGED <<folds, clock, open, archives, unpacking, changes>>

(* Evidence beside a unit of the understandings store. *)
WriteAsset(s) ==
  /\ HasRoom
  /\ \E u \in DOMAIN files, body \in Bodies :
       /\ u.store = "understandings" /\ u.kind = "unit"
       /\ u.dirs # << >> /\ open[s] = <<u.dirs[1]>>
       /\ [u EXCEPT !.kind = "asset"] \notin DOMAIN files
       /\ files' = Written([u EXCEPT !.kind = "asset"], body, files)
  /\ UNCHANGED <<folds, clock, open, archives, unpacking, changes>>

(* A unit is redacted in place, or an asset refreshed. *)
EditInPlace ==
  /\ changes < MaxChanges /\ changes' = changes + 1
  /\ \E p \in FilesOf("understandings", files), body \in Bodies :
       /\ p.kind # "note" /\ body.text # files[p].text
       /\ files' = [files EXCEPT ![p] = [body EXCEPT !.updated = files[p].updated]]
  /\ UNCHANGED <<folds, clock, open, archives, unpacking>>

-----------------------------------------------------------------------------
(* What the generators write and print: neither reads its INDEX.md back,   *)
(* so each is a function of its store.  load_units of the understandings,  *)
(* with the warning of the current units a gitignored store holds in no    *)
(* archive, and the review.                                                *)
LoadUnits ==
  LET paths == FilesOf("understandings", files)
      records == Records(paths)
      current == Current(records, files)
      rows == {p \in current : IsRead(files[p])}
  IN  [rows |-> rows,
       named |-> StrayFiles(paths) \cup {p \in current : UnitHasProblem(files[p])}
                   \cup CaseCollisions(records) \cup Dangling(current, records, files),
       folders |-> NamedFolders(paths),
       warned |-> rows \ PublishedPaths(paths, files, archives),
       unused |-> NeverInherited(rows, records, files)]

(* The same of the memories: the same walk, no lineage and no archives.    *)
LoadMemories ==
  LET paths == FilesOf("memories", files)
      records == MemoryRecords(paths)
      current == MemoryCurrent(records, files)
      rows == {p \in current : IsRead(files[p])}
  IN  [rows |-> rows,
       named |-> MemoryStrays(paths) \cup {p \in current : MemoryHasProblem(files[p])}
                   \cup MemoryCaseCollisions(records),
       folders |-> NamedFolders(paths),
       warned |-> {p \in rows : MemoryIsStale(files[p], clock)},
       unused |-> {}]

-----------------------------------------------------------------------------
(* The agent archives the units the index lists, with their assets; a      *)
(* portable archive leaves out the others and unbrackets their slugs.      *)
Publish ==
  /\ Cardinality(archives) < MaxArchives
  /\ \E portableOnly \in BOOLEAN :
       LET listed == LoadUnits.rows
           chosen == {p \in listed : portableOnly => files[p].portable}
           left == {p.name : p \in listed \ chosen}
           copy(p) == [files[p] EXCEPT !.links = @ \ left, !.bare = @ \cup (files[p].links \cap left)]
           entry(p, body) == [path |-> p, body |-> body, type |-> "file", good |-> TRUE]
       IN  /\ chosen # {}
           /\ archives' = archives \cup
                {{entry(p, copy(p)) : p \in chosen}
                   \cup {entry(q, files[q]) :
                           q \in UNION {AssetsOf(p, DOMAIN files) : p \in chosen}}}
  /\ UNCHANGED <<files, folds, clock, open, unpacking, changes>>

(* An archive is damaged, holds a symlink, or holds a name twice in two    *)
(* cases, as a file system that tells them apart lets it.                  *)
ArchiveIsFlawed ==
  /\ changes < MaxChanges /\ changes' = changes + 1
  /\ \E a \in archives \ unpacking : \E e \in a : \E f \in {[e EXCEPT !.good = FALSE], [e EXCEPT !.type = "symlink"]}
                             \cup {[e EXCEPT !.path.name = n] :
                                     n \in {m \in Slugs : Fold[m] = Fold[e.path.name]}} :
       archives' = (archives \ {a}) \cup {(a \ (IF f.path = e.path THEN {e} ELSE {})) \cup {f}}
  /\ UNCHANGED <<files, folds, clock, open, unpacking>>

(* The workspace is disposed of: both stores are gone, the archives stay,  *)
(* and the next one is made in a later minute.                             *)
WorkspaceIsLost ==
  /\ clock < MaxClock
  /\ clock' = clock + 1
  /\ files' = << >>
  /\ open' = [s \in Sessions |-> NoFolder]
  /\ unpacking' = {}
  /\ UNCHANGED <<folds, archives, changes>>

(* --consume-check finds an archive safe to extract. *)
ConsumeCheck ==
  /\ \E a \in archives : /\ ConsumeProblems(a, FilesOf("understandings", files)) = {}
                         /\ unpacking' = {a}
  /\ UNCHANGED <<files, folds, clock, open, archives, changes>>

(* The agent extracts the archive: of entries that are one file to the     *)
(* file system the last one stays, and which that is cannot be told.       *)
LastOf(e, archive) == CHOOSE f \in archive : SameEntry(f.path, e.path)
Extract(archive, fs) ==
  LET landed == {LastOf(e, archive) : e \in archive}
      kept == {q \in DOMAIN fs : \A e \in archive : ~SameEntry(q, e.path)}
  IN  [q \in kept \cup {e.path : e \in landed} |->
         IF q \in kept THEN fs[q] ELSE (CHOOSE e \in landed : e.path = q).body]
Consume ==
  /\ \E a \in unpacking : files' = Extract(a, files)
  /\ unpacking' = {}
  /\ UNCHANGED <<folds, clock, open, archives, changes>>

Next ==
  \/ Tick
  \/ \E s \in Sessions : RunFolder(s) \/ WriteUnit(s) \/ WriteAsset(s)
  \/ EditInPlace
  \/ Publish
  \/ ArchiveIsFlawed
  \/ WorkspaceIsLost
  \/ ConsumeCheck
  \/ Consume

Spec == Init /\ [][Next]_vars

-----------------------------------------------------------------------------
(* A store holds files whose folders, kind and name the walk knows. *)
TypeOK ==
  /\ \A p \in DOMAIN files : /\ p.store \in {"understandings", "memories"}
                             /\ p.kind \in {"unit", "note", "asset"}
                             /\ p.name \in Slugs
  /\ folds \in BOOLEAN
  /\ clock \in 1..MaxClock
  /\ unpacking \subseteq archives
  /\ \A a \in archives : \A e \in a : e.path.store = "understandings"

(* A unit a session wrote under its captured run folder. *)
Exported(p) == /\ p.kind = "unit" /\ Len(p.dirs) = 2
               /\ p.dirs[1].shape = "run" /\ p.dirs[2].shape = "category"

(* After a generator ran, every file of its store that could be a unit is  *)
(* listed, is superseded by a copy of its slug from a run at least as late *)
(* that is listed or named, or is itself named: the index never drops a    *)
(* file without a word ("silently vanished from the index").               *)
Accounts(store, result) ==
  LET paths == FilesOf(store, files)
      said == result.rows \cup result.named
      late(p, q) == StampOf(q.dirs[1]) >= StampOf(p.dirs[1])
  IN  \A p \in paths : p.kind # "asset" =>
        \/ p \in said
        \/ /\ p.kind = "unit" /\ p.dirs # << >>
           /\ \E q \in said : q.name = p.name /\ q # p /\ q.dirs # << >> /\ late(p, q)
        \/ SubSeq(p.dirs, 1, 2) \in result.folders /\ ~Exported(p)
NothingDropsOutUnnamed ==
  Accounts("understandings", LoadUnits) /\ Accounts("memories", LoadMemories)

(* A unit the understandings generator does not warn of survives the       *)
(* workspace: some archive would be accepted by an empty store, and        *)
(* unpacking it brings back the unit and every asset as they are now.      *)
Survives(p) ==
  \E a \in archives :
    /\ ConsumeProblems(a, {}) = {}
    /\ LET back == Extract(a, << >>)
       IN  /\ p \in DOMAIN back
           /\ back[p].text = files[p].text
           /\ back[p].links \cup back[p].bare = files[p].links \cup files[p].bare
           /\ \A q \in AssetsOf(p, DOMAIN files) : q \in DOMAIN back /\ back[q] = files[q]
UnwarnedUnitsSurvive ==
  LET made == LoadUnits IN \A p \in made.rows \ made.warned : Survives(p)

(* Nothing that is written or unpacked replaces what is there: history is  *)
(* never overwritten, by another session or by an archive, whatever the    *)
(* file system makes of case; and all of an unpacked archive lands.        *)
NothingIsOverwritten ==
  [][/\ files' # << >> /\ ~EditInPlace =>
          \A p \in DOMAIN files : p \in DOMAIN files' /\ files'[p] = files[p]
     /\ Consume => \A a \in unpacking : \A e \in a : e.path \in DOMAIN files' /\ files'[e.path] = e.body]_vars

(* Usage accrues to the slug: a listed unit is reported as never inherited *)
(* only when no readable unit the store indexes, current or superseded,    *)
(* names it in its lineage.                                                *)
UsedKnowledgeIsNotFlagged ==
  \A p \in LoadUnits.unused :
    ~\E q \in FilesOf("understandings", files) :
       /\ Exported(q) /\ files[q].shape \in {"well formed", "bad field"}
       /\ p.name \in files[q].links \cup files[q].bare
=============================================================================
