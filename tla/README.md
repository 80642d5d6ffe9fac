# TLA+ models of the context-memory service

This directory holds the specifications kept beside the code of *smooth-ai-product-context-memory*:
a .NET service that stores what teams learn as versioned *memories* in PostgreSQL (tables, and an
Apache AGE graph in the same database) with their bodies in an object store, and the Python skills
with which coding agents write to it and read from it. TLC checks the models on small instances;
TLAPS proves every safety property of the passing runs for every value of the constants.

## 1. Inventory

| Component | State it keeps | Operations | Hard behaviour | What makes it correct |
|---|---|---|---|---|
| Write pipeline (`Features/Memories/SetMemories.cs`) | `memory`, `memory_version`, `label` rows; graph edges; blobs | plan, store blobs, one transaction, answer | plans read before the transaction; READ COMMITTED; batches in opposite order; lost answers and retries | a version chain with one current row; all of a batch or nothing; unique subjects and edges; cited blobs exist |
| Curation (`CreateLink`, `ProposeLabel`, `UpsertInitiative`) | the same edges and labels, one at a time | create if absent | check, then write; no unique constraint on edges | idempotent, no duplicate edge or label |
| Groups and tickets (`ResolveGroup`, `UpdateGroup`, `AppendGroupDescription`, `SetTicketParent`, `AddTicketReferences`, `NpgsqlTicketGraph`, the membership trigger) | groups, the tickets they own, vertices, parents, references, descriptions | resolve or create, merge, append, re-parent, refer, release | two requests claim one ticket; re-parent races; triggers fired by table writes | a ticket has at most one owner and one parent; no cycle; description versions are a chain |
| Product graph (`NpgsqlProductGraph`) | products and their repositories and initiatives | upsert, link, unlink | names that differ only in case; links of two owners | one product per name, one owner per repository |
| Snapshot job (`SnapshotJobCoordinator`, `FileSnapshotMetadataStore`) | one job slot, its status, the metadata file | start, run, read | two starts; status read while written; crash inside a file write | at most one job; a finished job has its result |
| Snapshot and restore (`NpgsqlSnapshotRepository`, `TarSnapshotArchive`, `SnapshotStore`, `RestoreArchive`) | an archive of every table, edge and blob | capture, verify, restore | capture beside writers; restore that stops half-way; edges that match no endpoint | an archive is closed; a restored store equals it, or nothing was restored |
| Query and traversal (`QueryMemories`, `NpgsqlMemorySearch`, `NpgsqlMemoryTraversal`, `FindPaths`) | none | search, walk, page | read-only | walks are bounded and visit no edge twice |
| Recall feedback (`NpgsqlRecallFeedback`) | recall counters | record, report, reset | lost increments | counts never exceed the recalls |
| Contextual export, dossier (`Features/Export`, `Features/ContextDossier`) | files of an export; none | select, render, write | a directory replaced half-way | an export is whole or absent |
| Host, AppHost, scripts, viewer | none of their own | routing, wiring, installation, rendering | | |
| Review queue of the skills (`review_queue.py`) | a queue file and its lock file | hold, list, resolve | a lock left by a killed process and taken over; resolve reads outside the lock; the cap counted before it is written | no held entry disappears, the cap holds, every call ends |
| Local stores (`understanding_index.py`, `memory_index.py`) | run folders of units and assets, INDEX.md, published archives | name a run folder, index, review, publish, check and unpack an archive | superseded copies, names that differ by case, damaged archives, a workspace that is lost | nothing drops out of an index unnamed; a unit nobody is warned of survives; nothing is overwritten |
| Dossier composer (`dossier_composer.py`, `near_miss_tags.py`) | the saved bundle, the document | fill anchors, preview, fetch, compose | cycles of provenance, consolidation and lens together, a store that changes between preview and fetch | provenance reads first; every item is cited or listed; composing ends |
| Session scan (`find_session_metadata.py`) | none | scan the checkout | values a redactor would change; a checkout with no commits or no git | nothing withheld is disclosed |
| Session marker, decisions ledger (`session_marker.py`, `decisions_gate.py`) | marker and ledger files | record, read; score, spend an attempt | read-modify-write without a lock; unreadable and old files | receipts are true; attempts are bounded |
| Clients (`context_memory_client.py`, `understanding_client.py`) | dumps | recall, load, dump, set, export | batches after lost answers, kills between a write and its receipt, previews through the write's own path | a proposal never becomes a version; a preview spends nothing; a change is not taken for an echo |

The components meet in the database. The write pipeline and curation write the same edges under the
same advisory lock (734921, 2); product writes take (734921, 3), ticket writes (734921, 1). Groups
own the tickets that memories may reference. Capture reads what all of them wrote; the skills only
see the service through HTTP and keep files of their own: an export asks the gate (which keeps the ledger),
queues what it holds back in the review queue, writes through the odin client and records what was
written in the session's markers, which the next export of the session reads.

## 2. Modules

| Module | What it is |
|---|---|
| `VersionedStore` | What the write pipeline promises about versions: a client reads, and then either appends one version on top of exactly the versions it read, or gives up. |
| `MemoryStore` | `SetMemories` over PostgreSQL, the graph and the blob store, one action per statement that another request can observe. |
| `MCMemoryStore` | Instances of `MemoryStore` for TLC: three sets of requests. |
| `MemoryStoreProofs` | Theorems about `MemoryStore`, checked by TLAPS: types, history, unique subjects and edges, and the inductive invariant of the walk that the next two modules build on. |
| `MemoryHistoryProofs` | Theorems about version chains, and that the pipeline refines `VersionedStore`. |
| `MemoryWholeProofs` | Theorems about the request as a whole: all or nothing, edges, locks. |
| `TicketGraph` | Groups, the tickets they own, the hierarchy of tickets, descriptions and references, with the triggers of the migrations. |
| `MCTicketGraph` | Instances of `TicketGraph` for TLC. |
| `TicketGraphProofs` | Theorems about `TicketGraph`, checked by TLAPS. |
| `ReviewQueue`, `MCReviewQueue` | The queue file and its lock, one action per step of a process. |
| `ReviewQueueProofs` | Theorems about `ReviewQueue`, checked by TLAPS. |
| `StoreLayout` | The layout rules of the two local stores as operators: walks, problems, versions of a slug, review, archives. |
| `LocalStore`, `MCLocalStore` | A workspace: sessions that write, the index generators, publishing, unpacking, loss. |
| `LocalStoreProofs` | Theorems about `LocalStore`, checked by TLAPS. |
| `SessionScan` | What a scan of the checkout discloses. |
| `Composition` | The dossier's rules as operators: validation, precedence, cycles, consolidation, findings, lens, document. |
| `Dossier`, `MCDossier` | A dossier from the anchors to the document, with the order made item by item. |
| `DossierProofs` | Theorems about `Dossier`, checked by TLAPS. |
| `SessionMarker` | The marker file and what is excluded by it. |
| `DecisionsGate` | Refusals of the gate, and the attempt ledger. |
| `ContextClient` | What the odin client refuses, leaves out, scrubs and receipts. |
| `KvasirExport` | Input, candidates, binding, batches and proposals of the kvasir client. |
| `SessionExport`, `MCSessionExport` | The processes of a session around the store; composes the four modules above. |
| `SessionExportProofs` | Theorems about `SessionExport`, checked by TLAPS. |

### MemoryStore

A request is a process (`pc[w]`) that goes through `received`, `planned`, `resolved`, `items`,
`saving`, `graph`, `product`, `commit`, `done`:

* `PlanItems`, `PlanRest` are `BuildPlanAsync`: plain reads of committed state, with their early
  refusals in the code's order. The batched reads of one stage are one step: memory rows are never
  deleted, and the only read whose result a concurrent commit can turn stale is the read of the
  current versions.
* `StoreBlobs`, `StoreBlobsFails` upload the bodies before the transaction opens.
* `CreateNew`, `KeepUnchanged`, `VersionExisting` are the walk over the items; what they add stays in
  `todo[w]`, the change tracker, until the next `SaveChanges`. `FlipCurrent`, `InsertMemory`,
  `InsertVersion`, `InsertLabel` are the statements of one `SaveChanges`, in any order that the
  foreign key admits; `Saved` is its return.
* `GraphWrites`, `ProductWrites` take an advisory lock, look again, and create what is absent.
* `Commit` publishes the overlay; `Abort` throws it away.
* `DeadlockVictim`, `Interrupt`, `LoseAnswer`, `Retry` are the world around a request.

Transactions are READ COMMITTED. `tx[w]` is the overlay of rows a transaction has written; a
statement that meets another transaction's uncommitted row of the same key waits (`*WaitsFor`), and
one that meets a committed row is refused (`*IsRefused`), as the unique indexes and the append-only
trigger of the migrations do.

Data are abstract: a claim is a value (its normalisation is `MemoryClaim`'s), a body is `BlobOf` its
claim, a slug, label or ticket a model value. Every row carries `by`, the request that wrote it,
which the code does not store: it only lets the properties name the writer.

### TicketGraph

Everything that changes ownership or the hierarchy runs in one READ COMMITTED transaction that takes
the advisory lock (734921, 1) before its first read, or, for SQL an operator types, in the statement
trigger before the first row changes; references take (734921, 2). A request is therefore three
steps: it is received; it gets its lock, reads and writes (`ResolveGroup`, `UpdateGroup`,
`ChangeParent`, `Release`, `WriteReferences`), which leaves a `draft[c]` that nobody else sees; and
`Commit` publishes the draft and frees the lock. A request that is refused, or has nothing to write,
ends in its second step: nobody can observe the lock it held in between. `Interrupt` rolls back at
any point.

* `BornVertices`, `OwnershipConflicts`, `ReleaseIsRefused`, `GoneVertices` are the membership
  trigger. A vertex has an identity of its own, as in AGE: a ticket that is released and comes back
  gets another vertex.
* `AppendDescription` reads the last number without a lock; `InsertDescription` is the autonomous
  insert, which the unique index may refuse. `PlanReferences` reads the owners before its
  transaction opens.
* `Release` is SQL, for the service has no request that removes a ticket; the trigger is written for
  it.

Of the scope dimensions, `customer` stands for the two that need an identifier, `product` for the
two that do not. Repository, initiative and texts of a group are columns that nothing here depends
on; whether a named initiative exists is kept, for it decides between success and refusal.

### ReviewQueue

A process is `idle`, waits for the lock (`locking`), has found it stale and is about to unlink it
(`taking`), is in the block (`locked`, `admitted`, `copied`), or leaves it (`unlocking`). `FindStale`
and `UnlinkStale` are two steps, because the code reads the age of the file in one call and removes
its name in another. `Resolve` looks for its entry before it locks. `CopyLines` writes the temporary
file, `ReplaceFile` renames it over the queue. Processes in `Mortals` may be killed anywhere; only
the lock of a dead process grows stale, which is what the comment on the two bounds of the code
assumes of the others.

### LocalStore

`files` maps paths (store, folders, slug, kind) to contents; names compare by `Fold` where the file
system folds case, which `Init` leaves open. `LoadUnits` and `LoadMemories` are the two walks, whose
results (rows, named problems, warned and unused units) are state functions: a generator writes
nothing that the next one reads. Writing, publishing and unpacking are the agent's, as the skills'
procedures tell it to; `ConsumeCheck` and the run folder's name are code. An archive may be damaged
or made elsewhere, and `WorkspaceIsLost` empties the files.

`WorkspaceAssumption` says what the constants are: a file lies at the top of its store, in a run
folder or in one category of it, which is the layout the skills prescribe; a file any deeper, beside
a unit of the same category, is neither read nor named by the walks, and no property speaks of it.
The run folders of an old store are of earlier minutes, and on a file system that folds case no two
files of it are one entry.

### Dossier

`Preview` and `Fetch` ask for a selection and save the bundle, with a capture by somebody else
possible in between; `StartCompose` checks the bundle and the judgements; `EmitReady` and
`BreakCycle` make the order one item at a time, as the heap does; `Write` consolidates, looks through
the lens, reconciles and renders. `SwitchBranch` changes what the anchors are filled from.

### SessionExport

A process runs one command at a time (`pc`, `call`) and shares the store, the markers, the ledger,
the review queue and the dumps with the others of its session. `Import`, `Load`, `Dump`, `Set` and
`Export` start; an export goes through `held`, `initiative`, `gate` (`opening`, `scoring`, `spending`,
`asking`, `noting`), `judged`, `batch`, `veto`, `writing`, `sending`, `marking` and, for what was held back, `proposing`.
`ReadMarker` and `ReplaceMarker` are two steps without a lock. `Send` stores and may lose the answer;
`GateFails` is a gate that fails, after which everything is kept; `Die` kills a process anywhere.
The store is external: one group of memories with their versions, which refuses what the service
refuses.

The ledger is read in one step and replaced in a later one, and nothing locks it. `StartScoring`,
`SpendNext` and `Answer` read the file and start to write the temporary file (`draft[p]`);
`ReplaceLedger` is the `os.replace`. There is one temporary file for all processes, so `draft[p].hold`
says what a writer has of it: it is `own` while nobody else writes; two at once make it `shared`, and
what either of them moves into place is then the content of one of them or a torn file; whose file
was `moved` by another goes on writing to the ledger itself (`TearLedger`), and has nothing of its own
left to move. `KeepLedger` is the one failure of a write the gate survives, `GateFails` and `Die` the
others; both may leave what had been written. Reading the ledger and opening the temporary file are
one step: between them the code only computes, and what another process replaces in that moment is
undone exactly as if it had been replaced a moment later, by a writer that `draft` has at work. A
client that is killed takes its gate with it.

The processes of a session therefore lose attempts, as the code's comment says they may
(`decisions_gate.py:1070`). What the code does promise is `AttemptsAreSpentFirst`: a gate that is
alone from its read to its replacement asks its question with the attempt counted on from it and kept in it, whoever
wrote before, and no question goes past the setting as its gate read the count.

One chain of session
variables stands for the two slightly different ones of markers and dumps. A body is a value:
`Redacted`, `Bundled`, `Oversize` and `Worth` say what the redactor, the atomicity detector, the size
guard and the model make of it. The filters of the code are written with the places they keep
(`Select`, `AtPlaces` of `SessionMarker`), and `PutAll` is a recursive function, because the prover
takes `SelectSeq`, `SetToSortSeq` and `FoldLeft` as opaque.

`SessionAssumption` says what the constants are: every body of a call's source is one the redactor has
an answer for; what the store and the dumps hold at the start was scrubbed; the settings of a call
allow a number of attempts, and those already in a ledger are within the largest one; the receipts
of earlier calls are true of the old store; a marker has a place for each skill and session.

## 3. Runs

| Run | Instance | What it shows |
|---|---|---|
| `memory_races` | two writers, five requests that bump two seeded memories up to three times, each sent at most twice | version chains (`NewestIsCurrent`), no version without a change (`NoEmptyVersion`), bodies before rows (`CitedBlobsAreStored`), the last item of a batch wins, and refinement of `VersionedStore` |
| `memory_captures` | two writers, eleven requests over two groups with creates, mints, links, a label, ticket references, products, a dry run | unique subjects and edges, edges between stored memories, no reference to an own ticket, all or nothing |
| `memory_live` | three writers, batches in opposite orders and both advisory locks | no holder of an advisory lock is in a deadlock, every request is answered |
| `ticket_groups` | two clients, two requests each out of twenty: resolves, merges, scopes, descriptions, references | one owner for each ticket, no lost merge, scopes identified, descriptions 1 to n, references only to tickets of other groups |
| `ticket_hierarchy` | two clients, three requests each out of thirteen: parents set, moved, removed, restated; merges; releases | the hierarchy is a forest over the vertices of owned tickets; a parent is replaced only by who expected it |
| `ticket_release` | two clients: one reference, one release | a violation, see below |
| `review_queue` | two processes, one of which may be killed; two calls each, two ids, a cap of two | lines are only appended, the cap holds, every call ends |
| `review_takeover` | three processes, one of which is killed | a violation, see below |
| `local_store` | two sessions whose ids share a plain form, slugs that differ by case, old stores of each era; three files, one archive, one damage or edit | no file drops out of an index unnamed, unwarned units survive, used knowledge is not flagged, nothing is overwritten |
| `dossier` | two bundles of three and four items under all combinations of four provenance edges, four judgements, a capture and a switch of branch | provenance reads first up to a reported cycle, every item is cited or listed, composing ends |
| `session_export` | two processes, two calls in all out of six kinds of request; old and unreadable markers, an old ledger | receipts name what is stored, proposals only create, a preview spends nothing, an attempt is on file before its question (`AttemptsAreSpentFirst`) while gates read and replace one ledger at once |
| `session_echo` | the same instance | a violation, see below |

**Finding: a lost reference.** `docs/hlds/003-graph-edges-on-age/README.md:190` says that a ticket with incoming
`ABOUT` edges is never released, "so a memory→ticket reference is never lost silently". The trigger
(`20261015100000_AddAboutReference.cs:102`) counts the committed edges while it holds the lock
(734921, 1); the writer of a reference holds (734921, 2). In the run's counterexample the reference
is written and not committed when the release counts none, the release deletes the vertex, and both
commit: the reference points to a vertex that is gone. Only SQL typed by an operator can release a
ticket.

**Finding: a lost hold.** `review_queue.py:322` promises to "Serialise every read-modify-write of the
queue across processes". A process is killed with the lock; two others find the lock stale; the first
unlinks it and creates its own; the second, which had already decided, unlinks that one. Both are in
the block, both copy the file, and the replacement by one erases the line of the other, whose id was
reported as held. The same code also unlinks, on leaving the block, whatever lock is there.

**Finding: a change taken for an echo.** LADR-11
(`docs/hlds/007-understanding-transfer/ladrs/LADR-11-import-marks-the-export-boundary.md:52`) says
"**Changed imported items** are not dropped". `_apply_export_marker` (`context_memory_client.py:678`)
compares the uuid and the description that was first recorded with it, and nothing else: an item that
keeps its subject and changes its statement is left out, and if it is one of several the batch
succeeds without it.

**Observed, without a run of its own.** A consolidated claim takes the earliest place of its origins,
so it may read before what another of its origins rests on (`dossier_composer.py:1034`). `export
--nomarker` and `--all` are not handed to the odin client that writes (`understanding_client.py:816`),
which records its own marker entry. A record whose attempts are spent is kept by the export and held
by the report of `ai-understanding` (`gate_decisions.py:173`). Two marker writes at once lose one
entry, and two gates at once may lose a spent attempt. Two index generators at once may leave the
older INDEX.md. Resolving judges a choice by an entry it read before the lock.

Two writers are enough for every pairwise conflict (each conflict is on one key, between two
transactions); the third in `memory_live` makes queues behind a lock and cycles with a bystander.
Three items are enough for a chain of two bumps and another subject in between. `MaxAttempts` bounds
how often a client repeats a request: the second attempt is the first that meets its own effects.

`FairSpec` assumes weak fairness of each request's own service (`Serve`): the thread pool schedules
it, and PostgreSQL wakes a statement whose lock is free and aborts a victim of a deadlock. Nothing is
assumed of clients, of the object store's failures or of interrupts.

The bounds of the newer runs: two survivors and one dead process are the least in which a take-over
can race, and one survivor the most in which it cannot, so the two queue runs share one module and
differ in that alone. Four items and four edges make cycles of two and three, two that share an item,
and an item that hangs off one. Two calls in a session are a write beside a write, a preview or a
recall, or one after the other; the second call is the first that meets a receipt. Three files are a
unit, a copy that supersedes it and one that collides with it by case.

`FairSpec` of `ReviewQueue` assumes that a process that lives goes on and that time passes for the
lock of a dead one: the code polls with `time.sleep`. `FairSpec` of `Dossier` assumes that a started
composition runs: it is one process without input. `LocalStore` and `SessionExport` assume no fairness;
no liveness is stated of them, for the agent may stop anywhere. Deadlock is not checked where the
calls of an instance run out.

## 4. Proofs

TLAPS proves the following for every value of the constants that the named assumptions admit. Every
inductive invariant below was first checked by TLC on the instance of the component's run.

### The write pipeline

For any number of writers, memories, items and attempts, under the assumptions of `MemoryStore`
alone; these are all the safety properties of its three runs, and one more (`HistoryIsKept`).

`MemoryStoreProofs`:

* `TypeCorrect`: `TypeOK`. Inductive as `TypeInv`, which adds that a writer in `saving` holds a
  version to supersede.
* `HistoryIsKept`: `HistoryIsAppendOnly`, by `OnlyCommitWrites`: no step but a commit touches the
  tables, and a commit only adds rows and clears current marks. It is proved and in no run: no request
  rewrites a version, so there is little in it that a search could find.
* `SubjectsStayUnique`: `SubjectsAreUnique`. It is not inductive: the memory rows of open
  transactions count too. `SubjectsAreGuarded` says that committed rows and the rows of all overlays
  are pairwise distinct in both unique keys, which waiting and refusal preserve.
* `EdgesStayUnique`: `EdgesAreUnique`. The graph has no constraint, so the invariant
  `EdgesAreGuarded` says that only the holder of the graph's lock has edges in its overlay, and that
  those were absent from the store when it looked, and are still, for nobody else could commit one.
* `WalkInvHolds`: `WalkInv`, the invariant the rest stands on. It speaks of one writer: the rows it
  has written or is about to write are numbered on from the versions it read, one number for each
  item that changes its memory (`RowsAreNumbered`), exactly the last is marked current
  (`MarksAreRight`), what it flips is what it read or what it wrote itself (`FlipsAreOurs`), and the
  claims follow the items it has walked (`ClaimsFollow`). No other writer can disturb it, since it
  mentions no table.

`MemoryHistoryProofs`:

* `NewestStaysCurrent`: `NewestIsCurrent`. `StoreInv` adds to the walk what ties it to the tables: a
  writer whose flip went through holds the row of the version it read, which is current and the
  newest, so nobody else can append; `Chains` says that each memory has versions 1 to n. A stale plan
  survives to the flip and is refused there.
* `NoVersionIsEmpty`: `NoEmptyVersion`; `TheLastItemSpeaks`: `LastItemSpeaks`, from `ClaimsFollow`.
* `CitedBlobsStayStored`: `CitedBlobsAreStored`, since what is written was uploaded when the request
  left `resolved`, and no blob is removed.
* `BatchesAreCompareAndSet`: `WritesAreCompareAndSet`, the refinement. `Bases` and `Histories` map a
  state to one of `VersionedStore`; every step is a read, a commit of versions on top of exactly what
  was read, or a stutter. A commit appends several versions of one memory at once, which the abstract
  step takes as one append of a sequence.

`MemoryWholeProofs`:

* `LockHoldersAreSafe`: `LockHoldersNeverDeadlock`. `LocksComeLast`: the graph's lock is taken when no
  row is waited for any more, and the product's after it, so a cycle of waits has no holder on it.
* `EdgesAlwaysJoinMemories`, `NoMemoryIsAboutItsGroup`: `EdgesJoinMemories`, `NoAboutOwnTicket`.
* `AllOfARequestOrNothing`: `AllOrNothing`. `WholeInv` says, item by item and stage by stage, that
  what the request asked for is in its overlay or was there before; `Untouched` that a request which
  was never received left no trace. Both are needed because rows carry the request that wrote them,
  and a request sent again is the same request.

### Groups and tickets

`TicketGraphProofs` proves, for any number of clients, groups, tickets and requests, under the
assumptions of `TicketGraph` alone, every property of the runs `ticket_groups` and
`ticket_hierarchy`. It goes in three stages:

* `Numbered` is inductive: types, `IsDisciplined` (who has written holds the lock of its operation),
  and `Chained`, which the types need, since the next number is one more than a maximum that must
  exist: versions are 1 to n, and whoever has drawn number v knows that 1 to v-1 are there. It gives
  `TicketTypeCorrect` and `ChainOfDescriptions`.
* `Kept` adds `Sound`, the properties of the committed state, and `Promised`: the state that the
  commit of a draft would leave is sound too. Every transaction writes what is sound for the state it
  has read (`CreationIsSound`, `UpdateIsSound`, `ReleaseIsSound`, `ReparentingIsSound`), and nobody
  else changes that state before the commit (`LocksExclude`). It gives `OneOwnerForEachTicket`,
  `OneVertexForEachOwnedTicket`, `HierarchyStaysAForest`, `ScopesStayIdentified`, `NoMergeIsLost` and
  `ParentsChangeAsExpected`. That a new edge closes no cycle (`OneMoreEdge`) is shown by closed sets
  of tickets and needs no induction over paths.
* `Foreign` says that references, those of open transactions and those only planned, lead to tickets
  that a group owns, and not the memory's. It gives `NoReferenceComesHome`: `ReferencesStayForeign`,
  under the hypothesis `NothingIsReleased`: no request of the instance releases a ticket. The plan
  compares owners before its transaction, under another lock than the owners change under; a ticket
  that is released in between can come home, as run `ticket_release` shows of the reference itself.
  The service has no request that releases a ticket; SQL can.

### The skills

`ReviewQueueProofs` proves three theorems for any number of processes that die anywhere, and two more
under `AtMostOneRemains`, which says that no two processes survive a third that may die: no death at
all, or two processes of which one may die. That is exactly when two take-overs cannot race, and
`review_takeover` shows what happens otherwise.

* `QueueTypeCorrect`: `TypeOK`.
* `NoLockIsLeftBehind`: a lock file is that of a process still in the block, and not stale, or of one
  that died. So whoever waits for it waits for a process that goes on or for a lock that gets stale,
  also after take-overs have raced: the part of `CallsEnd` that is no matter of fairness.
* `EachCallIsRecordedOnce`: a race of take-overs may lose a line, but no call has two. `LinesAreOfCalls`
  bounds the calls whose lines can be in the file or in a copy by what each process has written.
* `NoLineIsLost`: `QueueIsAppendOnly`. `QueueInv` says that whoever is in the block owns the lock
  (`OwnersAreCritical`), that a stale lock is a dead process's, that a taker is alone, and that a copy
  is the file with one line more (`CopiesAreFresh`).
* `CapStaysKept`: `CapIsKept`, since what was admitted still fits when it is written, and a line opens
  at most one entry (`OneMoreLine`).

`LocalStoreProofs` proves every property of `local_store`, under `WorkspaceAssumption` (section 2):
`LocalStoreTypeCorrect`, `NoUnitVanishesFromAnIndex`, `WhatIsNotWarnedOfSurvives`,
`WhatIsInheritedIsNotFlagged` and `HistoryIsNotOverwritten`.

* That nothing falls out of an index is two lemmas: the walk meets every file
  (`TheWalkMeetsEveryFile`), and every slug has a newest copy (`EverySlugHasACurrentCopy`: of finitely
  many copies, one that the fewest are newer than).
* That an archive which is accepted brings everything back is `AnAcceptedArchiveLands`: its entries are
  different files to every file system.
* That nothing is overwritten needs the inductive invariant `Inv`. An archive is checked in one step
  and unpacked in a later one, while sessions go on writing; `SafeToUnpack` says that the check still
  holds. It is kept because a session only writes into a run folder of its own (`Fresh`: open, or of
  this minute), and an archive that holds an entry of such a folder was refused: what was published
  from it is still there (`FreshEntriesAreStored`), a lost workspace being followed by a later minute.
  Evidence needs `FreshEvidenceHasItsUnit`, as the spelling of its name is its unit's.

`DossierProofs` proves every safety property of `dossier`, under `InputsAreTyped`, for every bundle,
judgement, focus and set of provenance edges.

* `EveryBundleReadsInOrder`: `ReadsAfterWhatItRestsOn`. `IsOrdering` says of an order under way that
  what was read rests on what was read before, or on the same reported cycle. A step that breaks a
  cycle picks one that nothing left over leads into; that there is one (`SomeAreUnfed`,
  `CycleIsFedFromWithin`) uses the transitive closure of the edges, which `Composition` defines as the
  smallest transitive relation.
* `EveryItemIsAccountedFor`: `NothingSelectedIsLost`. The claims partition the items (`AreClaims`),
  each claim has one place in the rendering order (`ClaimsHavePositions`), and the lens leaves out
  whole claims.
* `ABundleAlwaysCloses`: the sum that ends `compose` (present, consolidated, omitted) always comes out,
  so its refusal is never met. It is a sum over the same partition.
* `AnItemIsAlwaysNext`, `EveryStepReadsOneMore`: while items are left over the composer has one of them
  to read next, whatever cycles the provenance makes, and each of its steps reads exactly one; it ends
  only with none left. These are the invariant and the measure behind `ComposingEnds`.
* `DossierTypeCorrect`: `TypeOK`.

`SessionExportProofs` proves every property of `session_export`, for any processes, requests,
records, settings, batch size and old store that `SessionAssumption` admits:

* `PreviewsSpendNothing`: `DryRunSpendsNothing`. `PreviewInv` bounds where a preview can be: an export
  only up to its batches, a set with nothing but its own batch and no receipt; each step is a step of
  one process (`StepOf`) that keeps this.
* `ReceiptsAreTrue`: `ReceiptsNameWhatIsStored`. A receipt is made of what was sent and of the answer
  to it, and is written steps later to a marker somebody else may have replaced, or from a copy that
  is stale. `SessionInv` therefore carries the truth of every receipt on its way: in the file
  (`MarkersFit`), in a copy that is about to replace it (`CopyFits`) and in the call in hand. It
  stays true because memories are never removed and versions only added, which `PutAllStores` says
  of a whole batch: the versions that were there are there still, and each item sent is among those of
  its target. The induction over a batch is by a least counterexample, for the prover has no
  induction scheme it can instantiate.
* `ProposalsAreNew`: `ProposalsOnlyCreate`. That an item of a proposal has no uuid when it is sent
  does not make it a create: its id must still be unused, whoever stored in between. `Fresh` names
  the ids a process is about to create; in `SessionInv` they are disjoint among processes and outside
  of the store. `ItemsFit` and `SentFits` tie what is sent to them, after the marker and the
  scrubber took items out. `PhaseInv` says that proposals come last: a call that proposes has no
  batch of clean items left.
* `SessionTypeCorrect`: `TypeOK`. That nothing unscrubbed is stored, queued or dumped follows items
  through the gates, the binding and the scrubber.
* `NoQuestionIsFree`: `AttemptsAreSpentFirst`, for any number of processes. Since the ledger is read
  and replaced in two steps, it needs an invariant of what is on its way: `SpendInv` says that, while
  an attempt is being written, it is within the setting, and that a draft which is its writer's `own`
  is exactly `SpendAttempt` of the ledger as it is now. The file can change under a draft only by
  another writer, and a second writer makes both drafts `shared` (`OwnAlone`, `OwnDraftsAreMoved`); a
  write that is left half-way, by a gate that fails or is killed, touches the ledger only if its file
  was `moved`, which again has another writer at work. That the entry is in the new file rests on
  `EntryInHandIsWritten`: the cap never evicts the entry being counted. Of two gates whose
  read and replacement overlap the theorem claims only the setting: the file may then hold either
  count, or be torn.
* `TheLeastSpentStay`, about `CapLedger` alone: any finite ledger is cut to at most its cap, keeps the
  entry in hand, and loses only entries that spent at least as much as every other that stays. Its
  hypotheses are that attempts and ranks are naturals and that entries differ in rank: a rank stands
  for a digest, and digests are the keys of the ledger.

### What is only model-checked

Liveness (`EveryRequestIsAnswered`, `CallsEnd`, `ComposingEnds`) rests on fairness and `ENABLED`,
which the prover does not handle. Safety facts that each of them rests on are proved:
`LockHoldersAreSafe`, `NoLockIsLeftBehind`, and `AnItemIsAlwaysNext` with `EveryStepReadsOneMore`. The measure of the last
two bounds the steps of every bundle, but that it therefore runs out is an induction, which is left to
TLC. Every invariant and action property of a passing run is proved.

TLC alone shows the three disagreements of section 3 (`review_takeover`, `ticket_release`,
`session_echo`): they are counterexamples.

## 5. Not modelled

* Layout, wording and rendering: INDEX.md, digests, frames, the prose of a dossier. Parsing of front
  matter, of store exports and of model responses is a value of the record.
* The single-request commands of the odin client (labels, initiatives, product names, links, ticket
  parents, paths), the product link that ends an export, and the links between twins of one batch.
* The decisions report of `ai-understanding` (`gate_decisions.py`): it runs the gate and prints.
* Curation writes, the product graph, snapshots and restore, queries, recall feedback, contextual
  export and dossier selection of the service: see section 6.
* Refusals that end a request and change nothing: a ticket vertex or a group that is gone when it is
  written to, an unknown memory of a reference, a missing initiative of a new group; a queue that is
  corrupt or configured badly, found under its lock; folder collisions, escaping paths and symbolic
  links in an archive (`ConsumeProblems`); `--reference-tickets` and `--product-name` of an export. The
  last tie-break of `OlderThan`, by path, and the collision check of subject folders.
* Answers of the service that leave an id out or confirm nothing (`_response_wrote_nothing`); the extra
  queue entries of `_handle_cross_kind_409`; a candidate that brings a status of its own.
* The host, the application host, the scripts and the viewer: wiring and rendering.

## 6. What could be modelled next

1. `SnapshotJob`, `Snapshot`: the job slot, capture beside writers, restore and its read-back.
2. `MemoryCuration` and `ProductGraph`: the single-edge writers against the same locks.
3. Export and dossier selection of the service; recall feedback; walks of the path search.
