-------------------------- MODULE LocalStoreProofs --------------------------
(***************************************************************************)
(* What holds of the two local stores of the skills and of the archives an *)
(* agent publishes from them, for every set of sessions, slugs, bodies and *)
(* old stores, with the proofs.                                            *)
(*                                                                         *)
(* The walk meets every file and every slug has a newest copy, so that     *)
(* nothing falls out of an index.  The entries of an archive that is       *)
(* accepted are different files on any file system, so that all of them    *)
(* land.  And what was published from a folder a session still writes into *)
(* is still there, so that an archive found safe to unpack stays safe      *)
(* while sessions go on writing: that is the inductive invariant Inv.      *)
(***************************************************************************)
EXTENDS LocalStore, FiniteSetTheorems, SequenceTheorems, NaturalsInduction, WellFoundedInduction, TLAPS

-----------------------------------------------------------------------------
(***************************************************************************)
(* Versions: of finitely many copies of a slug one is the newest.          *)
(***************************************************************************)

(* What version_key compares of a copy can be compared.                    *)
IsCopy(p, fs) ==
    /\ StampOf(p.dirs[1]) \in Nat /\ UpdatedOf(fs[p]) \in Nat
    /\ SessionOf(p.dirs[1]) \in Nat \X Nat

(* version_key is compared as one order: nothing is older than itself. *)
LEMMA OlderThanIsAnOrder ==
    ASSUME NEW fs, NEW p, NEW q, NEW r, IsCopy(p, fs), IsCopy(q, fs), IsCopy(r, fs)
    PROVE  /\ ~OlderThan(p, p, fs)
           /\ OlderThan(p, q, fs) /\ OlderThan(q, r, fs) => OlderThan(p, r, fs)
BY DEF OlderThan, IsCopy, LessPair

(* Of some numbers one is the least. *)
LEMMA SomeNumberIsLeast ==
    ASSUME NEW S \in SUBSET Nat, S # {}
    PROVE  \E n \in S : \A m \in S : n <= m
<1>1. PICK n \in S : \A m \in S : ~(<<m, n>> \in OpToRel(<, Nat))
  BY WFMin, NatLessThanWellFounded
<1>2. \A m \in S : ~(m < n)
  BY <1>1 DEF OpToRel
<1> QED BY <1>2

(* The newest copy is one that the fewest copies are newer than.           *)
LEMMA NewestIsNewest ==
    ASSUME NEW fs, NEW copies, IsFiniteSet(copies), copies # {}, \A p \in copies : IsCopy(p, fs)
    PROVE  /\ NewestOf(copies, fs) \in copies
           /\ \A q \in copies : ~OlderThan(NewestOf(copies, fs), q, fs)
<1> DEFINE newer(p) == {q \in copies : OlderThan(p, q, fs)}
           size == [p \in copies |-> Cardinality(newer(p))]
           S == {size[p] : p \in copies}
<1>1. ASSUME NEW p \in copies
      PROVE  newer(p) \in SUBSET copies /\ IsFiniteSet(newer(p)) /\ size[p] \in Nat
  <2>1. newer(p) \in SUBSET copies /\ size[p] = Cardinality(newer(p))
    OBVIOUS
  <2> HIDE DEF newer, size
  <2> QED BY <2>1, FS_Subset, FS_CardinalityType
<1>2. S # {} /\ S \in SUBSET Nat
  BY <1>1
<1>3. PICK n \in S : \A m \in S : n <= m
  <2> HIDE DEF S
  <2> QED BY <1>2, SomeNumberIsLeast
<1>4. PICK p \in copies : n = size[p]
  OBVIOUS
<1>5. \A q \in copies : size[p] <= size[q]
  BY <1>3, <1>4
<1>6. ASSUME NEW q \in copies, OlderThan(p, q, fs)
      PROVE  FALSE
  <2>1. newer(q) \in SUBSET newer(p)
    <3>1. ASSUME NEW r \in copies, OlderThan(q, r, fs) PROVE OlderThan(p, r, fs)
      BY <1>6, <3>1, OlderThanIsAnOrder
    <3> QED BY <3>1
  <2>2. q \in newer(p) /\ q \notin newer(q)
    BY <1>6, OlderThanIsAnOrder
  <2>3. IsFiniteSet(newer(p)) /\ size[p] = Cardinality(newer(p)) /\ size[q] = Cardinality(newer(q))
    BY <1>1
  <2>4. size[p] \in Nat /\ size[q] \in Nat /\ size[p] <= size[q]
    BY <1>1, <1>5
  <2> HIDE DEF newer, size
  <2>5. Cardinality(newer(q)) <= Cardinality(newer(p))
        /\ (Cardinality(newer(p)) = Cardinality(newer(q)) => newer(p) = newer(q))
    BY <2>1, <2>3, FS_Subset
  <2> QED BY <2>2, <2>3, <2>4, <2>5
<1>7. \E x \in copies : \A q \in copies : ~OlderThan(x, q, fs)
  BY <1>6
<1> QED BY <1>7 DEF NewestOf

(* Every slug has a current copy, from a run as late as any of its copies. *)
LEMMA EverySlugHasACurrentCopy ==
    ASSUME NEW fs, NEW records, IsFiniteSet(records), \A p \in records : IsCopy(p, fs),
           NEW p \in records
    PROVE  \E m \in Current(records, fs) :
             m \in records /\ m.name = p.name /\ StampOf(m.dirs[1]) >= StampOf(p.dirs[1])
<1> DEFINE copies == {q \in records : q.name = p.name}
           m == NewestOf(copies, fs)
<1>1. p \in copies /\ copies \in SUBSET records
  OBVIOUS
<1>2. IsFiniteSet(copies) /\ \A q \in copies : IsCopy(q, fs)
  <2> HIDE DEF copies
  <2> QED BY <1>1, FS_Subset
<1>3. m \in copies /\ ~OlderThan(m, p, fs)
  <2> HIDE DEF copies
  <2> QED BY <1>1, <1>2, NewestIsNewest
<1>4. m \in Current(records, fs)
  BY DEF Current
<1> HIDE DEF m
<1>5. m \in records /\ m.name = p.name /\ IsCopy(m, fs) /\ IsCopy(p, fs)
  BY <1>3
<1>6. StampOf(m.dirs[1]) >= StampOf(p.dirs[1])
  BY <1>3, <1>5 DEF OlderThan, IsCopy
<1> QED BY <1>4, <1>5, <1>6

(* group_versions invents no copy. *)
LEMMA CurrentCopiesAreRecords ==
    ASSUME NEW fs, NEW records, IsFiniteSet(records), \A p \in records : IsCopy(p, fs)
    PROVE  Current(records, fs) \subseteq records
<1> SUFFICES ASSUME NEW slug \in {p.name : p \in records}
             PROVE  NewestOf({q \in records : q.name = slug}, fs) \in records
  BY DEF Current
<1> DEFINE copies == {q \in records : q.name = slug}
<1>1. copies # {} /\ copies \in SUBSET records
  OBVIOUS
<1>2. IsFiniteSet(copies) /\ \A q \in copies : IsCopy(q, fs)
  <2> HIDE DEF copies
  <2> QED BY <1>1, FS_Subset
<1>3. NewestOf(copies, fs) \in copies
  <2> HIDE DEF copies
  <2> QED BY <1>1, <1>2, NewestIsNewest
<1> QED BY <1>3

-----------------------------------------------------------------------------
(***************************************************************************)
(* The walk.                                                               *)
(***************************************************************************)

(* A path lies at the top of its store, in a run folder or in a category. *)
LEMMA LengthsOfFolders ==
    ASSUME NEW p, IsPath(p, Slugs)
    PROVE  /\ p.dirs = << >> \/ Len(p.dirs) = 1 \/ Len(p.dirs) = 2
           /\ p.dirs = << >> => Len(p.dirs) = 0
           /\ Len(p.dirs) = 1 => p.dirs = <<p.dirs[1]>>
           /\ Len(p.dirs) = 2 => p.dirs = <<p.dirs[1], p.dirs[2]>>
<1>1. CASE p.dirs = << >>
  <2>1. Len(p.dirs) = 0
    BY <1>1
  <2> QED BY <1>1, <2>1
<1>2. CASE p.dirs = <<p.dirs[1]>>
  <2>1. \A x : Len(<<x>>) = 1
    OBVIOUS
  <2>2. Len(p.dirs) = 1
    BY <1>2, <2>1
  <2> QED BY <1>2, <2>2
<1>3. CASE p.dirs = <<p.dirs[1], p.dirs[2]>>
  <2>1. \A x, y : Len(<<x, y>>) = 2
    OBVIOUS
  <2>2. Len(p.dirs) = 2
    BY <1>3, <2>1
  <2> QED BY <1>3, <2>2
<1> QED BY <1>1, <1>2, <1>3 DEF IsPath

(* A unit is read where the walk looks for one, or it is named.            *)
LEMMA TheWalkMeetsEveryFile ==
    ASSUME NEW paths, \A p \in paths : IsPath(p, Slugs), NEW p \in paths, p.kind # "asset"
    PROVE  p \in StrayFiles(paths) \/ (p \in Records(paths) /\ p.kind = "unit" /\ p.dirs # << >>)
<1> DEFINE run == p.dirs[1]
<1>1. CASE p.dirs = << >>
  BY <1>1 DEF StrayFiles
<1>2. CASE p.kind = "note" /\ p.dirs # << >>
  <2>1. Len(p.dirs) \in {1, 2}
    BY <1>2, LengthsOfFolders
  <2> QED BY <1>2, <2>1 DEF StrayFiles
<1>3. CASE p.kind = "unit" /\ Len(p.dirs) = 1
  <2>1. p.dirs = <<run>> /\ p.dirs # << >> /\ run \in Runs(paths)
    BY <1>3, LengthsOfFolders DEF Runs
  <2>2. CASE Nested(run, paths)
    BY <1>3, <2>2 DEF StrayFiles
  <2>3. CASE ~Nested(run, paths)
    <3>1. p \in In(<<run>>, "unit", paths)
      BY <1>3, <2>1 DEF In
    <3> QED BY <1>3, <2>1, <2>3, <3>1 DEF Records
  <2> QED BY <2>2, <2>3
<1>4. CASE p.kind = "unit" /\ Len(p.dirs) = 2
  <2> DEFINE c == p.dirs[2]
  <2>1. p.dirs = <<run, c>> /\ p.dirs # << >> /\ run \in Runs(paths)
    BY <1>4, LengthsOfFolders DEF Runs
  <2>2. c \in CategoriesOf(run, paths)
    BY <1>4 DEF CategoriesOf
  <2>3. p \in In(<<run, c>>, "unit", paths)
    BY <1>4, <2>1 DEF In
  <2>4. Nested(run, paths)
    BY <2>2 DEF Nested
  <2> QED BY <1>4, <2>1, <2>2, <2>3, <2>4 DEF Records
<1>5. p.kind = "unit" \/ p.kind = "note"
  BY DEF IsPath
<1> QED BY <1>1, <1>2, <1>3, <1>4, <1>5, LengthsOfFolders

(* What the walk reads are units of the store, in some run folder. *)
LEMMA RecordsAreUnitsOfRuns ==
    ASSUME NEW paths
    PROVE  \A p \in Records(paths) : p \in paths /\ p.kind = "unit" /\ p.dirs # << >>
<1> SUFFICES ASSUME NEW p \in Records(paths)
             PROVE  p \in paths /\ p.kind = "unit" /\ p.dirs # << >>
  OBVIOUS
<1>1. PICK run \in Runs(paths) :
         \/ p \in In(<<run>>, "unit", paths)
         \/ \E c \in CategoriesOf(run, paths) : p \in In(<<run, c>>, "unit", paths)
  BY DEF Records
<1>2. \A x, y : <<x>> # << >> /\ <<x, y>> # << >>
  <2>1. \A x, y : Len(<<x>>) = 1 /\ Len(<<x, y>>) = 2 /\ Len(<< >>) = 0
    OBVIOUS
  <2> QED BY <2>1
<1> QED BY <1>1, <1>2 DEF In

(* An entry is a file of the understandings store, as it was published. *)
IsEntry(e) ==
    /\ e = [path |-> e.path, body |-> e.body, type |-> e.type, good |-> e.good]
    /\ IsPath(e.path, Slugs) /\ e.path.store = "understandings" /\ IsBody(e.body)
(* An archive holds finitely many entries. *)
IsArchive(a) == IsFiniteSet(a) /\ \A e \in a : IsEntry(e)
(* A store holds finitely many files, at paths of the layout. *)
IsStore(fs) ==
    /\ IsFiniteSet(DOMAIN fs) /\ fs = [p \in DOMAIN fs |-> fs[p]]
    /\ \A p \in DOMAIN fs : IsPath(p, Slugs) /\ IsBody(fs[p])

(* The units of a store can be compared. *)
LEMMA StoredUnitsAreCopies ==
    ASSUME NEW fs, IsStore(fs), NEW store
    PROVE  LET records == Records(FilesOf(store, fs))
           IN  IsFiniteSet(records) /\ \A p \in records : IsCopy(p, fs)
<1> DEFINE paths == FilesOf(store, fs)
           records == Records(paths)
<1>1. paths \in SUBSET DOMAIN fs /\ IsFiniteSet(paths)
  BY FS_Subset DEF FilesOf, IsStore
<1>2. \A q \in records : q \in paths /\ q.dirs # << >>
  BY RecordsAreUnitsOfRuns
<1>3. IsFiniteSet(records)
  <2>1. records \in SUBSET paths
    BY <1>2
  <2> HIDE DEF records, paths
  <2> QED BY <1>1, <2>1, FS_Subset
<1>4. ASSUME NEW q \in records PROVE IsCopy(q, fs)
  <2>1. IsPath(q, Slugs) /\ IsBody(fs[q]) /\ q.dirs # << >>
    BY <1>1, <1>2 DEF IsStore
  <2> QED BY <2>1 DEF IsPath, IsBody, IsCopy, UpdatedOf
<1> QED BY <1>3, <1>4

(* What the walk and the versions have to say of a file: it is listed or   *)
(* named, or an at least as late copy of its slug is.                      *)
LEMMA NothingIsPassedOver ==
    ASSUME NEW fs, IsStore(fs),
           NEW store, NEW said,
           StrayFiles(FilesOf(store, fs)) \subseteq said,
           Current(Records(FilesOf(store, fs)), fs) \subseteq said,
           NEW p \in FilesOf(store, fs), p.kind # "asset"
    PROVE  \/ p \in said
           \/ /\ p.kind = "unit" /\ p.dirs # << >>
              /\ \E q \in said : /\ q.name = p.name /\ q # p /\ q.dirs # << >>
                                 /\ StampOf(q.dirs[1]) >= StampOf(p.dirs[1])
<1> DEFINE paths == FilesOf(store, fs)
           records == Records(paths)
<1>1. paths \in SUBSET DOMAIN fs /\ IsFiniteSet(paths)
  BY FS_Subset DEF FilesOf, IsStore
<1>2. \A q \in records : q \in paths /\ q.dirs # << >>
  BY RecordsAreUnitsOfRuns
<1>3. IsFiniteSet(records) /\ \A q \in records : IsCopy(q, fs)
  BY StoredUnitsAreCopies
<1>4. p \in StrayFiles(paths) \/ (p \in records /\ p.kind = "unit" /\ p.dirs # << >>)
  <2>1. \A q \in paths : IsPath(q, Slugs)
    BY <1>1 DEF IsStore
  <2> HIDE DEF paths
  <2> QED BY <2>1, TheWalkMeetsEveryFile DEF paths
<1>5. CASE p \in StrayFiles(paths)
  BY <1>5
<1>6. CASE p \in records /\ p.kind = "unit" /\ p.dirs # << >>
  <2>1. PICK m \in Current(records, fs) :
           m \in records /\ m.name = p.name /\ StampOf(m.dirs[1]) >= StampOf(p.dirs[1])
    <3> HIDE DEF records
    <3> QED BY <1>3, <1>6, EverySlugHasACurrentCopy
  <2>2. m \in said /\ m.dirs # << >>
    BY <1>2, <2>1
  <2> QED BY <1>6, <2>1, <2>2
<1> QED BY <1>4, <1>5, <1>6

(* A path is its fields, and so is what a file system compares of it. *)
LEMMA PathsAreTheirFields ==
    ASSUME NEW p, NEW q, IsPath(p, Slugs), IsPath(q, Slugs)
    PROVE  /\ p = q <=> /\ p.store = q.store /\ p.dirs = q.dirs
                        /\ p.name = q.name /\ p.kind = q.kind
           /\ Folded(p) = Folded(q) <=> /\ p.store = q.store /\ p.dirs = q.dirs
                                        /\ Fold[p.name] = Fold[q.name] /\ p.kind = q.kind
<1>1. ASSUME NEW r, IsPath(r, Slugs)
      PROVE  Folded(r) = [store |-> r.store, dirs |-> r.dirs, name |-> Fold[r.name], kind |-> r.kind]
  <2> DEFINE n == Fold[r.name]
  <2>1. r \in [store : {r.store}, dirs : {r.dirs}, name : {r.name}, kind : {r.kind}]
    <3>1. r = [store |-> r.store, dirs |-> r.dirs, name |-> r.name, kind |-> r.kind]
      BY <1>1 DEF IsPath
    <3> QED BY <3>1
  <2>2. Folded(r) = [r EXCEPT !.name = n]
    BY DEF Folded
  <2> HIDE DEF n
  <2>3. Folded(r) \in [store : {r.store}, dirs : {r.dirs}, name : {n}, kind : {r.kind}]
    BY <2>1, <2>2
  <2>4. Folded(r) = [store |-> r.store, dirs |-> r.dirs, name |-> n, kind |-> r.kind]
    BY <2>3
  <2> QED BY <2>4 DEF n
<1>2. /\ Folded(p) = [store |-> p.store, dirs |-> p.dirs, name |-> Fold[p.name], kind |-> p.kind]
      /\ Folded(q) = [store |-> q.store, dirs |-> q.dirs, name |-> Fold[q.name], kind |-> q.kind]
  BY <1>1
<1>3. /\ p = [store |-> p.store, dirs |-> p.dirs, name |-> p.name, kind |-> p.kind]
      /\ q = [store |-> q.store, dirs |-> q.dirs, name |-> q.name, kind |-> q.kind]
  BY DEF IsPath
<1>4. p = q <=> p.store = q.store /\ p.dirs = q.dirs /\ p.name = q.name /\ p.kind = q.kind
  BY <1>3
<1>5. Folded(p) = Folded(q) <=> /\ p.store = q.store /\ p.dirs = q.dirs
                                /\ Fold[p.name] = Fold[q.name] /\ p.kind = q.kind
  BY <1>2
<1> QED BY <1>4, <1>5

(* A path with another name or another kind.                               *)
LEMMA RenamedPath ==
    ASSUME NEW p, IsPath(p, Slugs), NEW n \in Slugs
    PROVE  LET q == [p EXCEPT !.name = n] IN
           /\ IsPath(q, Slugs) /\ q.store = p.store /\ q.dirs = p.dirs /\ q.name = n
           /\ q.kind = p.kind
<1> DEFINE q == [p EXCEPT !.name = n]
<1>1. p \in [store : {p.store}, dirs : {p.dirs}, name : {p.name}, kind : {p.kind}]
  <2>1. p = [store |-> p.store, dirs |-> p.dirs, name |-> p.name, kind |-> p.kind]
    BY DEF IsPath
  <2> QED BY <2>1
<1>2. q \in [store : {p.store}, dirs : {p.dirs}, name : {n}, kind : {p.kind}]
  BY <1>1
<1> HIDE DEF q
<1>3. q = [store |-> q.store, dirs |-> q.dirs, name |-> q.name, kind |-> q.kind]
      /\ q.store = p.store /\ q.dirs = p.dirs /\ q.name = n /\ q.kind = p.kind
  BY <1>2
<1>4. IsPath(q, Slugs)
  BY <1>3 DEF IsPath
<1> QED BY <1>3, <1>4 DEF q

(* The path of another kind of file beside a file. *)
LEMMA PathOfKind ==
    ASSUME NEW p, IsPath(p, Slugs), NEW k \in {"unit", "note", "asset"}
    PROVE  LET q == [p EXCEPT !.kind = k] IN
           /\ IsPath(q, Slugs) /\ q.store = p.store /\ q.dirs = p.dirs /\ q.name = p.name
           /\ q.kind = k
<1> DEFINE q == [p EXCEPT !.kind = k]
<1>1. p \in [store : {p.store}, dirs : {p.dirs}, name : {p.name}, kind : {p.kind}]
  <2>1. p = [store |-> p.store, dirs |-> p.dirs, name |-> p.name, kind |-> p.kind]
    BY DEF IsPath
  <2> QED BY <2>1
<1>2. q \in [store : {p.store}, dirs : {p.dirs}, name : {p.name}, kind : {k}]
  BY <1>1
<1> HIDE DEF q
<1>3. q = [store |-> q.store, dirs |-> q.dirs, name |-> q.name, kind |-> q.kind]
      /\ q.store = p.store /\ q.dirs = p.dirs /\ q.name = p.name /\ q.kind = k
  BY <1>2
<1>4. IsPath(q, Slugs)
  BY <1>3 DEF IsPath
<1> QED BY <1>3, <1>4 DEF q

-----------------------------------------------------------------------------
(***************************************************************************)
(* What is on disk after a write and after an archive is unpacked.         *)
(***************************************************************************)

(* A write leaves its file, and every file that is another entry. *)
LEMMA AWriteLeaves ==
    ASSUME NEW fs, IsStore(fs), NEW p, IsPath(p, Slugs), NEW body, IsBody(body)
    PROVE  LET new == Written(p, body, fs) IN
           /\ IsStore(new)
           /\ DOMAIN new \subseteq DOMAIN fs \cup {p}
           /\ p \in DOMAIN new /\ new[p] = body
           /\ \A q \in DOMAIN fs : ~SameEntry(q, p) => q \in DOMAIN new /\ new[q] = fs[q]
           /\ \A q \in DOMAIN new : q # p => ~SameEntry(q, p) /\ q \in DOMAIN fs
<1> DEFINE kept == {q \in DOMAIN fs : ~SameEntry(q, p)}
           new == [q \in kept \cup {p} |-> IF q = p THEN body ELSE fs[q]]
<1>1. new = Written(p, body, fs)
  BY DEF Written
<1>2. p \notin kept
  BY DEF SameEntry
<1>3. IsFiniteSet(kept \cup {p})
  <2>1. kept \in SUBSET DOMAIN fs /\ IsFiniteSet(DOMAIN fs)
    BY DEF IsStore
  <2> HIDE DEF kept
  <2> QED BY <2>1, FS_Subset, FS_AddElement
<1>4. DOMAIN new = kept \cup {p} /\ new[p] = body /\ \A q \in kept : new[q] = fs[q]
  BY <1>2
<1>5. new = [q \in DOMAIN new |-> new[q]]
  OBVIOUS
<1> HIDE DEF new
<1>6. \A q \in DOMAIN new : IsPath(q, Slugs) /\ IsBody(new[q])
  BY <1>4 DEF IsStore
<1>7. IsStore(new)
  BY <1>3, <1>4, <1>5, <1>6 DEF IsStore
<1> QED BY <1>1, <1>4, <1>7

(* The entries of an accepted archive are different files to every file    *)
(* system, so each of them lands.                                          *)
LEMMA AnAcceptedArchiveLands ==
    ASSUME NEW fs, IsStore(fs), NEW a, IsArchive(a), NEW paths, ConsumeProblems(a, paths) = {}
    PROVE  LET new == Extract(a, fs) IN
           /\ IsStore(new)
           /\ DOMAIN new \subseteq DOMAIN fs \cup {e.path : e \in a}
           /\ \A e \in a : e.path \in DOMAIN new /\ new[e.path] = e.body
           /\ \A q \in DOMAIN fs : (\A e \in a : ~SameEntry(q, e.path))
                                      => q \in DOMAIN new /\ new[q] = fs[q]
           /\ \A q \in DOMAIN new : (\E e \in a : q = e.path)
                                      \/ (q \in DOMAIN fs /\ \A e \in a : ~SameEntry(q, e.path))
<1> DEFINE landed == {LastOf(e, a) : e \in a}
           kept == {q \in DOMAIN fs : \A e \in a : ~SameEntry(q, e.path)}
           at(q) == CHOOSE e \in landed : e.path = q
           new == [q \in kept \cup {e.path : e \in landed} |-> IF q \in kept THEN fs[q] ELSE at(q).body]
<1>1. new = Extract(a, fs)
  BY DEF Extract
<1>2. \A e, f \in a : Folded(e.path) = Folded(f.path) => e = f
  BY DEF ConsumeProblems
<1>3. \A e, f \in a : SameEntry(e.path, f.path) => e = f
  BY <1>2 DEF SameEntry
<1>4. ASSUME NEW e \in a PROVE LastOf(e, a) = e
  <2>1. SameEntry(e.path, e.path)
    BY DEF SameEntry
  <2>2. LastOf(e, a) \in a /\ SameEntry(LastOf(e, a).path, e.path)
    BY <2>1 DEF LastOf
  <2> QED BY <1>3, <2>2
<1>5. landed = a
  BY <1>4
<1>6. ASSUME NEW e \in a PROVE e.path \notin kept /\ at(e.path) = e
  <2>1. e.path \notin kept
    BY DEF SameEntry
  <2>2. \A f \in a : f.path = e.path => f = e
    BY <1>3 DEF SameEntry
  <2>3. at(e.path) \in a /\ at(e.path).path = e.path
    BY <1>5
  <2> QED BY <2>1, <2>2, <2>3
<1>7. DOMAIN new = kept \cup {e.path : e \in a}
  BY <1>5
<1>8. ASSUME NEW e \in a PROVE e.path \in DOMAIN new /\ new[e.path] = e.body
  <2>1. e.path \in kept \cup {x.path : x \in landed}
    BY <1>5
  <2>2. e.path \notin kept /\ at(e.path) = e
    BY <1>6
  <2> HIDE DEF kept, landed, at
  <2> QED BY <2>1, <2>2
<1>9. \A q \in kept : q \in DOMAIN new /\ new[q] = fs[q]
  OBVIOUS
<1>10. IsFiniteSet(DOMAIN new)
  <2> DEFINE path == [e \in a |-> e.path]
  <2>1. path \in Surjection(a, {e.path : e \in a})
    BY DEF Surjection
  <2>2. IsFiniteSet({e.path : e \in a})
    <3>1. IsFiniteSet(a)
      BY DEF IsArchive
    <3> HIDE DEF path
    <3> QED BY <2>1, <3>1, FS_Surjection
  <2>3. kept \in SUBSET DOMAIN fs /\ IsFiniteSet(DOMAIN fs)
    BY DEF IsStore
  <2>4. IsFiniteSet(kept)
    <3> HIDE DEF kept
    <3> QED BY <2>3, FS_Subset
  <2> HIDE DEF new, kept
  <2> QED BY <1>7, <2>2, <2>4, FS_Union
<1>11. new = [q \in DOMAIN new |-> new[q]]
  OBVIOUS
<1> HIDE DEF new, landed, at
<1>12. \A q \in DOMAIN new : IsPath(q, Slugs) /\ IsBody(new[q])
  <2>1. ASSUME NEW q \in DOMAIN new PROVE IsPath(q, Slugs) /\ IsBody(new[q])
    <3>1. CASE q \in kept
      BY <1>9, <3>1 DEF IsStore
    <3>2. CASE q \notin kept
      <4>1. PICK e \in a : q = e.path
        BY <1>7, <3>2
      <4> QED BY <1>8, <4>1 DEF IsArchive, IsEntry
    <3> QED BY <3>1, <3>2
  <2> QED BY <2>1
<1>13. IsStore(new)
  BY <1>10, <1>11, <1>12 DEF IsStore
<1>14. DOMAIN new \subseteq DOMAIN fs \cup {e.path : e \in a}
  BY <1>7
<1> QED BY <1>1, <1>7, <1>8, <1>9, <1>13, <1>14

-----------------------------------------------------------------------------
(***************************************************************************)
(* The workspace.                                                          *)
(***************************************************************************)

(* No run folder is stamped with a minute to come.                         *)
RunsPassed(paths) ==
    \A p \in paths : p.dirs # << >> /\ p.dirs[1].shape = "run" => StampOf(p.dirs[1]) <= clock
(* What is on disk: both stores, at paths no file system confuses. *)
Stored ==
    /\ IsStore(files) /\ RunsPassed(DOMAIN files)
    /\ folds \in BOOLEAN /\ clock \in 1..MaxClock
    /\ folds => OneNameEach(DOMAIN files)
(* A folder --run-folder prints, of a minute that has come. *)
IsRunFolder(folder) ==
    /\ folder = <<folder[1]>> /\ folder[1].shape = "run"
    /\ StampOf(folder[1]) \in Nat /\ StampOf(folder[1]) <= clock
    /\ SessionOf(folder[1]) \in Nat \X Nat
(* A session has captured such a folder, or none. *)
Opened ==
    /\ open = [s \in Sessions |-> open[s]]
    /\ \A s \in Sessions : open[s] # NoFolder => IsRunFolder(open[s])
(* One archive at most is about to be unpacked; all hold entries. *)
Archived ==
    /\ unpacking \subseteq archives /\ \A a, b \in unpacking : a = b
    /\ \A a \in archives : IsArchive(a) /\ RunsPassed({e.path : e \in a})

(* A run folder that a session of this workspace writes into, or may.      *)
Fresh(p) ==
    /\ p.dirs # << >> /\ p.dirs[1].shape = "run"
    /\ StampOf(p.dirs[1]) = clock \/ \E s \in Sessions : open[s] = <<p.dirs[1]>>
(* What was published from such a folder is still there, so that an archive*)
(* which holds it is refused.                                              *)
FreshEntriesAreStored ==
    \A a \in archives : \A e \in a :
        Fresh(e.path) => \E q \in DOMAIN files : Folded(q) = Folded(e.path)
(* Evidence in a folder that may still be written lies beside its unit. *)
FreshEvidenceHasItsUnit ==
    \A q \in DOMAIN files :
        q.kind = "asset" /\ Fresh(q) => [q EXCEPT !.kind = "unit"] \in DOMAIN files
(* What a check found safe stays safe until it is unpacked.                *)
SafeToUnpack ==
    \A a \in unpacking : ConsumeProblems(a, FilesOf("understandings", files)) = {}

(* The inductive invariant. *)
Inv == /\ Stored /\ Opened /\ Archived
       /\ FreshEntriesAreStored /\ FreshEvidenceHasItsUnit /\ SafeToUnpack

(* An old store and an empty publish directory: nothing is fresh yet. *)
LEMMA InitInv == Init => Inv
<1> SUFFICES ASSUME Init PROVE Inv
  OBVIOUS
<1>1. IsStore(files) /\ clock = 1
  BY WorkspaceAssumption DEF Init, IsStore
<1>2. \A p \in DOMAIN files :
         p.dirs # << >> /\ p.dirs[1].shape = "run" => StampOf(p.dirs[1]) < 1 /\ StampOf(p.dirs[1]) \in Nat
  BY WorkspaceAssumption DEF Init, IsPath
<1>3. Stored
  BY <1>1, <1>2, WorkspaceAssumption DEF Init, Stored, RunsPassed
<1>4. Opened /\ Archived /\ \A s \in Sessions : open[s] = << >>
  BY DEF Init, Opened, Archived, NoFolder
<1>5. \A x : <<x>> # << >>
  <2>1. \A x : Len(<<x>>) = 1 /\ Len(<< >>) = 0
    OBVIOUS
  <2> QED BY <2>1
<1>6. \A p \in DOMAIN files : ~Fresh(p)
  BY <1>1, <1>2, <1>4, <1>5 DEF Fresh
<1>7. FreshEntriesAreStored /\ FreshEvidenceHasItsUnit /\ SafeToUnpack
  BY <1>6 DEF FreshEntriesAreStored, FreshEvidenceHasItsUnit, SafeToUnpack, Init
<1> QED BY <1>3, <1>4, <1>7 DEF Inv

(* A file of a session's own run folder that is no other's entry.          *)
IsNewFile(p, body) ==
    /\ IsPath(p, Slugs) /\ IsBody(body)
    /\ p.dirs # << >> /\ \E s \in Sessions : open[s] # NoFolder /\ open[s] = <<p.dirs[1]>>
    /\ \A q \in DOMAIN files : ~SameEntry(q, p)
    /\ \A a \in unpacking : \A e \in a : Folded(e.path) # Folded(p)
    /\ p.kind = "asset" => [p EXCEPT !.kind = "unit"] \in DOMAIN files

(* Folders of one and of two names. *)
LEMMA OneFolder ==
    \A x, y : /\ <<x>> # << >> /\ <<x, y>> # << >>
              /\ <<x>>[1] = x /\ <<x, y>>[1] = x /\ <<x, y>>[2] = y
              /\ <<x>> \o << >> = <<x>> /\ <<x>> \o <<y>> = <<x, y>>
<1> SUFFICES ASSUME NEW x, NEW y
             PROVE  /\ <<x>> # << >> /\ <<x, y>> # << >>
                    /\ <<x>>[1] = x /\ <<x, y>>[1] = x /\ <<x, y>>[2] = y
                    /\ <<x>> \o << >> = <<x>> /\ <<x>> \o <<y>> = <<x, y>>
  OBVIOUS
<1>1. Len(<<x>>) = 1 /\ Len(<<x, y>>) = 2 /\ Len(<< >>) = 0
  OBVIOUS
<1>2. <<x>>[1] = x /\ <<x, y>>[1] = x /\ <<x, y>>[2] = y
  OBVIOUS
<1>3. <<x>> \o << >> = <<x>> /\ <<x>> \o <<y>> = <<x, y>>
  <2>1. <<x>> \in Seq({x, y})
    OBVIOUS
  <2>2. <<x>> \o << >> = <<x>> /\ <<x>> \o <<y>> = Append(<<x>>, y)
    BY <2>1, ConcatEmptySeq, AppendIsConcat
  <2>3. Append(<<x>>, y) = <<x, y>>
    <3>1. Append(<<x>>, y) \in Seq({x, y}) /\ Len(Append(<<x>>, y)) = 2
      BY <1>1, <2>1, AppendProperties
    <3>2. Append(<<x>>, y)[1] = x /\ Append(<<x>>, y)[2] = y
      BY <1>1, <1>2, <2>1, AppendProperties
    <3>3. <<x, y>> \in Seq({x, y})
      OBVIOUS
    <3>4. \A i \in 1..2 : Append(<<x>>, y)[i] = <<x, y>>[i]
      <4>1. 1..2 = {1, 2}
        OBVIOUS
      <4> QED BY <1>2, <3>2, <4>1
    <3> QED BY <1>1, <3>1, <3>3, <3>4, SeqEqual
  <2> QED BY <2>2, <2>3
<1> QED BY <1>1, <1>2, <1>3

(* A body that says another day is a body. *)
LEMMA UpdatedBody ==
    ASSUME NEW b, IsBody(b), NEW u \in Nat
    PROVE  IsBody([b EXCEPT !.updated = u])
<1> DEFINE c == [b EXCEPT !.updated = u]
<1>1. b \in [text : {b.text}, updated : {b.updated}, links : {b.links}, bare : {b.bare},
             portable : {b.portable}, question : {b.question}, shape : {b.shape}]
  <2>1. b = [text |-> b.text, updated |-> b.updated, links |-> b.links, bare |-> b.bare,
             portable |-> b.portable, question |-> b.question, shape |-> b.shape]
    BY DEF IsBody
  <2> QED BY <2>1
<1>2. c \in [text : {b.text}, updated : {u}, links : {b.links}, bare : {b.bare},
             portable : {b.portable}, question : {b.question}, shape : {b.shape}]
  BY <1>1
<1> HIDE DEF c
<1>3. /\ c = [text |-> c.text, updated |-> c.updated, links |-> c.links, bare |-> c.bare,
              portable |-> c.portable, question |-> c.question, shape |-> c.shape]
      /\ c.updated = u /\ c.shape = b.shape
  BY <1>2
<1>4. IsBody(c)
  BY <1>3 DEF IsBody
<1> QED BY <1>4 DEF c

(* What the publish procedure does to a body: some brackets are dropped.   *)
LEMMA PublishedBody ==
    ASSUME NEW b, IsBody(b), NEW links, NEW bare
    PROVE  IsBody([b EXCEPT !.links = links, !.bare = bare])
<1> DEFINE c == [b EXCEPT !.links = links, !.bare = bare]
<1>1. b \in [text : {b.text}, updated : {b.updated}, links : {b.links}, bare : {b.bare},
             portable : {b.portable}, question : {b.question}, shape : {b.shape}]
  <2>1. b = [text |-> b.text, updated |-> b.updated, links |-> b.links, bare |-> b.bare,
             portable |-> b.portable, question |-> b.question, shape |-> b.shape]
    BY DEF IsBody
  <2> QED BY <2>1
<1>2. c \in [text : {b.text}, updated : {b.updated}, links : {links}, bare : {bare},
             portable : {b.portable}, question : {b.question}, shape : {b.shape}]
  BY <1>1
<1> HIDE DEF c
<1>3. /\ c = [text |-> c.text, updated |-> c.updated, links |-> c.links, bare |-> c.bare,
              portable |-> c.portable, question |-> c.question, shape |-> c.shape]
      /\ c.updated = b.updated /\ c.shape = b.shape
  BY <1>2
<1>4. IsBody(c)
  BY <1>3 DEF IsBody
<1> QED BY <1>4 DEF c

(* An entry that is a fresh one of an archive found safe is not stored.    *)
LEMMA FreshIsNotUnpacked ==
    ASSUME Inv, NEW a \in unpacking, NEW e \in a, Fresh(e.path)
    PROVE  FALSE
<1>1. PICK q \in DOMAIN files : Folded(q) = Folded(e.path)
  BY DEF Inv, Archived, FreshEntriesAreStored
<1>2. IsPath(q, Slugs) /\ IsPath(e.path, Slugs) /\ e.path.store = "understandings"
  BY DEF Inv, Stored, IsStore, Archived, IsArchive, IsEntry
<1>3. q \in FilesOf("understandings", files)
  BY <1>1, <1>2, PathsAreTheirFields DEF FilesOf
<1>4. e \in ConsumeProblems(a, FilesOf("understandings", files))
  BY <1>1, <1>3 DEF ConsumeProblems
<1> QED BY <1>4 DEF Inv, SafeToUnpack

(* A slug that differs only by case reuses the name: what is written is new. *)
LEMMA AUnitIsNew ==
    ASSUME Inv, NEW s \in Sessions, WriteUnit(s)
    PROVE  \E p, body : IsNewFile(p, body) /\ files' = Written(p, body, files)
<1>1. PICK w \in Writes :
         LET p == [store |-> w.store, dirs |-> open[s] \o w.under, name |-> w.name, kind |-> w.kind]
         IN  /\ \A q \in DOMAIN files : q.dirs = p.dirs /\ q.store = w.store => Folded(q) # Folded(p)
             /\ files' = Written(p, [w.body EXCEPT !.updated = clock \div Day], files)
  BY DEF WriteUnit
<1> DEFINE p == [store |-> w.store, dirs |-> open[s] \o w.under, name |-> w.name, kind |-> w.kind]
           body == [w.body EXCEPT !.updated = clock \div Day]
<1>2. open[s] # NoFolder /\ IsRunFolder(open[s])
  BY DEF WriteUnit, Inv, Opened
<1> DEFINE r == open[s][1]
<1>3. open[s] = <<r>> /\ StampOf(r) \in Nat /\ SessionOf(r) \in Nat \X Nat /\ r.shape = "run"
      /\ StampOf(r) <= clock
  BY <1>2 DEF IsRunFolder
<1>4. p.dirs = <<r>> \/ p.dirs = <<r, w.under[1]>>
  <2>1. p.dirs = open[s] \o w.under
    OBVIOUS
  <2>2. w.under = << >> \/ w.under = <<w.under[1]>>
    BY WorkspaceAssumption
  <2>3. CASE w.under = << >>
    BY <1>3, <2>1, <2>3, OneFolder
  <2>4. CASE w.under = <<w.under[1]>>
    <3> DEFINE c == w.under[1]
    <3>1. p.dirs = <<r>> \o <<c>>
      BY <1>3, <2>1, <2>4
    <3> HIDE DEF p, r, c
    <3>2. p.dirs = <<r, c>>
      BY <3>1, OneFolder
    <3> QED BY <3>2 DEF c
  <2> QED BY <2>2, <2>3, <2>4
<1>5. p.dirs # << >> /\ p.dirs[1] = r /\ (p.dirs = <<p.dirs[1]>> \/ p.dirs = <<p.dirs[1], p.dirs[2]>>)
  <2> DEFINE c == w.under[1]
  <2>1. CASE p.dirs = <<r>>
    <3> HIDE DEF p, r
    <3>1. p.dirs # << >> /\ p.dirs[1] = r
      BY <2>1, OneFolder
    <3> QED BY <2>1, <3>1
  <2>2. CASE p.dirs = <<r, c>>
    <3> HIDE DEF p, r, c
    <3>1. p.dirs # << >> /\ p.dirs[1] = r /\ p.dirs[2] = c
      BY <2>2, OneFolder
    <3> QED BY <2>2, <3>1
  <2> QED BY <1>4, <2>1, <2>2
<1>6. /\ p = [store |-> p.store, dirs |-> p.dirs, name |-> p.name, kind |-> p.kind]
      /\ p.store = w.store /\ p.name = w.name /\ p.kind = w.kind
  OBVIOUS
<1>7. /\ w.store \in {"understandings", "memories"} /\ w.kind \in {"unit", "note"}
      /\ w.name \in Slugs /\ IsBody(w.body)
  BY WorkspaceAssumption
<1>8. IsBody(body)
  <2>1. clock \div Day \in Nat
    BY WorkspaceAssumption DEF Inv, Stored
  <2> QED BY <1>7, <2>1, UpdatedBody
<1>9. /\ \A q \in DOMAIN files : q.dirs = p.dirs /\ q.store = w.store => Folded(q) # Folded(p)
      /\ files' = Written(p, body, files)
  BY <1>1
<1> HIDE DEF p, body, r
<1>10. IsPath(p, Slugs)
  BY <1>3, <1>5, <1>6, <1>7 DEF IsPath
<1>11. \A q \in DOMAIN files : Folded(q) # Folded(p)
  <2>1. ASSUME NEW q \in DOMAIN files, Folded(q) = Folded(p) PROVE FALSE
    <3>1. IsPath(q, Slugs)
      BY DEF Inv, Stored, IsStore
    <3>2. q.dirs = p.dirs /\ q.store = w.store
      BY <1>6, <1>10, <2>1, <3>1, PathsAreTheirFields
    <3> QED BY <1>9, <2>1, <3>2
  <2> QED BY <2>1
<1>12. \A q \in DOMAIN files : ~SameEntry(q, p)
  BY <1>11 DEF SameEntry
<1>13. ASSUME NEW a \in unpacking, NEW e \in a, Folded(e.path) = Folded(p) PROVE FALSE
  <2>1. IsPath(e.path, Slugs)
    BY DEF Inv, Archived, IsArchive, IsEntry
  <2>2. e.path.dirs = p.dirs
    BY <1>10, <1>13, <2>1, PathsAreTheirFields
  <2>3. Fresh(e.path)
    BY <1>3, <1>5, <2>2 DEF Fresh
  <2> QED BY <2>3, FreshIsNotUnpacked
<1>14. IsNewFile(p, body)
  <2>1. \E x \in Sessions : open[x] # NoFolder /\ open[x] = <<p.dirs[1]>>
    BY <1>2, <1>3, <1>5
  <2>2. p.kind # "asset"
    BY <1>6, <1>7
  <2> QED BY <1>5, <1>8, <1>10, <1>12, <1>13, <2>1, <2>2 DEF IsNewFile
<1> QED BY <1>9, <1>14

(* Evidence is written beside the session's own unit, where none is. *)
LEMMA EvidenceIsNew ==
    ASSUME Inv, NEW s \in Sessions, WriteAsset(s)
    PROVE  \E p, body : IsNewFile(p, body) /\ files' = Written(p, body, files)
<1>1. PICK u \in DOMAIN files, body \in Bodies :
         /\ u.store = "understandings" /\ u.kind = "unit"
         /\ u.dirs # << >> /\ open[s] = <<u.dirs[1]>>
         /\ [u EXCEPT !.kind = "asset"] \notin DOMAIN files
         /\ files' = Written([u EXCEPT !.kind = "asset"], body, files)
  BY DEF WriteAsset
<1> DEFINE p == [u EXCEPT !.kind = "asset"]
<1>2. IsPath(u, Slugs)
  BY DEF Inv, Stored, IsStore
<1>3. /\ IsPath(p, Slugs) /\ p.store = "understandings" /\ p.dirs = u.dirs /\ p.name = u.name
      /\ p.kind = "asset"
  BY <1>1, <1>2, PathOfKind
<1>4. p \notin DOMAIN files /\ files' = Written(p, body, files) /\ IsBody(body)
  BY <1>1, WorkspaceAssumption
<1> HIDE DEF p
<1>5. open[s] # NoFolder /\ u.dirs[1].shape = "run"
  <2>1. open[s] # NoFolder
    BY <1>1, OneFolder DEF NoFolder
  <2>2. IsRunFolder(open[s])
    BY <2>1 DEF Inv, Opened
  <2> QED BY <1>1, <2>1, <2>2, OneFolder DEF IsRunFolder
<1>6. \A q : q.dirs = p.dirs => Fresh(q)
  BY <1>1, <1>3, <1>5 DEF Fresh
<1>7. ASSUME NEW q \in DOMAIN files, IsPath(q, Slugs), q.kind = "asset"
      PROVE  LET v == [q EXCEPT !.kind = "unit"] IN
             /\ IsPath(v, Slugs) /\ v.store = q.store /\ v.dirs = q.dirs /\ v.name = q.name
             /\ v.kind = "unit"
  BY <1>7, PathOfKind
<1>8. ASSUME NEW q \in DOMAIN files, SameEntry(q, p) PROVE FALSE
  <2>1. folds /\ Folded(q) = Folded(p) /\ IsPath(q, Slugs)
    BY <1>4, <1>8 DEF SameEntry, Inv, Stored, IsStore
  <2>2. /\ q.store = p.store /\ q.dirs = p.dirs /\ Fold[q.name] = Fold[p.name] /\ q.kind = "asset"
    BY <1>3, <2>1, PathsAreTheirFields
  <2> DEFINE v == [q EXCEPT !.kind = "unit"]
  <2>3. v \in DOMAIN files
    BY <1>6, <2>2 DEF Inv, FreshEvidenceHasItsUnit
  <2>4. /\ IsPath(v, Slugs) /\ v.store = q.store /\ v.dirs = q.dirs /\ v.name = q.name
        /\ v.kind = "unit"
    BY <1>7, <2>1, <2>2
  <2> HIDE DEF v
  <2>5. Folded(v) = Folded(u)
    BY <1>1, <1>2, <1>3, <2>2, <2>4, PathsAreTheirFields
  <2>6. v = u
    BY <2>1, <2>3, <2>5 DEF Inv, Stored, OneNameEach
  <2>7. q = p
    BY <1>3, <2>1, <2>2, <2>4, <2>6, PathsAreTheirFields
  <2> QED BY <1>4, <2>7
<1>9. ASSUME NEW a \in unpacking, NEW e \in a, Folded(e.path) = Folded(p) PROVE FALSE
  <2>1. IsPath(e.path, Slugs)
    BY DEF Inv, Archived, IsArchive, IsEntry
  <2>2. e.path.dirs = p.dirs
    BY <1>3, <1>9, <2>1, PathsAreTheirFields
  <2> QED BY <1>6, <2>2, FreshIsNotUnpacked
<1>10. [p EXCEPT !.kind = "unit"] \in DOMAIN files
  <2> DEFINE v == [p EXCEPT !.kind = "unit"]
  <2>1. /\ IsPath(v, Slugs) /\ v.store = p.store /\ v.dirs = p.dirs /\ v.name = p.name
        /\ v.kind = "unit"
    BY <1>3, PathOfKind
  <2> HIDE DEF v
  <2>2. v = u
    BY <1>1, <1>2, <1>3, <2>1, PathsAreTheirFields
  <2> QED BY <2>2 DEF v
<1>11. IsNewFile(p, body)
  <2>1. \E x \in Sessions : open[x] # NoFolder /\ open[x] = <<p.dirs[1]>>
    BY <1>1, <1>3, <1>5
  <2>2. p.dirs # << >>
    BY <1>1, <1>3
  <2> QED BY <1>3, <1>4, <1>8, <1>9, <1>10, <2>1, <2>2 DEF IsNewFile
<1> QED BY <1>4, <1>11

(* A new file keeps all there was and what there is to know of it.         *)
LEMMA NewFilesKeepInv ==
    ASSUME Inv, NEW p, NEW body, IsNewFile(p, body), files' = Written(p, body, files),
           UNCHANGED <<folds, clock, open, archives, unpacking>>
    PROVE  /\ Inv'
           /\ \A q \in DOMAIN files : q \in DOMAIN files' /\ files'[q] = files[q]
<1>1. /\ IsStore(files')
      /\ p \in DOMAIN files' /\ files'[p] = body
      /\ \A q \in DOMAIN files : q \in DOMAIN files' /\ files'[q] = files[q]
      /\ \A q \in DOMAIN files' : q # p => q \in DOMAIN files
  <2> DEFINE new == Written(p, body, files)
  <2>1. IsStore(files) /\ IsPath(p, Slugs) /\ IsBody(body) /\ \A q \in DOMAIN files : ~SameEntry(q, p)
    BY DEF Inv, Stored, IsNewFile
  <2>2. /\ IsStore(new) /\ p \in DOMAIN new /\ new[p] = body
        /\ \A q \in DOMAIN files : ~SameEntry(q, p) => q \in DOMAIN new /\ new[q] = files[q]
        /\ \A q \in DOMAIN new : q # p => ~SameEntry(q, p) /\ q \in DOMAIN files
    BY <2>1, AWriteLeaves
  <2>3. files' = new
    OBVIOUS
  <2> HIDE DEF new
  <2> QED BY <2>1, <2>2, <2>3
<1>2. /\ p.dirs # << >> /\ p.dirs[1].shape = "run" /\ StampOf(p.dirs[1]) <= clock
      /\ \A q : q.dirs = p.dirs => Fresh(q)
  <2>1. PICK s \in Sessions : open[s] # NoFolder /\ open[s] = <<p.dirs[1]>>
    BY DEF IsNewFile
  <2>2. IsRunFolder(open[s])
    BY <2>1 DEF Inv, Opened
  <2>3. p.dirs # << >> /\ p.dirs[1].shape = "run" /\ StampOf(p.dirs[1]) <= clock
    BY <2>1, <2>2, OneFolder DEF IsNewFile, IsRunFolder
  <2> QED BY <2>1, <2>3 DEF Fresh
<1>3. Stored'
  <2>1. RunsPassed(DOMAIN files)'
    BY <1>1, <1>2 DEF Inv, Stored, RunsPassed
  <2>2. ASSUME folds, NEW q \in DOMAIN files', NEW r \in DOMAIN files', Folded(q) = Folded(r)
        PROVE  q = r
    <3>1. CASE q \in DOMAIN files /\ r \in DOMAIN files
      BY <2>2, <3>1 DEF Inv, Stored, OneNameEach
    <3>2. CASE q = p \/ r = p
      BY <1>1, <2>2, <3>2 DEF IsNewFile, SameEntry
    <3> QED BY <1>1, <3>1, <3>2
  <2> QED BY <1>1, <2>1, <2>2 DEF Inv, Stored, OneNameEach
<1>4. Opened' /\ Archived'
  BY DEF Inv, Opened, Archived, IsRunFolder, RunsPassed
<1>5. \A q : Fresh(q)' <=> Fresh(q)
  BY DEF Fresh
<1>6. FreshEntriesAreStored'
  BY <1>1, <1>5 DEF Inv, FreshEntriesAreStored
<1>7. FreshEvidenceHasItsUnit'
  BY <1>1, <1>5 DEF Inv, FreshEvidenceHasItsUnit, IsNewFile
<1>8. SafeToUnpack'
  <2> SUFFICES ASSUME NEW a \in unpacking
               PROVE  ConsumeProblems(a, FilesOf("understandings", files')) = {}
    BY DEF SafeToUnpack
  <2>1. ConsumeProblems(a, FilesOf("understandings", files)) = {}
    BY DEF Inv, SafeToUnpack
  <2>2. \A e \in a : Folded(p) # Folded(e.path)
    BY DEF IsNewFile
  <2> QED BY <1>1, <2>1, <2>2 DEF ConsumeProblems, FilesOf
<1> QED BY <1>1, <1>3, <1>4, <1>6, <1>7, <1>8 DEF Inv

(* Unpacking adds the entries to what there was.                           *)
LEMMA UnpackingKeepsInv ==
    ASSUME Inv, Consume
    PROVE  /\ Inv'
           /\ \A q \in DOMAIN files : q \in DOMAIN files' /\ files'[q] = files[q]
           /\ \A a \in unpacking : \A e \in a : e.path \in DOMAIN files' /\ files'[e.path] = e.body
<1>1. PICK a \in unpacking : files' = Extract(a, files)
  BY DEF Consume
<1>2. /\ unpacking' = {} /\ UNCHANGED <<folds, clock, open, archives, changes>>
  BY DEF Consume
<1>3. ConsumeProblems(a, FilesOf("understandings", files)) = {} /\ a \in archives /\ IsArchive(a)
  BY DEF Inv, SafeToUnpack, Archived
<1>4. \A q \in DOMAIN files, e \in a : Folded(q) # Folded(e.path)
  <2> SUFFICES ASSUME NEW q \in DOMAIN files, NEW e \in a, Folded(q) = Folded(e.path) PROVE FALSE
    OBVIOUS
  <2>1. IsPath(q, Slugs) /\ IsPath(e.path, Slugs) /\ e.path.store = "understandings"
    BY <1>3 DEF Inv, Stored, IsStore, IsArchive, IsEntry
  <2>2. q \in FilesOf("understandings", files)
    BY <2>1, PathsAreTheirFields DEF FilesOf
  <2> QED BY <1>3, <2>2 DEF ConsumeProblems
<1>5. \A q \in DOMAIN files, e \in a : ~SameEntry(q, e.path)
  BY <1>4 DEF SameEntry
<1>6. /\ IsStore(files')
      /\ \A q \in DOMAIN files : q \in DOMAIN files' /\ files'[q] = files[q]
      /\ \A e \in a : e.path \in DOMAIN files' /\ files'[e.path] = e.body
      /\ \A q \in DOMAIN files' : q \in DOMAIN files \/ \E e \in a : q = e.path
  <2> DEFINE new == Extract(a, files)
  <2>1. IsStore(files)
    BY DEF Inv, Stored
  <2>2. /\ IsStore(new)
        /\ \A e \in a : e.path \in DOMAIN new /\ new[e.path] = e.body
        /\ \A q \in DOMAIN files : (\A e \in a : ~SameEntry(q, e.path))
                                     => q \in DOMAIN new /\ new[q] = files[q]
        /\ \A q \in DOMAIN new : (\E e \in a : q = e.path)
                                   \/ (q \in DOMAIN files /\ \A e \in a : ~SameEntry(q, e.path))
    BY <1>3, <2>1, AnAcceptedArchiveLands
  <2>3. files' = new
    BY <1>1
  <2> HIDE DEF new
  <2> QED BY <1>5, <2>2, <2>3
<1>7. \A e \in a : ~Fresh(e.path)
  BY FreshIsNotUnpacked
<1>8. \A e, f \in a : Folded(e.path) = Folded(f.path) => e = f
  BY <1>3 DEF ConsumeProblems
<1>9. Stored'
  <2>1. RunsPassed(DOMAIN files)'
    <3>1. RunsPassed({e.path : e \in a})
      BY <1>3 DEF Inv, Archived
    <3> QED BY <1>2, <1>6, <3>1 DEF Inv, Stored, RunsPassed
  <2>2. ASSUME folds, NEW q \in DOMAIN files', NEW r \in DOMAIN files', Folded(q) = Folded(r)
        PROVE  q = r
    <3>1. CASE q \in DOMAIN files /\ r \in DOMAIN files
      BY <2>2, <3>1 DEF Inv, Stored, OneNameEach
    <3>2. CASE q \notin DOMAIN files /\ r \in DOMAIN files
      BY <1>4, <1>6, <2>2, <3>2
    <3>3. CASE q \in DOMAIN files /\ r \notin DOMAIN files
      BY <1>4, <1>6, <2>2, <3>3
    <3>4. CASE q \notin DOMAIN files /\ r \notin DOMAIN files
      BY <1>6, <1>8, <2>2, <3>4
    <3> QED BY <3>1, <3>2, <3>3, <3>4
  <2> QED BY <1>2, <1>6, <2>1, <2>2 DEF Inv, Stored, OneNameEach
<1>10. Opened' /\ Archived'
  BY <1>2 DEF Inv, Opened, Archived, IsRunFolder, RunsPassed
<1>11. \A q : Fresh(q)' <=> Fresh(q)
  BY <1>2 DEF Fresh
<1>12. FreshEntriesAreStored'
  BY <1>2, <1>6, <1>11 DEF Inv, FreshEntriesAreStored
<1>13. FreshEvidenceHasItsUnit'
  BY <1>6, <1>7, <1>11 DEF Inv, FreshEvidenceHasItsUnit
<1>14. SafeToUnpack'
  BY <1>2 DEF SafeToUnpack
<1>15. \A b \in unpacking : b = a
  BY DEF Inv, Archived
<1> QED BY <1>6, <1>9, <1>10, <1>12, <1>13, <1>14, <1>15 DEF Inv

(* What an agent publishes is an archive of files that are in the store. *)
LEMMA APublishedArchive ==
    ASSUME Inv, Publish
    PROVE  \E a : /\ archives' = archives \cup {a} /\ IsArchive(a)
                  /\ \A e \in a : e.path \in DOMAIN files
<1>1. PICK portableOnly \in BOOLEAN :
       LET listed == LoadUnits.rows
           chosen == {p \in listed : portableOnly => files[p].portable}
           left == {p.name : p \in listed \ chosen}
           copy(p) == [files[p] EXCEPT !.links = @ \ left, !.bare = @ \cup (files[p].links \cap left)]
           entry(p, body) == [path |-> p, body |-> body, type |-> "file", good |-> TRUE]
       IN  archives' = archives \cup
                {{entry(p, copy(p)) : p \in chosen}
                   \cup {entry(q, files[q]) :
                           q \in UNION {AssetsOf(p, DOMAIN files) : p \in chosen}}}
  BY DEF Publish
<1> DEFINE listed == LoadUnits.rows
           chosen == {p \in listed : portableOnly => files[p].portable}
           left == {p.name : p \in listed \ chosen}
           copy(p) == [files[p] EXCEPT !.links = @ \ left, !.bare = @ \cup (files[p].links \cap left)]
           entry(p, body) == [path |-> p, body |-> body, type |-> "file", good |-> TRUE]
           evidence == UNION {AssetsOf(p, DOMAIN files) : p \in chosen}
           units == [p \in chosen |-> entry(p, copy(p))]
           assets == [q \in evidence |-> entry(q, files[q])]
           a == {units[p] : p \in chosen} \cup {assets[q] : q \in evidence}
<1>2. archives' = archives \cup {a}
  BY <1>1
<1>3. chosen \in SUBSET FilesOf("understandings", files)
  <2> DEFINE paths == FilesOf("understandings", files)
             records == Records(paths)
  <2>1. listed \subseteq Current(records, files)
    BY DEF LoadUnits
  <2>2. Current(records, files) \subseteq records
    BY StoredUnitsAreCopies, CurrentCopiesAreRecords DEF Inv, Stored
  <2>3. records \subseteq paths
    BY RecordsAreUnitsOfRuns
  <2>4. chosen \subseteq listed
    <3> HIDE DEF listed
    <3> QED OBVIOUS
  <2> HIDE DEF listed, records, paths, chosen
  <2> QED BY <2>1, <2>2, <2>3, <2>4 DEF paths
<1>4. evidence \in SUBSET FilesOf("understandings", files)
  BY <1>3 DEF AssetsOf, FilesOf
<1>5. \A p \in FilesOf("understandings", files) :
         p \in DOMAIN files /\ p.store = "understandings" /\ IsPath(p, Slugs) /\ IsBody(files[p])
  BY DEF FilesOf, Inv, Stored, IsStore
<1>6. \A p \in chosen : IsBody(copy(p))
  <2> SUFFICES ASSUME NEW p \in chosen PROVE IsBody(copy(p))
    OBVIOUS
  <2> DEFINE b == files[p]
             links == b.links \ left
             bare == b.bare \cup (b.links \cap left)
  <2>1. IsBody(b)
    BY <1>3, <1>5
  <2>2. copy(p) = [b EXCEPT !.links = links, !.bare = bare]
    OBVIOUS
  <2>3. IsBody([b EXCEPT !.links = links, !.bare = bare])
    <3> HIDE DEF b, links, bare
    <3> QED BY <2>1, PublishedBody
  <2> HIDE DEF b, links, bare, copy, chosen
  <2> QED BY <2>2, <2>3
<1>7. ASSUME NEW p, NEW body, IsPath(p, Slugs), p.store = "understandings", IsBody(body)
      PROVE  IsEntry(entry(p, body)) /\ entry(p, body).path = p
  BY <1>7 DEF IsEntry
<1>8. \A p \in chosen : IsEntry(units[p]) /\ units[p].path \in DOMAIN files
  <2> SUFFICES ASSUME NEW p \in chosen PROVE IsEntry(units[p]) /\ units[p].path \in DOMAIN files
    OBVIOUS
  <2>1. units[p] = entry(p, copy(p))
    OBVIOUS
  <2>2. IsPath(p, Slugs) /\ p.store = "understandings" /\ IsBody(copy(p)) /\ p \in DOMAIN files
    BY <1>3, <1>5, <1>6
  <2> HIDE DEF units, entry, copy, chosen
  <2> QED BY <1>7, <2>1, <2>2
<1>9. \A q \in evidence : IsEntry(assets[q]) /\ assets[q].path \in DOMAIN files
  <2> SUFFICES ASSUME NEW q \in evidence PROVE IsEntry(assets[q]) /\ assets[q].path \in DOMAIN files
    OBVIOUS
  <2>1. assets[q] = entry(q, files[q])
    OBVIOUS
  <2>2. IsPath(q, Slugs) /\ q.store = "understandings" /\ IsBody(files[q]) /\ q \in DOMAIN files
    BY <1>4, <1>5
  <2> HIDE DEF assets, entry, evidence
  <2> QED BY <1>7, <2>1, <2>2
<1>10. IsFiniteSet(a)
  <2>1. IsFiniteSet(FilesOf("understandings", files))
    <3>1. FilesOf("understandings", files) \in SUBSET DOMAIN files /\ IsFiniteSet(DOMAIN files)
      BY DEF FilesOf, Inv, Stored, IsStore
    <3> QED BY <3>1, FS_Subset
  <2>2. IsFiniteSet(chosen) /\ IsFiniteSet(evidence)
    <3> HIDE DEF chosen, evidence
    <3> QED BY <1>3, <1>4, <2>1, FS_Subset
  <2>3. DOMAIN units = chosen /\ DOMAIN assets = evidence
        /\ units = [p \in chosen |-> units[p]] /\ assets = [q \in evidence |-> assets[q]]
    OBVIOUS
  <2> HIDE DEF chosen, evidence, units, assets
  <2>4. units \in Surjection(chosen, {units[p] : p \in chosen})
    BY <2>3 DEF Surjection
  <2>5. assets \in Surjection(evidence, {assets[q] : q \in evidence})
    BY <2>3 DEF Surjection
  <2> QED BY <2>2, <2>4, <2>5, FS_Surjection, FS_Union
<1> HIDE DEF units, assets
<1>11. IsArchive(a) /\ \A e \in a : e.path \in DOMAIN files
  BY <1>8, <1>9, <1>10 DEF IsArchive
<1> QED BY <1>2, <1>11

(* A flaw leaves every entry in its folder, and the same entry to a folding disk. *)
LEMMA AFlawedArchive ==
    ASSUME Inv, ArchiveIsFlawed
    PROVE  \E a \in archives \ unpacking : \E b :
              /\ archives' = (archives \ {a}) \cup {b} /\ IsArchive(b)
              /\ \A f \in b : \E e \in a : Folded(f.path) = Folded(e.path) /\ f.path.dirs = e.path.dirs
<1>0. PICK a \in archives \ unpacking : \E x \in a :
         \E f \in {[x EXCEPT !.good = FALSE], [x EXCEPT !.type = "symlink"]}
                    \cup {[x EXCEPT !.path.name = n] : n \in {m \in Slugs : Fold[m] = Fold[x.path.name]}} :
            archives' = (archives \ {a}) \cup {(a \ (IF f.path = x.path THEN {x} ELSE {})) \cup {f}}
  BY DEF ArchiveIsFlawed
<1>1. PICK e \in a :
         \E f \in {[e EXCEPT !.good = FALSE], [e EXCEPT !.type = "symlink"]}
                    \cup {[e EXCEPT !.path.name = n] : n \in {m \in Slugs : Fold[m] = Fold[e.path.name]}} :
            archives' = (archives \ {a}) \cup {(a \ (IF f.path = e.path THEN {e} ELSE {})) \cup {f}}
  BY <1>0
<1>2. PICK f \in {[e EXCEPT !.good = FALSE], [e EXCEPT !.type = "symlink"]}
                   \cup {[e EXCEPT !.path.name = n] : n \in {m \in Slugs : Fold[m] = Fold[e.path.name]}} :
            archives' = (archives \ {a}) \cup {(a \ (IF f.path = e.path THEN {e} ELSE {})) \cup {f}}
  BY <1>1
<1>3. IsArchive(a) /\ IsEntry(e)
  BY DEF Inv, Archived, IsArchive
<1>4. e \in [path : {e.path}, body : {e.body}, type : {e.type}, good : {e.good}]
  <2>1. e = [path |-> e.path, body |-> e.body, type |-> e.type, good |-> e.good]
    BY <1>3 DEF IsEntry
  <2> QED BY <2>1
<1>5. IsEntry(f) /\ Folded(f.path) = Folded(e.path) /\ f.path.dirs = e.path.dirs
  <2>1. CASE f = [e EXCEPT !.good = FALSE]
    <3>1. f \in [path : {e.path}, body : {e.body}, type : {e.type}, good : {FALSE}]
      BY <1>4, <2>1
    <3>2. f = [path |-> f.path, body |-> f.body, type |-> f.type, good |-> f.good]
          /\ f.path = e.path /\ f.body = e.body
      BY <3>1
    <3> QED BY <1>3, <3>2 DEF IsEntry
  <2>2. CASE f = [e EXCEPT !.type = "symlink"]
    <3>1. f \in [path : {e.path}, body : {e.body}, type : {"symlink"}, good : {e.good}]
      BY <1>4, <2>2
    <3>2. f = [path |-> f.path, body |-> f.body, type |-> f.type, good |-> f.good]
          /\ f.path = e.path /\ f.body = e.body
      BY <3>1
    <3> QED BY <1>3, <3>2 DEF IsEntry
  <2>3. ASSUME NEW n \in Slugs, Fold[n] = Fold[e.path.name], f = [e EXCEPT !.path.name = n]
        PROVE  IsEntry(f) /\ Folded(f.path) = Folded(e.path) /\ f.path.dirs = e.path.dirs
    <3> DEFINE q == [e.path EXCEPT !.name = n]
    <3>1. f = [e EXCEPT !.path = q]
      BY <1>4, <2>3
    <3>2. IsPath(q, Slugs) /\ q.store = e.path.store /\ q.dirs = e.path.dirs /\ q.name = n
          /\ q.kind = e.path.kind
      BY <1>3, RenamedPath DEF IsEntry
    <3> HIDE DEF q
    <3>3. f \in [path : {q}, body : {e.body}, type : {e.type}, good : {e.good}]
      BY <1>4, <3>1
    <3>4. f = [path |-> f.path, body |-> f.body, type |-> f.type, good |-> f.good]
          /\ f.path = q /\ f.body = e.body
      BY <3>3
    <3>5. Folded(f.path) = Folded(e.path)
      BY <1>3, <2>3, <3>2, <3>4, PathsAreTheirFields DEF IsEntry
    <3> QED BY <1>3, <3>2, <3>4, <3>5 DEF IsEntry
  <2>4. \/ f = [e EXCEPT !.good = FALSE] \/ f = [e EXCEPT !.type = "symlink"]
        \/ \E n \in Slugs : Fold[n] = Fold[e.path.name] /\ f = [e EXCEPT !.path.name = n]
    BY <1>2
  <2> QED BY <2>1, <2>2, <2>3, <2>4
<1> DEFINE gone == IF f.path = e.path THEN {e} ELSE {}
           b == (a \ gone) \cup {f}
<1>6. archives' = (archives \ {a}) \cup {b}
  BY <1>2
<1>7. IsArchive(b)
  <2>1. IsFiniteSet(a \ gone) /\ \A x \in b : IsEntry(x)
    <3>1. a \ gone \in SUBSET a /\ IsFiniteSet(a)
      BY <1>3 DEF IsArchive
    <3>2. IsFiniteSet(a \ gone)
      <4> HIDE DEF gone
      <4> QED BY <3>1, FS_Subset
    <3>3. \A x \in b : x \in a \/ x = f
      OBVIOUS
    <3> QED BY <1>3, <1>5, <3>2, <3>3 DEF IsArchive
  <2>2. IsFiniteSet(b)
    <3> HIDE DEF gone
    <3> QED BY <2>1, FS_AddElement
  <2> QED BY <2>1, <2>2 DEF IsArchive
<1>8. \A x \in b : \E y \in a : Folded(x.path) = Folded(y.path) /\ x.path.dirs = y.path.dirs
  BY <1>5
<1> HIDE DEF b
<1> QED BY <1>6, <1>7, <1>8

-----------------------------------------------------------------------------
(***************************************************************************)
(* Steps that write no file.                                               *)
(***************************************************************************)

(* In a later minute only the folders that are open stay fresh. *)
LEMMA TimePasses ==
    ASSUME Inv, clock' \in 1..MaxClock, clock' > clock, open' = open,
           UNCHANGED <<files, folds, archives, unpacking>>
    PROVE  Inv'
<1>1. clock \in Nat /\ clock' \in Nat /\ clock < clock'
  BY WorkspaceAssumption DEF Inv, Stored
<1>2. \A p \in DOMAIN files : p.dirs # << >> /\ p.dirs[1].shape = "run" =>
         StampOf(p.dirs[1]) \in Nat /\ StampOf(p.dirs[1]) <= clock
  BY DEF Inv, Stored, IsStore, IsPath, RunsPassed
<1>3. \A a \in archives : \A e \in a : e.path.dirs # << >> /\ e.path.dirs[1].shape = "run" =>
         StampOf(e.path.dirs[1]) \in Nat /\ StampOf(e.path.dirs[1]) <= clock
  <2> SUFFICES ASSUME NEW a \in archives, NEW e \in a, e.path.dirs # << >>,
                      e.path.dirs[1].shape = "run"
               PROVE  StampOf(e.path.dirs[1]) \in Nat /\ StampOf(e.path.dirs[1]) <= clock
    OBVIOUS
  <2>1. IsPath(e.path, Slugs) /\ RunsPassed({x.path : x \in a})
    BY DEF Inv, Archived, IsArchive, IsEntry
  <2> QED BY <2>1 DEF IsPath, RunsPassed
<1>4. Stored'
  <2>1. RunsPassed(DOMAIN files)'
    BY <1>1, <1>2 DEF RunsPassed
  <2> QED BY <2>1 DEF Inv, Stored
<1>5. Opened'
  BY <1>1 DEF Inv, Opened, IsRunFolder
<1>6. Archived'
  <2>1. \A a \in archives : RunsPassed({e.path : e \in a})'
    BY <1>1, <1>3 DEF RunsPassed
  <2> QED BY <2>1 DEF Inv, Archived
<1>7. \A p : Fresh(p)' /\ (p \in DOMAIN files \/ \E a \in archives : \E e \in a : p = e.path)
         => Fresh(p)
  BY <1>1, <1>2, <1>3 DEF Fresh
<1>8. FreshEntriesAreStored'
  BY <1>7 DEF Inv, FreshEntriesAreStored
<1>9. FreshEvidenceHasItsUnit'
  BY <1>7 DEF Inv, FreshEvidenceHasItsUnit
<1>10. SafeToUnpack'
  BY DEF Inv, SafeToUnpack
<1> QED BY <1>4, <1>5, <1>6, <1>8, <1>9, <1>10 DEF Inv

(* A folder that is captured is stamped with this minute: it was fresh.    *)
LEMMA CapturingKeepsInv ==
    ASSUME Inv, NEW s \in Sessions, RunFolder(s)
    PROVE  Inv'
<1>1. PICK r : /\ open' = [open EXCEPT ![s] = <<r>>]
               /\ r = RunName(clock, SafeSessionId(s, Plain[s]))
  BY DEF RunFolder, RunFolderName
<1>2. UNCHANGED <<files, folds, clock, archives, unpacking>>
  BY DEF RunFolder
<1>3. r.shape = "run" /\ StampOf(r) = clock /\ SessionOf(r) \in Nat \X Nat
  BY <1>1, WorkspaceAssumption DEF RunName, StampOf, SessionOf, SafeSessionId
<1>4. IsRunFolder(<<r>>)
  <2>1. <<r>>[1] = r
    BY OneFolder
  <2>2. clock \in Nat
    BY WorkspaceAssumption DEF Inv, Stored
  <2> QED BY <1>3, <2>1, <2>2 DEF IsRunFolder
<1>5. Opened'
  <2>1. open' = [x \in Sessions |-> IF x = s THEN <<r>> ELSE open[x]]
    BY <1>1 DEF Inv, Opened
  <2>2. open' = [x \in Sessions |-> open'[x]]
    BY <2>1
  <2>3. \A x \in Sessions : open'[x] = open[x] \/ open'[x] = <<r>>
    BY <2>1
  <2>4. \A x \in Sessions : open'[x] # << >> => IsRunFolder(open'[x])
    BY <1>4, <2>3 DEF Inv, Opened, NoFolder
  <2> QED BY <1>2, <2>2, <2>4 DEF Opened, NoFolder, IsRunFolder
<1>6. ASSUME NEW p, Fresh(p)' PROVE Fresh(p)
  <2>1. p.dirs # << >> /\ p.dirs[1].shape = "run"
    BY <1>6 DEF Fresh
  <2>2. CASE StampOf(p.dirs[1]) = clock
    BY <2>1, <2>2 DEF Fresh
  <2>3. CASE \E x \in Sessions : open'[x] = <<p.dirs[1]>>
    <3>1. PICK x \in Sessions : open'[x] = <<p.dirs[1]>>
      BY <2>3
    <3>2. CASE open'[x] = open[x]
      BY <2>1, <3>1, <3>2 DEF Fresh
    <3>3. CASE open'[x] = <<r>>
      <4>1. <<p.dirs[1]>>[1] = p.dirs[1] /\ <<r>>[1] = r
        BY OneFolder
      <4>2. p.dirs[1] = r
        BY <3>1, <3>3, <4>1
      <4> QED BY <1>3, <2>1, <4>2 DEF Fresh
    <3>4. open'[x] = open[x] \/ open'[x] = <<r>>
      BY <1>1 DEF Inv, Opened
    <3> QED BY <3>2, <3>3, <3>4
  <2> QED BY <1>2, <1>6, <2>2, <2>3 DEF Fresh
<1>7. Stored' /\ Archived'
  BY <1>2 DEF Inv, Stored, Archived, RunsPassed
<1>8. FreshEntriesAreStored'
  BY <1>2, <1>6 DEF Inv, FreshEntriesAreStored
<1>9. FreshEvidenceHasItsUnit'
  BY <1>2, <1>6 DEF Inv, FreshEvidenceHasItsUnit
<1>10. SafeToUnpack'
  BY <1>2 DEF Inv, SafeToUnpack
<1> QED BY <1>5, <1>7, <1>8, <1>9, <1>10 DEF Inv

(* An edit in place moves no file. *)
LEMMA EditingKeepsInv ==
    ASSUME Inv, EditInPlace
    PROVE  Inv'
<1>1. PICK p \in FilesOf("understandings", files), body \in Bodies :
         files' = [files EXCEPT ![p] = [body EXCEPT !.updated = files[p].updated]]
  BY DEF EditInPlace
<1>2. UNCHANGED <<folds, clock, open, archives, unpacking>>
  BY DEF EditInPlace
<1> DEFINE new == [body EXCEPT !.updated = files[p].updated]
<1>3. p \in DOMAIN files /\ IsStore(files)
  BY DEF Inv, Stored, FilesOf
<1>4. IsBody(new)
  <2>1. IsBody(body) /\ files[p].updated \in Nat
    BY <1>3, WorkspaceAssumption DEF IsStore, IsBody
  <2> QED BY <2>1, UpdatedBody
<1>5. files' = [files EXCEPT ![p] = new]
  BY <1>1
<1> HIDE DEF new
<1>6. /\ DOMAIN files' = DOMAIN files /\ files' = [q \in DOMAIN files' |-> files'[q]]
      /\ \A q \in DOMAIN files : files'[q] = files[q] \/ files'[q] = new
  BY <1>3, <1>5 DEF IsStore
<1>7. IsStore(files')
  BY <1>3, <1>4, <1>6 DEF IsStore
<1>8. Stored'
  BY <1>2, <1>6, <1>7 DEF Inv, Stored, RunsPassed
<1>9. Opened' /\ Archived'
  BY <1>2 DEF Inv, Opened, Archived, IsRunFolder, RunsPassed
<1>10. \A q : Fresh(q)' <=> Fresh(q)
  BY <1>2 DEF Fresh
<1>11. FreshEntriesAreStored' /\ FreshEvidenceHasItsUnit'
  BY <1>2, <1>6, <1>10 DEF Inv, FreshEntriesAreStored, FreshEvidenceHasItsUnit
<1>12. SafeToUnpack'
  BY <1>2, <1>6 DEF Inv, SafeToUnpack, FilesOf
<1> QED BY <1>8, <1>9, <1>11, <1>12 DEF Inv

(* What the publish directory gains holds files of the store.              *)
LEMMA PublishingKeepsInv ==
    ASSUME Inv, Publish
    PROVE  Inv'
<1>1. PICK a : /\ archives' = archives \cup {a} /\ IsArchive(a)
               /\ \A e \in a : e.path \in DOMAIN files
  BY APublishedArchive
<1>2. UNCHANGED <<files, folds, clock, open, unpacking>>
  BY DEF Publish
<1>3. Stored' /\ Opened'
  BY <1>2 DEF Inv, Stored, Opened, IsRunFolder, RunsPassed
<1>4. Archived'
  <2>1. RunsPassed({e.path : e \in a})
    BY <1>1 DEF Inv, Stored, RunsPassed
  <2>2. \A b \in archives' : IsArchive(b) /\ RunsPassed({e.path : e \in b})
    BY <1>1, <2>1 DEF Inv, Archived
  <2>3. unpacking' \subseteq archives' /\ \A b, c \in unpacking' : b = c
    BY <1>1, <1>2 DEF Inv, Archived
  <2> QED BY <1>2, <2>2, <2>3 DEF Archived, RunsPassed
<1>5. \A q : Fresh(q)' <=> Fresh(q)
  BY <1>2 DEF Fresh
<1>6. FreshEntriesAreStored'
  BY <1>1, <1>2, <1>5 DEF Inv, FreshEntriesAreStored
<1>7. FreshEvidenceHasItsUnit' /\ SafeToUnpack'
  BY <1>2, <1>5 DEF Inv, FreshEvidenceHasItsUnit, SafeToUnpack
<1> QED BY <1>3, <1>4, <1>6, <1>7 DEF Inv

(* A flawed archive still holds what it held, to a file system that folds case. *)
LEMMA FlawsKeepInv ==
    ASSUME Inv, ArchiveIsFlawed
    PROVE  Inv'
<1>0. PICK a \in archives \ unpacking : \E b :
         /\ archives' = (archives \ {a}) \cup {b} /\ IsArchive(b)
         /\ \A f \in b : \E e \in a : Folded(f.path) = Folded(e.path) /\ f.path.dirs = e.path.dirs
  BY AFlawedArchive
<1>1. PICK b :
         /\ archives' = (archives \ {a}) \cup {b} /\ IsArchive(b)
         /\ \A f \in b : \E e \in a : Folded(f.path) = Folded(e.path) /\ f.path.dirs = e.path.dirs
  BY <1>0
<1>2. UNCHANGED <<files, folds, clock, open, unpacking>>
  BY DEF ArchiveIsFlawed
<1>3. Stored' /\ Opened'
  BY <1>2 DEF Inv, Stored, Opened, IsRunFolder, RunsPassed
<1>4. Archived'
  <2>1. RunsPassed({e.path : e \in b})
    BY <1>1 DEF Inv, Archived, RunsPassed
  <2>2. \A c \in archives' : IsArchive(c) /\ RunsPassed({e.path : e \in c})
    BY <1>1, <2>1 DEF Inv, Archived
  <2>3. unpacking' \subseteq archives' /\ \A c, d \in unpacking' : c = d
    BY <1>1, <1>2 DEF Inv, Archived
  <2> QED BY <1>2, <2>2, <2>3 DEF Archived, RunsPassed
<1>5. \A q : Fresh(q)' <=> Fresh(q)
  BY <1>2 DEF Fresh
<1>6. FreshEntriesAreStored'
  <2> SUFFICES ASSUME NEW c \in archives', NEW f \in c, Fresh(f.path)
               PROVE  \E q \in DOMAIN files : Folded(q) = Folded(f.path)
    BY <1>2, <1>5 DEF FreshEntriesAreStored
  <2>1. CASE c \in archives
    BY <2>1 DEF Inv, FreshEntriesAreStored
  <2>2. CASE c = b
    <3>1. PICK e \in a : Folded(f.path) = Folded(e.path) /\ f.path.dirs = e.path.dirs
      BY <1>1, <2>2
    <3>2. Fresh(e.path)
      BY <3>1 DEF Fresh
    <3>3. \E q \in DOMAIN files : Folded(q) = Folded(e.path)
      BY <3>2 DEF Inv, FreshEntriesAreStored
    <3> QED BY <3>1, <3>3
  <2> QED BY <1>1, <2>1, <2>2
<1>7. FreshEvidenceHasItsUnit' /\ SafeToUnpack'
  BY <1>2, <1>5 DEF Inv, FreshEvidenceHasItsUnit, SafeToUnpack
<1> QED BY <1>3, <1>4, <1>6, <1>7 DEF Inv

(* The next workspace is of a later minute than everything archived.       *)
LEMMA LosingTheWorkspaceKeepsInv ==
    ASSUME Inv, WorkspaceIsLost
    PROVE  Inv'
<1>1. /\ clock' = clock + 1 /\ clock < MaxClock /\ files' = << >>
      /\ open' = [s \in Sessions |-> NoFolder] /\ unpacking' = {}
      /\ UNCHANGED <<folds, archives>>
  BY DEF WorkspaceIsLost
<1>2. clock \in Nat /\ clock' \in 1..MaxClock /\ clock < clock'
  BY <1>1, WorkspaceAssumption DEF Inv, Stored
<1>3. DOMAIN files' = {}
  <2>1. DOMAIN << >> = {}
    OBVIOUS
  <2> QED BY <1>1, <2>1
<1>4. IsStore(files')
  <2>1. files' = [p \in {} |-> files'[p]]
    BY <1>1
  <2> QED BY <1>3, <2>1, FS_EmptySet DEF IsStore
<1>5. Stored'
  BY <1>1, <1>2, <1>3, <1>4 DEF Inv, Stored, RunsPassed, OneNameEach
<1>6. Opened'
  BY <1>1 DEF Opened, NoFolder
<1>7. \A a \in archives : \A e \in a : e.path.dirs # << >> /\ e.path.dirs[1].shape = "run" =>
         StampOf(e.path.dirs[1]) \in Nat /\ StampOf(e.path.dirs[1]) <= clock
  <2> SUFFICES ASSUME NEW a \in archives, NEW e \in a, e.path.dirs # << >>,
                      e.path.dirs[1].shape = "run"
               PROVE  StampOf(e.path.dirs[1]) \in Nat /\ StampOf(e.path.dirs[1]) <= clock
    OBVIOUS
  <2>1. IsPath(e.path, Slugs) /\ RunsPassed({x.path : x \in a})
    BY DEF Inv, Archived, IsArchive, IsEntry
  <2> QED BY <2>1 DEF IsPath, RunsPassed
<1>8. Archived'
  <2>1. \A a \in archives : RunsPassed({e.path : e \in a})'
    BY <1>2, <1>7 DEF RunsPassed
  <2> QED BY <1>1, <2>1 DEF Inv, Archived
<1>9. \A a \in archives : \A e \in a : ~Fresh(e.path)'
  BY <1>1, <1>2, <1>7, OneFolder DEF Fresh, NoFolder
<1>10. FreshEntriesAreStored' /\ FreshEvidenceHasItsUnit' /\ SafeToUnpack'
  BY <1>1, <1>3, <1>9 DEF FreshEntriesAreStored, FreshEvidenceHasItsUnit, SafeToUnpack
<1> QED BY <1>5, <1>6, <1>8, <1>10 DEF Inv

(* Every step keeps the invariant. *)
LEMMA InvStep == Inv /\ [Next]_vars => Inv'
<1> SUFFICES ASSUME Inv, [Next]_vars PROVE Inv'
  OBVIOUS
<1>1. CASE Tick
  <2>1. /\ clock' = clock + 1 /\ clock < MaxClock /\ open' = open
        /\ UNCHANGED <<files, folds, archives, unpacking>>
    BY <1>1 DEF Tick
  <2>2. clock' \in 1..MaxClock /\ clock' > clock
    BY <2>1, WorkspaceAssumption DEF Inv, Stored
  <2> QED BY <2>1, <2>2, TimePasses
<1>2. ASSUME NEW s \in Sessions, RunFolder(s) PROVE Inv'
  BY <1>2, CapturingKeepsInv
<1>3. ASSUME NEW s \in Sessions, WriteUnit(s) PROVE Inv'
  <2>1. UNCHANGED <<folds, clock, open, archives, unpacking>>
    BY <1>3 DEF WriteUnit
  <2>2. PICK p, body : IsNewFile(p, body) /\ files' = Written(p, body, files)
    BY <1>3, AUnitIsNew
  <2> QED BY <2>1, <2>2, NewFilesKeepInv
<1>4. ASSUME NEW s \in Sessions, WriteAsset(s) PROVE Inv'
  <2>1. UNCHANGED <<folds, clock, open, archives, unpacking>>
    BY <1>4 DEF WriteAsset
  <2>2. PICK p, body : IsNewFile(p, body) /\ files' = Written(p, body, files)
    BY <1>4, EvidenceIsNew
  <2> QED BY <2>1, <2>2, NewFilesKeepInv
<1>5. CASE EditInPlace
  BY <1>5, EditingKeepsInv
<1>6. CASE Publish
  BY <1>6, PublishingKeepsInv
<1>7. CASE ArchiveIsFlawed
  BY <1>7, FlawsKeepInv
<1>8. CASE WorkspaceIsLost
  BY <1>8, LosingTheWorkspaceKeepsInv
<1>9. CASE ConsumeCheck
  <2>1. PICK a \in archives : /\ ConsumeProblems(a, FilesOf("understandings", files)) = {}
                              /\ unpacking' = {a}
    BY <1>9 DEF ConsumeCheck
  <2>2. UNCHANGED <<files, folds, clock, open, archives>>
    BY <1>9 DEF ConsumeCheck
  <2>3. Stored' /\ Opened'
    BY <2>2 DEF Inv, Stored, Opened, IsRunFolder, RunsPassed
  <2>4. Archived'
    BY <2>1, <2>2 DEF Inv, Archived, RunsPassed
  <2>5. \A q : Fresh(q)' <=> Fresh(q)
    BY <2>2 DEF Fresh
  <2>6. FreshEntriesAreStored' /\ FreshEvidenceHasItsUnit'
    BY <2>2, <2>5 DEF Inv, FreshEntriesAreStored, FreshEvidenceHasItsUnit
  <2>7. SafeToUnpack'
    BY <2>1, <2>2 DEF SafeToUnpack
  <2> QED BY <2>3, <2>4, <2>6, <2>7 DEF Inv
<1>10. CASE Consume
  BY <1>10, UnpackingKeepsInv
<1>11. CASE UNCHANGED vars
  <2>1. UNCHANGED <<files, folds, clock, open, archives, unpacking>>
    BY <1>11 DEF vars
  <2>2. Stored' /\ Opened' /\ Archived'
    BY <2>1 DEF Inv, Stored, Opened, Archived, IsRunFolder, RunsPassed
  <2>3. \A q : Fresh(q)' <=> Fresh(q)
    BY <2>1 DEF Fresh
  <2>4. FreshEntriesAreStored' /\ FreshEvidenceHasItsUnit' /\ SafeToUnpack'
    BY <2>1, <2>3 DEF Inv, FreshEntriesAreStored, FreshEvidenceHasItsUnit, SafeToUnpack
  <2> QED BY <2>2, <2>4 DEF Inv
<1> QED BY <1>1, <1>2, <1>3, <1>4, <1>5, <1>6, <1>7, <1>8, <1>9, <1>10, <1>11 DEF Next

(* The invariant holds in every reachable state. *)
LEMMA InvHolds == Spec => []Inv
<1>1. Init => Inv
  BY InitInv
<1>2. Inv /\ [Next]_vars => Inv'
  BY InvStep
<1> QED BY <1>1, <1>2, PTL DEF Spec

-----------------------------------------------------------------------------
(***************************************************************************)
(* What follows.                                                           *)
(***************************************************************************)

(* The walk of both generators knows the kind and the name of every file,  *)
(* and what is extracted is one of the archives beside the understandings  *)
(* store.                                                                  *)
THEOREM LocalStoreTypeCorrect == Spec => []TypeOK
<1>1. Inv => TypeOK
  <2> SUFFICES ASSUME Inv PROVE TypeOK
    OBVIOUS
  <2>1. \A p \in DOMAIN files : IsPath(p, Slugs)
    BY DEF Inv, Stored, IsStore
  <2>2. \A a \in archives : \A e \in a : e.path.store = "understandings"
    BY DEF Inv, Archived, IsArchive, IsEntry
  <2>3. folds \in BOOLEAN /\ clock \in 1..MaxClock /\ unpacking \subseteq archives
    BY DEF Inv, Stored, Archived
  <2> QED BY <2>1, <2>2, <2>3 DEF TypeOK, IsPath
<1> QED BY <1>1, InvHolds, PTL

(* What a generator lists is the readable of the current copies; the       *)
(* others it names.                                                        *)
LEMMA AStoreIsAccountedFor ==
    ASSUME Inv, NEW store, NEW result,
           StrayFiles(FilesOf(store, files)) \subseteq result.rows \cup result.named,
           Current(Records(FilesOf(store, files)), files) \subseteq result.rows \cup result.named
    PROVE  Accounts(store, result)
<1> DEFINE said == result.rows \cup result.named
<1>1. IsStore(files)
  BY DEF Inv, Stored
<1> HIDE DEF said
<1>2. ASSUME NEW p \in FilesOf(store, files), p.kind # "asset"
      PROVE  \/ p \in said
             \/ /\ p.kind = "unit" /\ p.dirs # << >>
                /\ \E q \in said : /\ q.name = p.name /\ q # p /\ q.dirs # << >>
                                   /\ StampOf(q.dirs[1]) >= StampOf(p.dirs[1])
  <2>1. /\ StrayFiles(FilesOf(store, files)) \subseteq said
        /\ Current(Records(FilesOf(store, files)), files) \subseteq said
    BY DEF said
  <2> QED BY <1>1, <1>2, <2>1, NothingIsPassedOver
<1> QED BY <1>2 DEF Accounts, said

(* Neither generator drops a unit without a word: each file of a store that*)
(* could be a unit is listed, named in a problem, or superseded by a copy  *)
(* of its slug from a run at least as late that is.                        *)
THEOREM NoUnitVanishesFromAnIndex == Spec => []NothingDropsOutUnnamed
<1>1. Inv => NothingDropsOutUnnamed
  <2> SUFFICES ASSUME Inv PROVE NothingDropsOutUnnamed
    OBVIOUS
  <2>1. Accounts("understandings", LoadUnits)
    <3> DEFINE paths == FilesOf("understandings", files)
               result == LoadUnits
    <3>1. StrayFiles(paths) \subseteq result.named
      BY DEF LoadUnits
    <3>2. ASSUME NEW p \in Current(Records(paths), files) PROVE p \in result.rows \cup result.named
      <4>1. CASE IsRead(files[p])
        BY <4>1 DEF LoadUnits
      <4>2. CASE ~IsRead(files[p])
        <5>1. UnitHasProblem(files[p])
          BY <4>2 DEF IsRead, UnitHasProblem
        <5> QED BY <5>1 DEF LoadUnits
      <4> QED BY <4>1, <4>2
    <3> HIDE DEF result
    <3>3. Current(Records(paths), files) \subseteq result.rows \cup result.named
      BY <3>2
    <3>4. Accounts("understandings", result)
      BY <3>1, <3>3, AStoreIsAccountedFor
    <3> QED BY <3>4 DEF result
  <2>2. Accounts("memories", LoadMemories)
    <3> DEFINE paths == FilesOf("memories", files)
               result == LoadMemories
    <3>1. StrayFiles(paths) \subseteq result.named
      BY DEF LoadMemories, MemoryStrays
    <3>2. ASSUME NEW p \in Current(Records(paths), files) PROVE p \in result.rows \cup result.named
      <4>1. CASE IsRead(files[p])
        BY <4>1 DEF LoadMemories, MemoryCurrent, MemoryRecords
      <4>2. CASE ~IsRead(files[p])
        <5>1. MemoryHasProblem(files[p])
          BY <4>2 DEF IsRead, MemoryHasProblem
        <5> QED BY <5>1 DEF LoadMemories, MemoryCurrent, MemoryRecords
      <4> QED BY <4>1, <4>2
    <3> HIDE DEF result
    <3>3. Current(Records(paths), files) \subseteq result.rows \cup result.named
      BY <3>2
    <3>4. Accounts("memories", result)
      BY <3>1, <3>3, AStoreIsAccountedFor
    <3> QED BY <3>4 DEF result
  <2> QED BY <2>1, <2>2 DEF NothingDropsOutUnnamed
<1> QED BY <1>1, InvHolds, PTL

(* _same_unit: the published form says what the local one says. *)
LEMMA SameUnitSaysTheSame ==
    ASSUME NEW b, NEW c, IsBody(b), IsBody(c), SameUnit(b, c)
    PROVE  b.text = c.text /\ b.links \cup b.bare = c.links \cup c.bare
<1>1. ASSUME NEW d, IsBody(d)
      PROVE  [d EXCEPT !.links = {}, !.bare = {}].text = d.text
  <2>1. d \in [text : {d.text}, updated : {d.updated}, links : {d.links}, bare : {d.bare},
               portable : {d.portable}, question : {d.question}, shape : {d.shape}]
    <3>1. d = [text |-> d.text, updated |-> d.updated, links |-> d.links, bare |-> d.bare,
               portable |-> d.portable, question |-> d.question, shape |-> d.shape]
      BY <1>1 DEF IsBody
    <3> QED BY <3>1
  <2> DEFINE f == [d EXCEPT !.links = {}, !.bare = {}]
  <2>2. f \in [text : {d.text}, updated : {d.updated}, links : {{}}, bare : {{}},
               portable : {d.portable}, question : {d.question}, shape : {d.shape}]
    BY <2>1
  <2> HIDE DEF f
  <2>3. f.text = d.text
    BY <2>2
  <2> QED BY <2>3 DEF f
<1> DEFINE f == [b EXCEPT !.links = {}, !.bare = {}]
           g == [c EXCEPT !.links = {}, !.bare = {}]
<1>2. f.text = b.text /\ g.text = c.text
  BY <1>1
<1>3. f = g /\ b.links \cup b.bare = c.links \cup c.bare
  BY DEF SameUnit
<1> HIDE DEF f, g
<1> QED BY <1>2, <1>3

(* A unit the understandings generator lists without a warning survives the*)
(* workspace: one of the archives is accepted by the empty store of the    *)
(* next, and unpacking it brings back the unit and all of its evidence as  *)
(* they are now, on a file system that folds case as on one that does not. *)
THEOREM WhatIsNotWarnedOfSurvives == Spec => []UnwarnedUnitsSurvive
<1>1. Inv => UnwarnedUnitsSurvive
  <2> SUFFICES ASSUME Inv, NEW p \in LoadUnits.rows, p \notin LoadUnits.warned
               PROVE  Survives(p)
    BY DEF UnwarnedUnitsSurvive
  <2> DEFINE paths == FilesOf("understandings", files)
  <2>1. p \in PublishedPaths(paths, files, archives)
    BY DEF LoadUnits
  <2>2. PICK a \in archives :
           /\ ConsumeProblems(a, {}) = {}
           /\ \E e \in a : e.path = p /\ SameUnit(e.body, files[p])
           /\ \A q \in AssetsOf(p, paths) : \E e \in a : e.path = q /\ e.body = files[q]
    BY <2>1 DEF PublishedPaths
  <2>3. PICK e \in a : e.path = p /\ SameUnit(e.body, files[p])
    BY <2>2
  <2>4. IsArchive(a) /\ IsEntry(e)
    BY DEF Inv, Archived, IsArchive
  <2>5. p \in DOMAIN files /\ p.store = "understandings"
    <3>1. p \in paths
      BY <2>1 DEF PublishedPaths
    <3> QED BY <3>1 DEF FilesOf
  <2>6. IsBody(files[p]) /\ IsBody(e.body)
    BY <2>4, <2>5 DEF Inv, Stored, IsStore, IsEntry
  <2>7. e.body.text = files[p].text
        /\ e.body.links \cup e.body.bare = files[p].links \cup files[p].bare
    BY <2>3, <2>6, SameUnitSaysTheSame
  <2>8. \A q \in AssetsOf(p, DOMAIN files) : q \in AssetsOf(p, paths)
    BY <2>5 DEF AssetsOf, FilesOf
  <2>9. IsStore(<< >>)
    <3>1. DOMAIN << >> = {}
      OBVIOUS
    <3>2. << >> = [q \in {} |-> << >>[q]]
      OBVIOUS
    <3> QED BY <3>1, <3>2, FS_EmptySet DEF IsStore
  <2> DEFINE back == Extract(a, << >>)
  <2>10. \A x \in a : x.path \in DOMAIN back /\ back[x.path] = x.body
    BY <2>2, <2>4, <2>9, AnAcceptedArchiveLands
  <2> HIDE DEF back, paths
  <2>11. p \in DOMAIN back /\ back[p] = e.body
    BY <2>3, <2>10
  <2>12. \A q \in AssetsOf(p, DOMAIN files) : q \in DOMAIN back /\ back[q] = files[q]
    BY <2>2, <2>8, <2>10
  <2>13. /\ p \in DOMAIN back /\ back[p].text = files[p].text
         /\ back[p].links \cup back[p].bare = files[p].links \cup files[p].bare
         /\ \A q \in AssetsOf(p, DOMAIN files) : q \in DOMAIN back /\ back[q] = files[q]
    BY <2>7, <2>11, <2>12
  <2> QED BY <2>2, <2>13 DEF Survives, back
<1> QED BY <1>1, InvHolds, PTL

(* The walk reads every unit of a category. *)
LEMMA UnitsOfCategoriesAreRead ==
    ASSUME NEW paths, NEW q \in paths, IsPath(q, Slugs), q.kind = "unit", Len(q.dirs) = 2
    PROVE  q \in Records(paths)
<1> DEFINE run == q.dirs[1]
           c == q.dirs[2]
<1>1. q.dirs = <<run, c>>
  BY LengthsOfFolders
<1>2. run \in Runs(paths)
  BY DEF Runs
<1>3. c \in CategoriesOf(run, paths)
  BY DEF CategoriesOf
<1>4. q \in In(<<run, c>>, "unit", paths) /\ Nested(run, paths)
  BY <1>1, <1>3 DEF In, Nested
<1> HIDE DEF run, c
<1>5. q \in UNION {In(<<run, d>>, "unit", paths) : d \in CategoriesOf(run, paths)}
  BY <1>3, <1>4
<1> QED BY <1>2, <1>4, <1>5 DEF Records

(* A listed unit is reported as never inherited only when no readable unit *)
(* the store indexes, of whatever age, names its slug in its lineage.      *)
THEOREM WhatIsInheritedIsNotFlagged == Spec => []UsedKnowledgeIsNotFlagged
<1>1. Inv => UsedKnowledgeIsNotFlagged
  <2> SUFFICES ASSUME Inv, NEW p \in LoadUnits.unused,
                      NEW q \in FilesOf("understandings", files),
                      Exported(q), files[q].shape \in {"well formed", "bad field"},
                      p.name \in files[q].links \cup files[q].bare
               PROVE  FALSE
    BY DEF UsedKnowledgeIsNotFlagged
  <2> DEFINE records == Records(FilesOf("understandings", files))
  <2>5. q \in records
    <3>1. IsPath(q, Slugs)
      BY DEF FilesOf, Inv, Stored, IsStore
    <3> QED BY <3>1, UnitsOfCategoriesAreRead DEF Exported
  <2>6. IsRead(files[q]) /\ p.name \in InheritedTargets(files[q])
    BY DEF IsRead, InheritedTargets
  <2>7. p.name \in UsedSlugs(records, files)
    BY <2>5, <2>6 DEF UsedSlugs
  <2>8. \E rows : p \in NeverInherited(rows, records, files)
    BY DEF LoadUnits
  <2> HIDE DEF records
  <2> QED BY <2>7, <2>8 DEF NeverInherited
<1> QED BY <1>1, InvHolds, PTL

(* History is never overwritten: nothing that is written or unpacked       *)
(* replaces a file that is there, and all of what is unpacked lands.       *)
THEOREM HistoryIsNotOverwritten == Spec => NothingIsOverwritten
<1> DEFINE Kept == /\ files' # << >> /\ ~EditInPlace =>
                         \A p \in DOMAIN files : p \in DOMAIN files' /\ files'[p] = files[p]
                   /\ Consume => \A a \in unpacking : \A e \in a :
                                    e.path \in DOMAIN files' /\ files'[e.path] = e.body
<1>1. Inv /\ [Next]_vars => [Kept]_vars
  <2> SUFFICES ASSUME Inv, Next PROVE Kept
    OBVIOUS
  <2>1. Consume => Kept
    BY UnpackingKeepsInv
  <2>2. ASSUME NEW s \in Sessions, WriteUnit(s) \/ WriteAsset(s)
        PROVE  \A p \in DOMAIN files : p \in DOMAIN files' /\ files'[p] = files[p]
    <3>1. UNCHANGED <<folds, clock, open, archives, unpacking>>
      BY <2>2 DEF WriteUnit, WriteAsset
    <3>2. PICK p, body : IsNewFile(p, body) /\ files' = Written(p, body, files)
      BY <2>2, AUnitIsNew, EvidenceIsNew
    <3> QED BY <3>1, <3>2, NewFilesKeepInv
  <2>3. \/ Tick \/ (\E s \in Sessions : RunFolder(s) \/ WriteUnit(s) \/ WriteAsset(s))
        \/ EditInPlace \/ Publish \/ ArchiveIsFlawed \/ WorkspaceIsLost \/ ConsumeCheck \/ Consume
    BY DEF Next
  <2>4. Tick \/ Publish \/ ArchiveIsFlawed \/ ConsumeCheck \/ (\E s \in Sessions : RunFolder(s))
          => files' = files
    BY DEF Tick, Publish, ArchiveIsFlawed, ConsumeCheck, RunFolder
  <2>5. WorkspaceIsLost => files' = << >>
    BY DEF WorkspaceIsLost
  <2>6. files' # << >> /\ ~EditInPlace =>
          \A p \in DOMAIN files : p \in DOMAIN files' /\ files'[p] = files[p]
    BY <2>1, <2>2, <2>3, <2>4, <2>5
  <2> QED BY <2>1, <2>6
<1>2. Spec => [][Kept]_vars
  <2> HIDE DEF Kept
  <2> QED BY <1>1, InvHolds, PTL DEF Spec
<1> QED BY <1>2 DEF NothingIsOverwritten
=============================================================================
