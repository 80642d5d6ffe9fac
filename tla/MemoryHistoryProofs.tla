------------------------ MODULE MemoryHistoryProofs ------------------------
(***************************************************************************)
(* Theorems about the version chains of MemoryStore: that every memory has *)
(* versions 1..n of which exactly the newest is current, that no version   *)
(* repeats the claim before it, and that concurrent batches behave as      *)
(* compare-and-set writes on what each had read.                           *)
(***************************************************************************)
EXTENDS MemoryStoreProofs, FiniteSetTheorems

-----------------------------------------------------------------------------
(***************************************************************************)
(* What a step of a request does to its plan and to the store.             *)
(***************************************************************************)

(* w goes by the request and the reads it had.                             *)
SameRead(w) ==
    /\ request'[w] = request[w]
    /\ plan'[w].base = plan[w].base /\ plan'[w].claim = plan[w].claim

(* From planning to its end, a request goes by what it read then.          *)
LEMMA WorkKeepsPlan ==
    ASSUME TypeInv, NEW w \in Writer, WorkStep(w), ~Plans(w)
    PROVE  pc[w] \in Planned /\ SameRead(w) /\ UNCHANGED dbVars
<1> USE DEF Planned, Walking
<1>0. TypeOK /\ SavesAVersion
  BY DEF TypeInv
<1>1. CASE Resolves(w)
  BY <1>0, <1>1, ResolvesEffect DEF SameRead
<1>2. CASE StoreBlobs(w)
  BY <1>2 DEF StoreBlobs, SameRead, At
<1>3. ASSUME Script(w)' = Script(w) PROVE SameRead(w)
  BY <1>3 DEF SameRead, Script
<1>4. CASE QuietStep(w)
  BY <1>0, <1>3, <1>4, QuietEffect
<1>5. CASE SavedItem(w)
  BY <1>0, <1>3, <1>5, SavedItemEffect DEF At
<1>6. CASE CreateNew(w) \/ KeepUnchanged(w) \/ VersionExisting(w)
  BY <1>0, <1>3, <1>6, CreateNewEffect, KeepUnchangedEffect, VersionExistingEffect DEF At
<1>7. CASE \/ \E k \in todo[w].flips : Flips(w, k)
           \/ \E p \in todo[w].memories : InsertsMemory(w, p)
           \/ \E v \in todo[w].versions : InsertsVersion(w, v)
  BY <1>0, <1>3, <1>7, FlipEffect, InsertMemoryEffect, InsertVersionEffect DEF At
<1> QED BY <1>1, <1>2, <1>4, <1>5, <1>6, <1>7 DEF WorkStep, QuietStep, SavedItem

(* A planned request has just planned, or goes by what it had read.        *)
LEMMA PlanKept ==
    ASSUME TypeInv, NEW w \in Writer, WriterStep(w), pc'[w] \in Planned
    PROVE  Plans(w) \/ (pc[w] \in Planned /\ SameRead(w) /\ UNCHANGED dbVars)
<1>1. ~(Submit(w) \/ LoseAnswer(w) \/ Retry(w))
  BY ClientEffect DEF TypeInv, Planned, Walking
<1>2. ~(RollsBack(w) \/ Commit(w))
  BY FinishEffect DEF TypeInv, RollsBack, Commit, Planned, Walking
<1> QED BY <1>1, <1>2, WorkKeepsPlan DEF WriterStep

(* What a commit does: it empties the overlay into the tables.             *)
LEMMA CommitEffect ==
    ASSUME TypeInv, NEW w \in Writer, WalkInv(w), Commit(w)
    PROVE  /\ memories' = memories \cup tx[w].memories
           /\ versions' = Flipped(versions, tx[w].flips) \cup tx[w].versions
           /\ pc[w] = "commit" /\ tx'[w] = NoTx /\ pc'[w] = "done" /\ plan'[w] = NoPlan
           /\ Walks(w) /\ todo[w] = NoRows /\ cursor[w] \notin DOMAIN request[w].items
           /\ Pending(w) = tx[w].versions /\ Made(w) = tx[w].memories
           /\ \A m : ~Superseding(w, m)
<1>1. /\ memories' = memories \cup tx[w].memories
      /\ versions' = Flipped(versions, tx[w].flips) \cup tx[w].versions
      /\ pc[w] = "commit" /\ Finish(w, "ok")
  BY DEF Commit, At
<1>2. Walks(w) /\ todo[w] = NoRows /\ cursor[w] \notin DOMAIN request[w].items
  BY <1>1 DEF WalkInv, HasSaved, Walking
<1>3. Pending(w) = tx[w].versions /\ Made(w) = tx[w].memories
  BY <1>2 DEF Pending, Made, NoRows
<1>4. tx'[w] = NoTx /\ pc'[w] = "done" /\ plan'[w] = NoPlan
  BY <1>1, FinishEffect DEF TypeInv
<1> QED BY <1>1, <1>2, <1>3, <1>4 DEF Superseding, At

-----------------------------------------------------------------------------
(***************************************************************************)
(* What the store and the requests know of each other.                     *)
(***************************************************************************)

(* What a request read of the memories it targets is still in the store.   *)
HasRead(w) ==
    pc[w] \in Planned =>
      /\ \A m \in Targets(request[w]) :
           /\ \E v \in versions :
                v.memory = m /\ v.version = Base(w)[m] /\ v.claim = plan[w].claim[m]
           /\ \E p \in memories : p.uuid = m /\ p.group = request[w].group
      /\ \A m \in Memory \ Targets(request[w]) : Base(w)[m] = 0

(* A row whose flag a transaction has cleared is current for the others,   *)
(* and no two transactions clear the same.                                 *)
FlipsAreGuarded ==
    /\ \A w \in Writer : \A k \in tx[w].flips : \E v \in versions : KeyOf(v) = k /\ v.current
    /\ \A w \in Writer : \A u \in Others(w) : tx[w].flips \cap tx[u].flips = {}

(* An uncommitted memory clashes with no other, committed or not.          *)
NewMemoriesAreNew ==
    /\ \A w \in Writer : \A p \in tx[w].memories : \A q \in memories : p.uuid # q.uuid
    /\ \A w \in Writer : \A u \in Others(w) :
         \A p \in tx[w].memories : \A q \in tx[u].memories : p.uuid # q.uuid

(* Rows have memories, memories have rows, and requests stand on both.     *)
StoreInv ==
    /\ \A w \in Writer : HasRead(w)
    /\ FlipsAreGuarded /\ NewMemoriesAreNew
    /\ \A v \in versions : \E p \in memories : p.uuid = v.memory
    /\ \A p \in memories : \E v \in versions : v.memory = p.uuid

(* Memory m has versions 1..n, once each, and the n-th is the current one. *)
Chain(m, n) ==
    /\ \A v \in VersionsOf(m) :
         1 <= v.version /\ v.version <= n /\ (v.current <=> v.version = n)
    /\ \A i \in 1 .. n : \E v \in VersionsOf(m) : v.version = i
    /\ \A u, v \in VersionsOf(m) : u.version = v.version => u = v

(* Every memory has a chain of versions; that of an unknown one is empty.  *)
Chains == \A m \in Memory : \E n \in Nat : Chain(m, n)

(* No version is ever removed or rewritten.                                *)
LEMMA KeptVersion ==
    ASSUME TypeOK, [Next]_vars, NEW v \in versions
    PROVE  \E u \in versions' : u.memory = v.memory /\ u.version = v.version /\ u.claim = v.claim
<1>1. CASE UNCHANGED dbVars
  BY <1>1 DEF dbVars
<1>2. ASSUME NEW w \in Writer, Commit(w)
      PROVE  \E u \in versions' : u.memory = v.memory /\ u.version = v.version /\ u.claim = v.claim
  <2>1. versions \in SUBSET VersionRow /\ versions' = Flipped(versions, tx[w].flips) \cup tx[w].versions
    BY <1>2 DEF TypeOK, Commit
  <2>2. Marked(v, tx[w].flips) \in versions' /\ Resembles(Marked(v, tx[w].flips), v)
    BY <2>1, FlippedFacts
  <2> QED BY <2>2 DEF Resembles
<1> QED BY <1>1, <1>2, OnlyCommitWrites

(* No memory is ever removed.                                              *)
LEMMA KeptMemory ==
    ASSUME [Next]_vars
    PROVE  memories \subseteq memories'
BY OnlyCommitWrites DEF Commit, dbVars

(* What was read stays in the store until the request ends.                *)
LEMMA HasReadStep ==
    ASSUME TypeInv, [Next]_vars, NEW u \in Writer, HasRead(u)
    PROVE  HasRead(u)'
<1> SUFFICES ASSUME pc'[u] \in Planned PROVE HasRead(u)'
  BY DEF HasRead
<1>1. ASSUME pc[u] \in Planned, SameRead(u) PROVE HasRead(u)'
  <2>1. /\ request'[u] = request[u] /\ Base(u)' = Base(u) /\ plan'[u].claim = plan[u].claim
    BY <1>1 DEF SameRead, Base
  <2>2. ASSUME NEW m \in Targets(request[u])
        PROVE  /\ \E v \in versions' :
                    v.memory = m /\ v.version = Base(u)[m] /\ v.claim = plan[u].claim[m]
               /\ \E p \in memories' : p.uuid = m /\ p.group = request[u].group
    <3>1. PICK v \in versions : v.memory = m /\ v.version = Base(u)[m] /\ v.claim = plan[u].claim[m]
      BY <1>1 DEF HasRead
    <3>2. PICK p \in memories : p.uuid = m /\ p.group = request[u].group
      BY <1>1 DEF HasRead
    <3>3. PICK x \in versions' : x.memory = v.memory /\ x.version = v.version /\ x.claim = v.claim
      BY KeptVersion DEF TypeInv
    <3> QED BY <3>1, <3>2, <3>3, KeptMemory
  <2> QED BY <1>1, <2>1, <2>2 DEF HasRead
<1>2. ASSUME UNCHANGED Own(u) PROVE HasRead(u)'
  BY <1>1, <1>2 DEF Own, SameRead
<1>3. CASE Plans(u)
  <2>1. /\ pc'[u] = "planned" /\ request'[u] = request[u] /\ UNCHANGED dbVars
        /\ plan'[u].base = [m \in Memory |-> IF m \in Targets(request[u]) THEN CurrentOf(m).version ELSE 0]
        /\ plan'[u].claim = [m \in Memory |-> IF m \in Targets(request[u]) THEN CurrentOf(m).claim ELSE Nobody]
    BY <1>3, PlansEffect DEF TypeInv
  <2>2. Targets(request[u]) \subseteq Memory
    BY RequestFacts DEF TypeInv, TypeOK
  <2>3. \A m \in Targets(request[u]) :
          /\ CurrentOf(m) \in versions /\ CurrentOf(m).memory = m
          /\ \E p \in memories : p.uuid = m /\ p.group = request[u].group
    BY <1>3, PlansFacts DEF Plans
  <2> QED BY <2>1, <2>2, <2>3 DEF HasRead, Base, dbVars
<1>4. ASSUME NEW w \in Writer, WriterStep(w) PROVE HasRead(u)'
  BY <1>1, <1>2, <1>3, <1>4, PlanKept, OthersKeep DEF Others, TypeInv
<1>5. CASE UNCHANGED vars
  BY <1>2, <1>5 DEF vars, Own
<1> QED BY <1>4, <1>5, WriterSteps

(* Short of a commit, a step leaves the tables alone, and an overlay grows *)
(* by one statement at a time.                                             *)
LEMMA OverlaySteps ==
    ASSUME TypeInv, NEW w \in Writer, WriterStep(w), ~Commit(w)
    PROVE  /\ UNCHANGED dbVars
           /\ tx'[w].flips \subseteq tx[w].flips \/ \E k \in todo[w].flips : Flips(w, k)
           /\ tx'[w].memories \subseteq tx[w].memories \/ \E p \in todo[w].memories : InsertsMemory(w, p)
<1>0. TypeOK /\ SavesAVersion
  BY DEF TypeInv
<1>1. CASE Submit(w) \/ LoseAnswer(w) \/ Retry(w)
  BY <1>0, <1>1, ClientEffect
<1>2. CASE RollsBack(w)
  BY <1>0, <1>2, FinishEffect DEF RollsBack, NoTx
<1>3. CASE Plans(w) \/ Resolves(w)
  BY <1>0, <1>3, PlansEffect, ResolvesEffect
<1>4. CASE StoreBlobs(w)
  BY <1>4 DEF StoreBlobs
<1>5. CASE QuietStep(w)
  BY <1>0, <1>5, QuietEffect DEF Rows
<1>6. CASE SavedItem(w)
  BY <1>0, <1>6, SavedItemEffect DEF Rows
<1>7. CASE CreateNew(w) \/ KeepUnchanged(w) \/ VersionExisting(w)
  BY <1>0, <1>7 DEF CreateNew, KeepUnchanged, VersionExisting
<1>8. ASSUME NEW k \in todo[w].flips, Flips(w, k)
      PROVE  UNCHANGED dbVars /\ tx'[w].memories = tx[w].memories
  BY <1>0, <1>8, FlipEffect DEF Rows
<1>9. ASSUME NEW p \in todo[w].memories, InsertsMemory(w, p)
      PROVE  UNCHANGED dbVars /\ tx'[w].flips = tx[w].flips
  BY <1>0, <1>9, InsertMemoryEffect DEF Rows
<1>10. ASSUME NEW v \in todo[w].versions, InsertsVersion(w, v)
       PROVE  UNCHANGED dbVars /\ tx'[w].flips = tx[w].flips /\ tx'[w].memories = tx[w].memories
  BY <1>0, <1>10, InsertVersionEffect DEF Rows
<1> QED
  BY <1>1, <1>2, <1>3, <1>4, <1>5, <1>6, <1>7, <1>8, <1>9, <1>10
     DEF WriterStep, WorkStep, QuietStep, SavedItem

(* A row of a flipped table resembles one of the table.                    *)
LEMMA FlippedSource ==
    ASSUME NEW R \in SUBSET VersionRow, NEW F, NEW v \in Flipped(R, F)
    PROVE  \E u \in R : Resembles(v, u) /\ (v.current <=> u.current /\ KeyOf(u) \notin F)
<1>1. PICK u \in R : v = Marked(u, F)
  BY FlippedFacts
<1> QED BY <1>1, FlippedFacts

(* A statement clears a flag only where the row is current and nobody else *)
(* has.                                                                    *)
LEMMA FlipsStep ==
    ASSUME TypeInv, FlipsAreGuarded, NEW w \in Writer, WriterStep(w)
    PROVE  FlipsAreGuarded'
<1> USE DEF FlipsAreGuarded, Others
<1>0. TypeOK /\ versions \in SUBSET VersionRow
  BY DEF TypeInv, TypeOK
<1>1. \A u \in Others(w) : tx'[u] = tx[u]
  BY <1>0, OthersKeep DEF Own
<1>2. CASE Commit(w)
  <2>1. tx'[w].flips = {}
    BY <1>0, <1>2, FinishEffect DEF Commit, NoTx
  <2>2. ASSUME NEW u \in Others(w), NEW k \in tx[u].flips
        PROVE  \E v \in versions' : KeyOf(v) = k /\ v.current
    <3>1. PICK v \in versions : KeyOf(v) = k /\ v.current
      OBVIOUS
    <3>2. k \notin tx[w].flips
      OBVIOUS
    <3> DEFINE x == Marked(v, tx[w].flips)
    <3>3. x \in Flipped(versions, tx[w].flips) /\ Resembles(x, v) /\ x.current
      BY <1>0, <3>1, <3>2, FlippedFacts
    <3>4. x \in versions'
      BY <1>2, <3>3 DEF Commit
    <3> HIDE DEF x
    <3> QED BY <3>1, <3>3, <3>4 DEF Resembles
  <2> QED BY <1>1, <2>1, <2>2
<1>3. ASSUME NEW k \in todo[w].flips, Flips(w, k) PROVE FlipsAreGuarded'
  <2>1. /\ tx'[w].flips \subseteq tx[w].flips \cup {k} /\ versions' = versions
        /\ FlipWaitsFor(w, k) = {}
        /\ tx'[w].flips \subseteq tx[w].flips \/ ~ \E v \in tx[w].versions : KeyOf(v) = k
    BY <1>0, <1>3, FlipRows
  <2>2. \A u \in Others(w) : k \notin tx[u].flips
    BY <2>1 DEF FlipWaitsFor
  <2>3. ASSUME ~ \E v \in tx[w].versions : KeyOf(v) = k
        PROVE  \E v \in versions : KeyOf(v) = k /\ v.current
    <3>1. PICK v \in VisibleVersions(w) : KeyOf(v) = k /\ v.current
      BY <1>0, <1>3, FlipEffect
    <3>2. v \in Flipped(versions, tx[w].flips)
      BY <2>3, <3>1 DEF VisibleVersions
    <3> QED BY <1>0, <3>1, <3>2, FlippedSource DEF Resembles
  <2> QED BY <1>1, <2>1, <2>2, <2>3
<1>4. ASSUME UNCHANGED dbVars, tx'[w].flips \subseteq tx[w].flips PROVE FlipsAreGuarded'
  BY <1>1, <1>4 DEF dbVars
<1> QED BY <1>2, <1>3, <1>4, OverlaySteps

(* A statement inserts a memory only where nobody has its uuid.            *)
LEMMA NewMemoriesStep ==
    ASSUME TypeInv, NewMemoriesAreNew, NEW w \in Writer, WriterStep(w)
    PROVE  NewMemoriesAreNew'
<1> USE DEF NewMemoriesAreNew, Others
<1>0. TypeOK
  BY DEF TypeInv
<1>1. \A u \in Others(w) : tx'[u] = tx[u]
  BY <1>0, OthersKeep DEF Own
<1>2. CASE Commit(w)
  <2>1. tx'[w].memories = {} /\ memories' = memories \cup tx[w].memories
    BY <1>0, <1>2, FinishEffect DEF Commit, NoTx
  <2> QED BY <1>1, <2>1
<1>3. ASSUME NEW p \in todo[w].memories, InsertsMemory(w, p) PROVE NewMemoriesAreNew'
  <2>1. tx'[w].memories = tx[w].memories \cup {p} /\ memories' = memories
    BY <1>0, <1>3, InsertMemoryEffect DEF Rows, dbVars
  <2>2. \A q \in memories : p.uuid # q.uuid
    BY <1>3 DEF InsertsMemory, MemoryIsRefused, SameMemoryKey
  <2>3. \A u \in Others(w) : \A q \in tx[u].memories : p.uuid # q.uuid
    BY <1>3 DEF InsertsMemory, InsertMemory, MemoryWaitsFor, SameMemoryKey
  <2> QED BY <1>1, <2>1, <2>2, <2>3
<1>4. ASSUME UNCHANGED dbVars, tx'[w].memories \subseteq tx[w].memories PROVE NewMemoriesAreNew'
  BY <1>1, <1>4 DEF dbVars
<1> QED BY <1>2, <1>3, <1>4, OverlaySteps

(* Rows and memories arrive together.                                      *)
LEMMA RowsAndMemoriesStep ==
    ASSUME TypeInv, StoreInv, NEW w \in Writer, WalkInv(w), WriterStep(w)
    PROVE  /\ \A v \in versions' : \E p \in memories' : p.uuid = v.memory
           /\ \A p \in memories' : \E v \in versions' : v.memory = p.uuid
<1>1. CASE UNCHANGED dbVars
  BY <1>1 DEF StoreInv, dbVars
<1>2. CASE Commit(w)
  <2>1. /\ memories' = memories \cup tx[w].memories
        /\ versions' = Flipped(versions, tx[w].flips) \cup tx[w].versions
        /\ RowsAreMade(w) /\ Pending(w) = tx[w].versions /\ Made(w) = tx[w].memories
        /\ pc[w] = "commit" /\ versions \in SUBSET VersionRow
    BY <1>2, CommitEffect DEF TypeInv, TypeOK, Walks
  <2>2. ASSUME NEW v \in versions' PROVE \E p \in memories' : p.uuid = v.memory
    <3>1. CASE v \in tx[w].versions /\ v.memory \in Targets(request[w])
      <4>1. HasRead(w) /\ pc[w] \in Planned
        BY <2>1 DEF StoreInv, Planned, Walking
      <4> QED BY <2>1, <3>1, <4>1 DEF HasRead
    <3>2. CASE v \in tx[w].versions /\ v.memory \notin Targets(request[w])
      BY <2>1, <3>2 DEF RowsAreMade
    <3>3. CASE v \in Flipped(versions, tx[w].flips)
      <4>1. PICK u \in versions : v = Marked(u, tx[w].flips)
        BY <2>1, <3>3, FlippedFacts
      <4>2. v.memory = u.memory
        BY <2>1, <4>1, FlippedFacts DEF Resembles
      <4> QED BY <2>1, <4>2 DEF StoreInv
    <3> QED BY <2>1, <3>1, <3>2, <3>3
  <2>3. ASSUME NEW p \in memories' PROVE \E v \in versions' : v.memory = p.uuid
    <3>1. CASE p \in tx[w].memories
      BY <2>1, <3>1 DEF RowsAreMade
    <3>2. CASE p \in memories
      <4>1. PICK u \in versions : u.memory = p.uuid
        BY <3>2 DEF StoreInv
      <4>2. Marked(u, tx[w].flips) \in versions' /\ Resembles(Marked(u, tx[w].flips), u)
        BY <2>1, FlippedFacts
      <4> QED BY <4>1, <4>2 DEF Resembles
    <3> QED BY <2>1, <3>1, <3>2
  <2> QED BY <2>2, <2>3
<1> QED BY <1>1, <1>2, OverlaySteps

(* The invariant of the store.                                             *)
LEMMA StoreInvHolds == Spec => []StoreInv
<1>1. Init => StoreInv
  <2> SUFFICES ASSUME Init PROVE StoreInv
    OBVIOUS
  <2>1. \A w \in Writer : HasRead(w)
    BY DEF Init, HasRead, Planned, Walking
  <2>2. FlipsAreGuarded /\ NewMemoriesAreNew
    BY DEF Init, FlipsAreGuarded, NewMemoriesAreNew, NoTx
  <2>3. \A v \in versions : \E p \in memories : p.uuid = v.memory
    <3> SUFFICES ASSUME NEW s \in Seed PROVE \E p \in memories : p.uuid = s.uuid
      BY DEF Init
    <3>1. [uuid |-> s.uuid, group |-> s.group, slug |-> s.slug, by |-> Nobody] \in memories
      BY DEF Init
    <3> QED BY <3>1
  <2>4. \A p \in memories : \E v \in versions : v.memory = p.uuid
    <3> SUFFICES ASSUME NEW s \in Seed PROVE \E v \in versions : v.memory = s.uuid
      BY DEF Init
    <3>1. [memory |-> s.uuid, version |-> 1, claim |-> SeedClaim, current |-> TRUE, by |-> Nobody] \in versions
      BY DEF Init
    <3> QED BY <3>1
  <2> QED BY <2>1, <2>2, <2>3, <2>4 DEF StoreInv
<1>2. TypeInv /\ AllWalk /\ StoreInv /\ [Next]_vars => StoreInv'
  <2> SUFFICES ASSUME TypeInv, AllWalk, StoreInv, [Next]_vars PROVE StoreInv'
    OBVIOUS
  <2>1. \A w \in Writer : HasRead(w)'
    BY HasReadStep DEF StoreInv
  <2>2. ASSUME NEW w \in Writer, WriterStep(w) PROVE StoreInv'
    BY <2>1, <2>2, FlipsStep, NewMemoriesStep, RowsAndMemoriesStep DEF StoreInv, AllWalk
  <2>3. CASE UNCHANGED vars
    BY <2>1, <2>3 DEF StoreInv, FlipsAreGuarded, NewMemoriesAreNew, vars, Others
  <2> QED BY <2>2, <2>3, WriterSteps
<1> QED BY <1>1, <1>2, TypeInvHolds, WalkInvHolds, PTL DEF Spec

-----------------------------------------------------------------------------
(***************************************************************************)
(* Chains.  A commit either leaves a memory's chain alone or lengthens it  *)
(* from the version that its request had read.                             *)
(***************************************************************************)

(* The commit of w adds a version to m.                                    *)
Bumps(w, m) == \E v \in tx[w].versions : v.memory = m

(* The versions of m after a commit are those that were there, marked, and *)
(* those that the request adds.                                            *)
LEMMA CommitVersions ==
    ASSUME TypeInv, NEW w \in Writer, WalkInv(w), Commit(w), NEW m
    PROVE  /\ \A v \in VersionsOf(m)' :
                \/ v \in tx[w].versions /\ v.memory = m
                \/ \E u \in VersionsOf(m) : v = Marked(u, tx[w].flips)
           /\ \A v \in tx[w].versions : v.memory = m => v \in VersionsOf(m)'
           /\ \A u \in VersionsOf(m) :
                /\ Marked(u, tx[w].flips) \in VersionsOf(m)' /\ Resembles(Marked(u, tx[w].flips), u)
                /\ Marked(u, tx[w].flips).current <=> u.current /\ KeyOf(u) \notin tx[w].flips
<1> DEFINE F == tx[w].flips
<1>1. versions' = Flipped(versions, F) \cup tx[w].versions /\ versions \in SUBSET VersionRow
  BY CommitEffect DEF TypeInv, TypeOK
<1>2. VersionsOf(m)' = {v \in versions' : v.memory = m}
  BY DEF VersionsOf
<1> HIDE DEF F
<1>3. ASSUME NEW v \in Flipped(versions, F), v.memory = m
      PROVE  \E u \in VersionsOf(m) : v = Marked(u, F)
  <2>1. PICK u \in versions : v = Marked(u, F)
    BY <1>1, FlippedFacts
  <2>2. u.memory = m
    BY <1>1, <1>3, <2>1, FlippedFacts DEF Resembles
  <2> QED BY <2>1, <2>2 DEF VersionsOf
<1>4. ASSUME NEW u \in VersionsOf(m)
      PROVE  /\ Marked(u, F) \in VersionsOf(m)' /\ Resembles(Marked(u, F), u)
             /\ Marked(u, F).current <=> u.current /\ KeyOf(u) \notin F
  <2>1. u \in versions /\ u.memory = m
    BY DEF VersionsOf
  <2>2. /\ Marked(u, F) \in Flipped(versions, F) /\ Resembles(Marked(u, F), u)
        /\ Marked(u, F).current <=> u.current /\ KeyOf(u) \notin F
    BY <1>1, <2>1, FlippedFacts
  <2>3. Marked(u, F).memory = m
    BY <2>1, <2>2 DEF Resembles
  <2> QED BY <1>1, <1>2, <2>2, <2>3
<1> QED BY <1>1, <1>2, <1>3, <1>4 DEF F

(* A memory that gets no new version keeps every row as it is.             *)
LEMMA NotBumped ==
    ASSUME TypeInv, NEW w \in Writer, WalkInv(w), Commit(w), NEW m, ~Bumps(w, m)
    PROVE  VersionsOf(m)' = VersionsOf(m)
<1>1. /\ Pending(w) = tx[w].versions /\ RowsAreNumbered(w) /\ FlipsAreOurs(w)
      /\ ~Superseding(w, m)
  BY CommitEffect DEF Walks
<1>2. Targets(request[w]) \subseteq Memory /\ cur[w] \in [Memory -> Nat]
  BY RequestFacts DEF TypeInv, TypeOK
<1>3. \A k \in tx[w].flips : k[1] # m
  <2> SUFFICES ASSUME NEW k \in tx[w].flips, k[1] = m PROVE FALSE
    OBVIOUS
  <2>1. m \in Targets(request[w]) /\ Base(w)[m] < cur[w][m]
    BY <1>1 DEF FlipsAreOurs
  <2>2. cur[w][m] \in Nat
    BY <1>2, <2>1
  <2>3. \E v \in Pending(w) : v.memory = m /\ v.version = cur[w][m]
    BY <1>1, <2>1, <2>2 DEF RowsAreNumbered
  <2> QED BY <1>1, <2>3 DEF Bumps
<1>4. ASSUME NEW u \in VersionsOf(m) PROVE Marked(u, tx[w].flips) = u
  <2>1. u \in VersionRow /\ u.memory = m
    BY DEF TypeInv, TypeOK, VersionsOf
  <2>2. KeyOf(u) \notin tx[w].flips
    BY <1>3, <2>1 DEF KeyOf
  <2>3. (u.current /\ KeyOf(u) \notin tx[w].flips) = u.current
    BY <2>1, <2>2 DEF VersionRow
  <2>4. [u EXCEPT !.current = u.current] = u
    BY <2>1 DEF VersionRow
  <2> QED BY <2>3, <2>4 DEF Marked
<1> QED BY <1>4, CommitVersions DEF Bumps

(* A memory that the request targets grows from what it had read of it.    *)
LEMMA TargetBumped ==
    ASSUME TypeInv, StoreInv, NEW w \in Writer, WalkInv(w), Commit(w),
           NEW m \in Targets(request[w]), Bumps(w, m), NEW n \in Nat, Chain(m, n)
    PROVE  n = Base(w)[m] /\ \E c \in Nat : n < c /\ Chain(m, c)'
<1> DEFINE b == Base(w)[m]
           c == cur[w][m]
           F == tx[w].flips
<1>1. /\ Pending(w) = tx[w].versions /\ RowsAreNumbered(w) /\ FlipsAreOurs(w) /\ MarksAreRight(w)
      /\ ~Superseding(w, m)
  BY CommitEffect DEF Walks
<1>2. b \in Nat /\ c \in Nat /\ m \in Memory
  <2>1. m \in Memory
    BY RequestFacts DEF TypeInv, TypeOK
  <2> QED BY <2>1 DEF TypeInv, TypeOK, Plan, Base
<1>3. b < c
  <2>1. PICK v \in tx[w].versions : v.memory = m
    BY DEF Bumps
  <2>2. b < v.version /\ v.version <= c
    BY <1>1, <2>1 DEF RowsAreNumbered
  <2>3. v.version \in Nat
    BY DEF TypeInv, TypeOK, Overlay, VersionRow
  <2> QED BY <1>2, <2>2, <2>3
<1>4. <<m, b>> \in F
  BY <1>1, <1>3 DEF FlipsAreOurs
<1>5. n = b
  <2>1. PICK v \in versions : KeyOf(v) = <<m, b>> /\ v.current
    BY <1>4 DEF StoreInv, FlipsAreGuarded
  <2>2. v \in VersionsOf(m) /\ v.version = b
    BY <2>1 DEF KeyOf, VersionsOf
  <2> QED BY <2>1, <2>2 DEF Chain
<1>6. \A v \in tx[w].versions : v.memory = m =>
        b < v.version /\ v.version <= c /\ v.version \in Nat /\ (v.current <=> v.version = c)
  <2> SUFFICES ASSUME NEW v \in tx[w].versions, v.memory = m
               PROVE  b < v.version /\ v.version <= c /\ v.version \in Nat /\ (v.current <=> v.version = c)
    OBVIOUS
  <2>1. b < v.version /\ v.version <= c
    BY <1>1 DEF RowsAreNumbered
  <2>2. v.version \in Nat
    BY DEF TypeInv, TypeOK, Overlay, VersionRow
  <2>3. CASE v.version < c
    BY <1>1, <2>1, <2>2, <2>3 DEF MarksAreRight
  <2>4. CASE v.version = c
    BY <1>1, <2>1, <2>2, <2>4 DEF MarksAreRight
  <2> QED BY <1>2, <2>1, <2>2, <2>3, <2>4
<1>7. ASSUME NEW u \in VersionsOf(m)
      PROVE  1 <= u.version /\ u.version <= b /\ u.version \in Nat /\ ~Marked(u, F).current
  <2>1. u.version \in Nat /\ u.memory = m
    BY DEF TypeInv, TypeOK, VersionsOf, VersionRow
  <2>2. 1 <= u.version /\ u.version <= b /\ (u.current <=> u.version = b)
    BY <1>5 DEF Chain
  <2>3. u.version = b => KeyOf(u) \in F
    BY <1>4, <2>1 DEF KeyOf
  <2> QED BY <2>1, <2>2, <2>3, CommitVersions
<1> HIDE DEF b, c, F
<1>8. ASSUME NEW v \in VersionsOf(m)'
      PROVE  1 <= v.version /\ v.version <= c /\ (v.current <=> v.version = c)
  <2>1. CASE v \in tx[w].versions /\ v.memory = m
    BY <1>2, <1>6, <2>1
  <2>2. ASSUME NEW u \in VersionsOf(m), v = Marked(u, F)
        PROVE  1 <= v.version /\ v.version <= c /\ (v.current <=> v.version = c)
    <3>1. v.version = u.version /\ ~v.current
      BY <1>7, <2>2, CommitVersions DEF Resembles, F
    <3> QED BY <1>2, <1>3, <1>7, <3>1
  <2> QED BY <2>1, <2>2, CommitVersions DEF F
<1>9. ASSUME NEW i \in 1 .. c PROVE \E v \in VersionsOf(m)' : v.version = i
  <2>1. CASE i <= b
    <3>1. PICK u \in VersionsOf(m) : u.version = i
      BY <1>2, <1>5, <2>1 DEF Chain
    <3> QED BY <3>1, CommitVersions DEF Resembles
  <2>2. CASE b < i
    <3>1. PICK v \in tx[w].versions : v.memory = m /\ v.version = i
      BY <1>1, <1>2, <2>2 DEF RowsAreNumbered, b, c
    <3> QED BY <3>1, CommitVersions
  <2> QED BY <1>2, <2>1, <2>2
<1>10. ASSUME NEW u \in VersionsOf(m)', NEW v \in VersionsOf(m)', u.version = v.version
       PROVE  u = v
  <2>1. CASE u \in tx[w].versions /\ v \in tx[w].versions /\ u.memory = m /\ v.memory = m
    BY <1>1, <1>10, <2>1 DEF RowsAreNumbered, KeyOf
  <2>2. ASSUME NEW x \in VersionsOf(m), NEW y \in tx[w].versions, y.memory = m,
               Marked(x, F).version = y.version
        PROVE  FALSE
    <3>1. x.version = y.version
      BY <2>2, CommitVersions DEF Resembles, F
    <3> QED BY <1>2, <1>6, <1>7, <2>2, <3>1
  <2>3. ASSUME NEW x \in VersionsOf(m), NEW y \in VersionsOf(m), Marked(x, F).version = Marked(y, F).version
        PROVE  x = y
    <3>1. x.version = y.version
      BY <2>3, CommitVersions DEF Resembles, F
    <3> QED BY <3>1 DEF Chain
  <2> QED BY <1>10, <2>1, <2>2, <2>3, CommitVersions DEF F
<1>11. PICK k \in Nat : k = c
  BY <1>2
<1>12. Chain(m, k)'
  BY <1>8, <1>9, <1>10, <1>11 DEF Chain
<1> QED BY <1>3, <1>5, <1>11, <1>12 DEF b

(* A memory that the request creates starts at version 1.                  *)
LEMMA CreatedBumped ==
    ASSUME TypeInv, StoreInv, NEW w \in Writer, WalkInv(w), Commit(w),
           NEW m \in Memory \ Targets(request[w]), Bumps(w, m), NEW n \in Nat, Chain(m, n)
    PROVE  n = 0 /\ Base(w)[m] = 0 /\ VersionsOf(m) = {} /\ Chain(m, 1)'
<1>1. /\ Pending(w) = tx[w].versions /\ RowsAreNumbered(w) /\ RowsAreMade(w)
      /\ pc[w] = "commit"
  BY CommitEffect DEF Walks
<1>2. PICK v \in tx[w].versions : v.memory = m
  BY DEF Bumps
<1>3. /\ \A u \in tx[w].versions : u.memory = m => u = v
      /\ v.version = 1 /\ v.current
  <2>1. \A u \in tx[w].versions : u.memory = m => u.version = 1 /\ u.current
    BY <1>1 DEF RowsAreMade
  <2> QED BY <1>1, <1>2, <2>1 DEF RowsAreNumbered, KeyOf
<1>4. VersionsOf(m) = {}
  <2>1. PICK q \in tx[w].memories : q.uuid = m
    BY <1>1, <1>2 DEF RowsAreMade
  <2>2. \A p \in memories : p.uuid # m
    BY <2>1 DEF StoreInv, NewMemoriesAreNew
  <2> QED BY <2>2 DEF StoreInv, VersionsOf
<1>5. n = 0
  <2>1. ~(1 \in 1 .. n)
    BY <1>4 DEF Chain
  <2> QED BY <2>1
<1>6. Base(w)[m] = 0
  BY <1>1 DEF StoreInv, HasRead, Planned, Walking
<1>7. VersionsOf(m)' = {v}
  BY <1>2, <1>3, <1>4, CommitVersions
<1>8. Chain(m, 1)'
  BY <1>3, <1>7 DEF Chain
<1> QED BY <1>4, <1>5, <1>6, <1>8

(* A commit leaves a chain alone, or lengthens it from what w had read.    *)
LEMMA CommitBumps ==
    ASSUME TypeInv, StoreInv, NEW w \in Writer, WalkInv(w), Commit(w),
           NEW m \in Memory, NEW n \in Nat, Chain(m, n)
    PROVE  \/ VersionsOf(m)' = VersionsOf(m)
           \/ n = Base(w)[m] /\ \E c \in Nat : n < c /\ Chain(m, c)'
<1>1. CASE ~Bumps(w, m)
  BY <1>1, NotBumped
<1>2. CASE Bumps(w, m) /\ m \in Targets(request[w])
  BY <1>2, TargetBumped
<1>3. CASE Bumps(w, m) /\ m \notin Targets(request[w])
  <2>1. 0 < 1 /\ 1 \in Nat
    OBVIOUS
  <2> QED BY <1>3, <2>1, CreatedBumped
<1> QED BY <1>1, <1>2, <1>3

(* Every step preserves the chains.                                        *)
LEMMA ChainsStep ==
    ASSUME TypeInv, StoreInv, AllWalk, Chains, [Next]_vars
    PROVE  Chains'
<1> SUFFICES ASSUME NEW m \in Memory PROVE \E c \in Nat : Chain(m, c)'
  BY DEF Chains
<1>1. PICK n \in Nat : Chain(m, n)
  BY DEF Chains
<1>2. VersionsOf(m)' = VersionsOf(m) => Chain(m, n)'
  BY <1>1 DEF Chain
<1>3. ASSUME NEW w \in Writer, Commit(w) PROVE \E c \in Nat : Chain(m, c)'
  BY <1>1, <1>2, <1>3, CommitBumps DEF AllWalk
<1>4. CASE UNCHANGED dbVars
  <2>1. VersionsOf(m)' = VersionsOf(m)
    BY <1>4 DEF VersionsOf, dbVars
  <2> QED BY <1>2, <2>1
<1> QED BY <1>3, <1>4, OnlyCommitWrites

(* Every memory has a chain in every state.                                *)
LEMMA ChainsHold == Spec => []Chains
<1>1. Init => Chains
  <2> SUFFICES ASSUME Init, NEW m \in Memory PROVE \E n \in Nat : Chain(m, n)
    BY DEF Chains
  <2> DEFINE v == [memory |-> m, version |-> 1, claim |-> SeedClaim, current |-> TRUE, by |-> Nobody]
  <2>1. VersionsOf(m) \subseteq {v}
    BY DEF Init, VersionsOf
  <2>2. v.version = 1 /\ v.current
    OBVIOUS
  <2> HIDE DEF v
  <2>3. CASE VersionsOf(m) = {}
    <3>1. 1 .. 0 = {} /\ 0 \in Nat
      OBVIOUS
    <3>2. Chain(m, 0)
      BY <2>3, <3>1 DEF Chain
    <3> QED BY <3>1, <3>2
  <2>4. CASE VersionsOf(m) = {v}
    <3>1. 1 .. 1 = {1} /\ 1 \in Nat /\ 1 <= 1
      OBVIOUS
    <3>2. Chain(m, 1)
      BY <2>2, <2>4, <3>1 DEF Chain
    <3> QED BY <3>1, <3>2
  <2> QED BY <2>1, <2>3, <2>4
<1>2. TypeInv /\ StoreInv /\ AllWalk /\ Chains /\ [Next]_vars => Chains'
  BY ChainsStep
<1> QED BY <1>1, <1>2, TypeInvHolds, StoreInvHolds, WalkInvHolds, PTL DEF Spec

(* SetMemories owns is_current: whatever raced, was retried or failed, a   *)
(* stored memory has versions 1..n without gap or duplicate, and exactly   *)
(* the newest is current.                                                  *)
THEOREM NewestStaysCurrent == Spec => []NewestIsCurrent
<1>1. TypeOK /\ StoreInv /\ Chains => NewestIsCurrent
  <2> SUFFICES ASSUME TypeOK, StoreInv, Chains, NEW p \in memories
               PROVE  LET own == VersionsOf(p.uuid) IN
                      /\ \E n \in {v.version : v \in own} :
                           /\ {v.version : v \in own} = 1 .. n
                           /\ \A v \in own : v.current <=> v.version = n
                      /\ \A u, v \in own : u.version = v.version => u = v
    BY DEF NewestIsCurrent
  <2> DEFINE m == p.uuid
             N == {v.version : v \in VersionsOf(m)}
  <2>1. m \in Memory
    BY DEF TypeOK, MemoryRow
  <2>2. PICK n \in Nat : Chain(m, n)
    BY <2>1 DEF Chains
  <2>3. \A v \in VersionsOf(m) : v.version \in Nat
    BY DEF TypeOK, VersionsOf, VersionRow
  <2>4. N = 1 .. n
    BY <2>2, <2>3 DEF Chain
  <2>5. n \in N
    <3>1. PICK v \in VersionsOf(m) : TRUE
      BY DEF StoreInv, VersionsOf
    <3>2. 1 <= v.version /\ v.version <= n
      BY <2>2 DEF Chain
    <3>3. n \in 1 .. n
      BY <2>3, <3>2
    <3> QED BY <2>4, <3>3
  <2> QED BY <2>2, <2>4, <2>5 DEF Chain
<1> QED BY <1>1, TypeCorrect, StoreInvHolds, ChainsHold, PTL

-----------------------------------------------------------------------------
(***************************************************************************)
(* Claims.  Within a batch the walk compares each item with what the batch *)
(* left behind; across batches the base that was read is still the newest. *)
(***************************************************************************)

(* A commit repeats no claim.                                              *)
LEMMA ClaimsStep ==
    ASSUME TypeInv, StoreInv, Chains, NEW w \in Writer, WalkInv(w), Commit(w), NoEmptyVersion
    PROVE  NoEmptyVersion'
<1> SUFFICES ASSUME NEW u \in versions', NEW v \in versions',
                    u.memory = v.memory, v.version = u.version + 1, u.claim = v.claim
             PROVE  FALSE
  BY DEF NoEmptyVersion
<1>1. PICK m : m = u.memory
  OBVIOUS
<1>2. u \in VersionsOf(m)' /\ v \in VersionsOf(m)'
  BY <1>1 DEF VersionsOf
<1>3. /\ versions \in SUBSET VersionRow /\ tx[w].versions \in SUBSET VersionRow
      /\ Targets(request[w]) \subseteq Memory
  BY RequestFacts DEF TypeInv, TypeOK, Overlay
<1>4. /\ Pending(w) = tx[w].versions /\ RowsAreNumbered(w) /\ RowsAreMade(w) /\ ClaimsFollow(w)
      /\ pc[w] = "commit"
  BY CommitEffect DEF Walks
<1>5. \A x \in VersionsOf(m) : x \in versions /\ x.memory = m
  BY DEF VersionsOf
<1>6. CASE u \in tx[w].versions /\ v \in tx[w].versions
  <2>1. CASE m \in Targets(request[w])
    BY <1>1, <1>4, <1>6, <2>1 DEF ClaimsFollow
  <2>2. CASE m \notin Targets(request[w])
    <3>1. u.version = 1 /\ v.version = 1
      BY <1>1, <1>4, <1>6, <2>2 DEF RowsAreMade
    <3> QED BY <3>1
  <2> QED BY <2>1, <2>2
<1>7. ASSUME NEW x \in VersionsOf(m), NEW y \in VersionsOf(m),
             Resembles(u, x), Resembles(v, y)
      PROVE  FALSE
  BY <1>5, <1>7 DEF NoEmptyVersion, Resembles
<1>8. ASSUME NEW x \in VersionsOf(m), NEW y \in tx[w].versions, y.memory = m
      PROVE  /\ m \in Targets(request[w])
             /\ x.version \in Nat /\ y.version \in Nat /\ Base(w)[m] \in Nat
             /\ x.version <= Base(w)[m] /\ Base(w)[m] < y.version
  <2>0. x.memory = m /\ x.version \in Nat /\ y.version \in Nat /\ m \in Memory
    BY <1>3, <1>5 DEF VersionRow
  <2>1. PICK n \in Nat : Chain(m, n)
    BY <2>0 DEF Chains
  <2>2. Bumps(w, m)
    BY <1>8 DEF Bumps
  <2>3. m \in Targets(request[w])
    BY <2>0, <2>1, <2>2, CreatedBumped
  <2>4. n = Base(w)[m] /\ x.version <= n
    BY <2>1, <2>2, <2>3, TargetBumped DEF Chain
  <2>5. Base(w)[m] < y.version
    BY <1>4, <1>8, <2>3 DEF RowsAreNumbered
  <2> QED BY <2>0, <2>1, <2>3, <2>4, <2>5
<1>9. ASSUME NEW x \in VersionsOf(m), Resembles(u, x), v \in tx[w].versions PROVE FALSE
  <2>1. /\ m \in Targets(request[w]) /\ v.memory = m
        /\ x.version = Base(w)[m] /\ v.version = Base(w)[m] + 1 /\ x.version \in Nat
    <3>1. v.memory = m /\ v.version = x.version + 1
      BY <1>1, <1>9 DEF Resembles
    <3> QED BY <1>8, <1>9, <3>1
  <2>2. v.claim # plan[w].claim[m]
    BY <1>4, <1>9, <2>1 DEF ClaimsFollow
  <2>3. x.claim = plan[w].claim[m]
    <3>1. HasRead(w) /\ pc[w] \in Planned
      BY <1>4 DEF StoreInv, Planned, Walking
    <3>2. PICK y \in versions : y.memory = m /\ y.version = Base(w)[m] /\ y.claim = plan[w].claim[m]
      BY <2>1, <3>1 DEF HasRead
    <3>3. m \in Memory /\ y \in VersionsOf(m)
      BY <1>3, <2>1, <3>2 DEF VersionsOf
    <3>4. x = y
      BY <2>1, <3>2, <3>3 DEF Chains, Chain
    <3> QED BY <3>2, <3>4
  <2>4. x.claim = u.claim
    BY <1>9 DEF Resembles
  <2> QED BY <2>2, <2>3, <2>4
<1>10. ASSUME u \in tx[w].versions, NEW y \in VersionsOf(m), Resembles(v, y) PROVE FALSE
  <2>1. u.memory = m /\ y.version = u.version + 1
    BY <1>1, <1>10 DEF Resembles
  <2> QED BY <1>8, <1>10, <2>1
<1>11. ASSUME NEW x \in VersionsOf(m)', x \notin tx[w].versions
       PROVE  \E y \in VersionsOf(m) : Resembles(x, y)
  BY <1>11, CommitVersions
<1> QED BY <1>2, <1>6, <1>7, <1>9, <1>10, <1>11

(* Two successive versions of a memory never assert the same thing,        *)
(* whatever raced or was retried: an update that changes nothing is not    *)
(* stored as a version.                                                    *)
THEOREM NoVersionIsEmpty == Spec => []NoEmptyVersion
<1>1. Init => NoEmptyVersion
  <2> SUFFICES ASSUME Init, NEW u \in versions, NEW v \in versions PROVE v.version # u.version + 1
    BY DEF NoEmptyVersion
  <2>1. u.version = 1 /\ v.version = 1
    BY DEF Init
  <2> QED BY <2>1
<1>2. TypeInv /\ StoreInv /\ Chains /\ AllWalk /\ NoEmptyVersion /\ [Next]_vars => NoEmptyVersion'
  <2> SUFFICES ASSUME TypeInv, StoreInv, Chains, AllWalk, NoEmptyVersion, [Next]_vars
               PROVE  NoEmptyVersion'
    OBVIOUS
  <2>1. CASE UNCHANGED dbVars
    BY <2>1 DEF NoEmptyVersion, dbVars
  <2>2. ASSUME NEW w \in Writer, Commit(w) PROVE NoEmptyVersion'
    BY <2>2, ClaimsStep DEF AllWalk
  <2> QED BY <2>1, <2>2, OnlyCommitWrites
<1> QED BY <1>1, <1>2, TypeInvHolds, StoreInvHolds, ChainsHold, WalkInvHolds, PTL DEF Spec

(* Of several items of one batch for the same memory the last one speaks:  *)
(* the version that the commit leaves current asserts its claim.           *)
THEOREM TheLastItemSpeaks == Spec => LastItemSpeaks
<1>1. ASSUME TypeInv, AllWalk, NEW w \in Writer, Commit(w), NEW v \in versions' \ versions,
             v.memory \in Targets(request[w]), v.current
      PROVE  v.claim = LastOfBatch(request[w], v.memory)
  <2> DEFINE r == request[w]
             m == v.memory
             mine == {i \in Versioned(r) : r.items[i].uuid = m}
  <2>0. WalkInv(w) /\ versions \in SUBSET VersionRow
    BY <1>1 DEF AllWalk, TypeInv, TypeOK
  <2>1. /\ versions' = Flipped(versions, tx[w].flips) \cup tx[w].versions
        /\ Pending(w) = tx[w].versions /\ RowsAreNumbered(w) /\ MarksAreRight(w) /\ ClaimsFollow(w)
        /\ cursor[w] \notin DOMAIN r.items /\ cursor[w] <= Len(r.items) + 1
    BY <1>1, <2>0, CommitEffect DEF Walks
  <2>2. v \in tx[w].versions
    <3> SUFFICES ASSUME v \in Flipped(versions, tx[w].flips) PROVE FALSE
      BY <1>1, <2>1
    <3>1. PICK u \in versions : v = Marked(u, tx[w].flips)
      BY <2>0, FlippedFacts
    <3>2. u.current /\ KeyOf(u) \notin tx[w].flips /\ u \in VersionRow
      BY <1>1, <2>0, <3>1, FlippedFacts
    <3>3. (u.current /\ KeyOf(u) \notin tx[w].flips) = u.current /\ [u EXCEPT !.current = u.current] = u
      BY <3>2 DEF VersionRow
    <3>4. v = u
      BY <3>1, <3>3 DEF Marked
    <3> QED BY <1>1, <3>4
  <2>3. v.version = cur[w][m]
    <3>0. m \in Memory
      BY <1>1, RequestFacts DEF TypeInv, TypeOK
    <3>1. cur[w][m] \in Nat
      BY <1>1, <3>0 DEF TypeInv, TypeOK
    <3>2. v.version \in Nat
      BY <1>1, <2>2 DEF TypeInv, TypeOK, Overlay, VersionRow
    <3> QED BY <1>1, <2>1, <2>2, <3>1, <3>2 DEF RowsAreNumbered, MarksAreRight
  <2>4. v.claim = ClaimBefore(r, plan[w], m, cursor[w])
    BY <1>1, <2>1, <2>2, <2>3 DEF ClaimsFollow
  <2>5. Before(r, m, cursor[w]) = mine
    <3>1. r.items \in Seq(Item) /\ cursor[w] \in Nat \ {0}
      BY <1>1, RequestFacts DEF TypeInv, TypeOK
    <3>2. DOMAIN r.items = 1 .. Len(r.items) /\ Len(r.items) \in Nat
      BY <3>1
    <3>3. \A i \in Versioned(r) : i < cursor[w]
      BY <2>1, <3>1, <3>2 DEF Versioned
    <3> QED BY <3>3 DEF Before
  <2>6. mine # {}
    BY <1>1 DEF Targets
  <2>7. v.claim = r.items[Latest(mine)].claim
    BY <2>4, <2>5, <2>6 DEF ClaimBefore
  <2> QED BY <2>7 DEF LastOfBatch, Latest
<1>2. TypeInv /\ AllWalk /\ [Next]_vars =>
        [\A w \in Writer : Commit(w) =>
           \A v \in versions' \ versions :
              (v.memory \in Targets(request[w]) /\ v.current)
                 => v.claim = LastOfBatch(request[w], v.memory)]_vars
  BY <1>1
<1> QED BY <1>2, TypeInvHolds, WalkInvHolds, PTL DEF Spec, LastItemSpeaks

-----------------------------------------------------------------------------
(***************************************************************************)
(* Bodies.  Every row a request writes asserts the claim of an item that   *)
(* stores one, and the bodies of those were stored before the walk began.  *)
(***************************************************************************)

(* The bodies a walking request needs are stored.                          *)
BodiesAreStored(w) ==
    pc[w] \in Walking =>
      /\ BlobsOf(w) \subseteq blobs
      /\ \A v \in Pending(w) : \E i \in Stores(w) : v.claim = request[w].items[i].claim

(* The bodies a request needs follow from its request and its reads.       *)
LEMMA SameStores ==
    ASSUME NEW w, SameRead(w)
    PROVE  Stores(w)' = Stores(w) /\ BlobsOf(w)' = BlobsOf(w)
<1>1. \A i : LastClaim(w, i)' = LastClaim(w, i)
  BY DEF SameRead, LastClaim
<1>2. \A i : IsUnchanged(w, i)' <=> IsUnchanged(w, i)
  BY <1>1 DEF SameRead, IsUnchanged
<1>3. Stores(w)' = Stores(w)
  BY <1>2 DEF SameRead, Stores
<1> QED BY <1>3 DEF SameRead, BlobsOf

(* Where the claims of the rows come from.                                 *)
LEMMA RowClaims ==
    ASSUME TypeInv, NEW w \in Writer, WalkInv(w), WriterStep(w), pc'[w] \in Walking,
           ~StoreBlobs(w), NEW v \in Pending(w)'
    PROVE  \/ \E u \in Pending(w) : v.claim = u.claim
           \/ \E i \in Stores(w) : v.claim = request[w].items[i].claim
<1>0. TypeOK /\ SavesAVersion /\ pc[w] \in Planned
  BY PlansEffect, PlanKept DEF TypeInv, Planned, Walking
<1>1. CASE Submit(w) \/ LoseAnswer(w) \/ Retry(w) \/ RollsBack(w) \/ Commit(w) \/ Plans(w) \/ Resolves(w)
  BY <1>0, <1>1, ClientEffect, FinishEffect, PlansEffect, ResolvesEffect
     DEF RollsBack, Commit, Walking, Planned
<1>2. CASE QuietStep(w)
  BY <1>0, <1>2, QuietEffect DEF Rows, Pending
<1>3. CASE KeepUnchanged(w)
  BY <1>0, <1>3, KeepUnchangedEffect DEF Rows, Pending
<1>4. CASE CreateNew(w)
  <2>1. PICK m : /\ Pending(w)' = Pending(w) \cup {FirstVersionRow(w, m)}
                 /\ cursor[w] \in Created(request[w])
    BY <1>0, <1>4, CreateNewEffect DEF Rows, Pending
  <2>2. cursor[w] \in Stores(w)
    BY <2>1 DEF Created, Stores, IsUnchanged
  <2> QED BY <2>1, <2>2 DEF FirstVersionRow, ItemAt
<1>5. CASE VersionExisting(w)
  <2>1. /\ tx'[w].versions = tx[w].versions
        /\ \/ todo'[w].versions = todo[w].versions
           \/ todo'[w].versions = (todo[w].versions \ Unsaved(w))
                                    \cup {[x EXCEPT !.current = FALSE] : x \in Unsaved(w)}
    BY <1>0, <1>5, VersionExistingEffect DEF Rows
  <2>2. Unsaved(w) \subseteq VersionRow /\ Unsaved(w) \subseteq todo[w].versions
    BY <1>0 DEF Unsaved, TypeOK, RowSets
  <2>3. \A x \in Unsaved(w) : [x EXCEPT !.current = FALSE].claim = x.claim
    BY <2>2 DEF VersionRow
  <2>4. v \in Pending(w) \/ \E x \in Unsaved(w) : v = [x EXCEPT !.current = FALSE]
    BY <2>1 DEF Pending
  <2> QED BY <2>2, <2>3, <2>4 DEF Pending
<1>6. CASE SavedItem(w)
  <2>1. Pending(w)' = tx[w].versions \cup {NextVersionRow(w)} /\ pc[w] = "saving" /\ cursor[w] \in Versioned(request[w])
    BY <1>0, <1>6, SavedItemEffect DEF Rows, Pending, At
  <2>2. ItemAt(w).claim # ClaimBefore(request[w], plan[w], ItemAt(w).uuid, cursor[w])
    BY <2>1 DEF WalkInv, Walks, ClaimsFollow, Walking, At
  <2>3. cursor[w] \in Stores(w)
    BY <2>1, <2>2, LastClaimIsClaimBefore DEF Stores, IsUnchanged, ItemAt, Versioned
  <2> QED BY <2>1, <2>3 DEF NextVersionRow, ItemAt, Pending
<1>7. ASSUME NEW k \in todo[w].flips, Flips(w, k)
      PROVE  \E u \in Pending(w) : v.claim = u.claim
  <2>1. /\ tx'[w].versions = tx[w].versions \/ tx'[w].versions = Flipped(tx[w].versions, {k})
        /\ todo'[w].versions = todo[w].versions
    BY <1>0, <1>7, FlipRows
  <2>2. tx[w].versions \in SUBSET VersionRow
    BY <1>0 DEF TypeOK, Overlay
  <2>3. CASE v \in tx[w].versions \cup todo[w].versions
    BY <2>3 DEF Pending
  <2>4. CASE v \in Flipped(tx[w].versions, {k})
    BY <2>2, <2>4, FlippedSource DEF Pending, Resembles
  <2> QED BY <2>1, <2>3, <2>4 DEF Pending
<1>8. CASE \/ \E p \in todo[w].memories : InsertsMemory(w, p)
           \/ \E x \in todo[w].versions : InsertsVersion(w, x)
  BY <1>0, <1>8, InsertMemoryEffect, InsertVersionEffect DEF Rows, Pending
<1> QED
  BY <1>1, <1>2, <1>3, <1>4, <1>5, <1>6, <1>7, <1>8
     DEF WriterStep, WorkStep, QuietStep, SavedItem

(* The walk begins when the bodies are stored, and only then.              *)
LEMMA WalkingBegins ==
    ASSUME TypeInv, NEW w \in Writer, WriterStep(w), pc'[w] \in Walking, ~StoreBlobs(w)
    PROVE  pc[w] \in Walking
<1> USE DEF Walking
<1>0. TypeOK /\ SavesAVersion
  BY DEF TypeInv
<1>1. CASE Submit(w) \/ LoseAnswer(w) \/ Retry(w) \/ RollsBack(w) \/ Commit(w) \/ Plans(w) \/ Resolves(w)
  BY <1>0, <1>1, ClientEffect, FinishEffect, PlansEffect, ResolvesEffect DEF RollsBack, Commit
<1>2. CASE QuietStep(w) \/ SavedItem(w)
  BY <1>0, <1>2, QuietEffect, SavedItemEffect DEF At
<1>3. CASE CreateNew(w) \/ KeepUnchanged(w) \/ VersionExisting(w)
  BY <1>0, <1>3, CreateNewEffect, KeepUnchangedEffect, VersionExistingEffect DEF At
<1>4. CASE \/ \E k \in todo[w].flips : Flips(w, k)
           \/ \E p \in todo[w].memories : InsertsMemory(w, p)
           \/ \E v \in todo[w].versions : InsertsVersion(w, v)
  BY <1>0, <1>4, FlipEffect, InsertMemoryEffect, InsertVersionEffect DEF At
<1> QED BY <1>1, <1>2, <1>3, <1>4 DEF WriterStep, WorkStep, QuietStep, SavedItem

(* Every step of a request keeps its bodies stored.                        *)
LEMMA BodiesStep ==
    ASSUME TypeInv, NEW w \in Writer, WalkInv(w), WriterStep(w), blobs \subseteq blobs',
           BodiesAreStored(w)
    PROVE  BodiesAreStored(w)'
<1> SUFFICES ASSUME pc'[w] \in Walking PROVE BodiesAreStored(w)'
  BY DEF BodiesAreStored
<1>1. CASE StoreBlobs(w)
  <2>1. /\ SameRead(w) /\ tx'[w] = tx[w] /\ todo'[w] = todo[w] /\ tx[w] = NoTx /\ todo[w] = NoRows
        /\ blobs' = blobs \cup BlobsOf(w)
    BY <1>1 DEF StoreBlobs, SameRead, At, WalkInv, IsAtRest, Walking
  <2>2. Pending(w)' = {}
    BY <2>1 DEF Pending, NoTx, NoRows
  <2> QED BY <2>1, <2>2, SameStores DEF BodiesAreStored
<1>2. CASE ~StoreBlobs(w)
  <2>1. SameRead(w) /\ pc[w] \in Planned
    BY PlanKept, PlansEffect DEF TypeInv, Planned, Walking
  <2>2. pc[w] \in Walking
    BY <1>2, WalkingBegins
  <2>3. request'[w] = request[w]
    BY <2>1 DEF SameRead
  <2> QED BY <1>2, <2>1, <2>2, <2>3, SameStores, RowClaims DEF BodiesAreStored
<1> QED BY <1>1, <1>2

(* A committed version never cites a body that is missing from the store,  *)
(* although bodies are stored outside of the transaction.                  *)
THEOREM CitedBlobsStayStored == Spec => []CitedBlobsAreStored
<1>1. Init => (\A w \in Writer : BodiesAreStored(w)) /\ CitedBlobsAreStored
  <2> SUFFICES ASSUME Init PROVE (\A w \in Writer : BodiesAreStored(w)) /\ CitedBlobsAreStored
    OBVIOUS
  <2>1. \A w \in Writer : BodiesAreStored(w)
    BY DEF Init, BodiesAreStored, Walking
  <2>2. \A v \in versions : v.claim = SeedClaim
    BY DEF Init
  <2> QED BY <2>1, <2>2 DEF CitedBlobsAreStored, Init
<1>2. /\ TypeInv /\ AllWalk /\ (\A w \in Writer : BodiesAreStored(w)) /\ CitedBlobsAreStored
      /\ [Next]_vars
      => (\A w \in Writer : BodiesAreStored(w))' /\ CitedBlobsAreStored'
  <2> SUFFICES ASSUME TypeInv, AllWalk, \A w \in Writer : BodiesAreStored(w), CitedBlobsAreStored,
                      [Next]_vars
               PROVE  (\A w \in Writer : BodiesAreStored(w)') /\ CitedBlobsAreStored'
    OBVIOUS
  <2>1. blobs \subseteq blobs'
    BY WriterSteps DEF vars
  <2>2. ASSUME NEW u \in Writer, UNCHANGED Own(u) PROVE BodiesAreStored(u)'
    <3>1. SameRead(u) /\ Pending(u)' = Pending(u) /\ pc'[u] = pc[u] /\ request'[u] = request[u]
      BY <2>2 DEF Own, SameRead, Pending
    <3> QED BY <2>1, <3>1, SameStores DEF BodiesAreStored
  <2>3. ASSUME NEW w \in Writer, WriterStep(w) PROVE \A u \in Writer : BodiesAreStored(u)'
    BY <2>1, <2>2, <2>3, BodiesStep, OthersKeep DEF AllWalk, TypeInv, Others
  <2>4. CASE UNCHANGED vars
    BY <2>2, <2>4 DEF vars, Own, CitedBlobsAreStored
  <2>5. ASSUME NEW w \in Writer, Commit(w) PROVE CitedBlobsAreStored'
    <3> SUFFICES ASSUME NEW v \in versions' PROVE BlobOf[v.claim] \in blobs' \cup {Nobody}
      BY DEF CitedBlobsAreStored
    <3>1. /\ versions' = Flipped(versions, tx[w].flips) \cup tx[w].versions
          /\ Pending(w) = tx[w].versions /\ pc[w] \in Walking /\ versions \in SUBSET VersionRow
      BY <2>5, CommitEffect DEF AllWalk, TypeInv, TypeOK, Walking
    <3>2. CASE v \in tx[w].versions
      BY <2>1, <3>1, <3>2 DEF BodiesAreStored, BlobsOf
    <3>3. CASE v \in Flipped(versions, tx[w].flips)
      BY <2>1, <3>1, <3>3, FlippedSource DEF CitedBlobsAreStored, Resembles
    <3> QED BY <3>1, <3>2, <3>3
  <2>6. ASSUME UNCHANGED dbVars PROVE CitedBlobsAreStored'
    BY <2>1, <2>6 DEF CitedBlobsAreStored, dbVars
  <2> QED BY <2>3, <2>4, <2>5, <2>6, WriterSteps, OnlyCommitWrites
<1> QED BY <1>1, <1>2, TypeInvHolds, WalkInvHolds, PTL DEF Spec

-----------------------------------------------------------------------------
(***************************************************************************)
(* Refinement.  The chains are the histories of VersionedStore, and what a *)
(* request has planned on is what its writer has seen.                     *)
(***************************************************************************)

(* The rows, the history and the chain of m in a version table V.          *)
RowsIn(V, m) == {v \in V : v.memory = m}

(* The history that a table V of versions gives of m.                      *)
HistoryIn(V, m) ==
    [n \in 1 .. Cardinality(RowsIn(V, m)) |->
        (CHOOSE v \in V : v.memory = m /\ v.version = n).claim]

(* V numbers the versions of m 1..n, once each.                            *)
ChainIn(V, m, n) ==
    /\ \A v \in RowsIn(V, m) : 1 <= v.version /\ v.version <= n
    /\ \A i \in 1 .. n : \E v \in RowsIn(V, m) : v.version = i
    /\ \A u, v \in RowsIn(V, m) : u.version = v.version => u = v

(* The history of a chain of length n is the sequence of its claims.       *)
LEMMA HistoryFacts ==
    ASSUME NEW V \in SUBSET VersionRow, NEW m, NEW n \in Nat, ChainIn(V, m, n)
    PROVE  /\ HistoryIn(V, m) \in Seq(Claim) /\ Len(HistoryIn(V, m)) = n
           /\ \A v \in RowsIn(V, m) : v.version \in 1 .. n /\ HistoryIn(V, m)[v.version] = v.claim
<1> DEFINE S == RowsIn(V, m)
           f == [i \in 1 .. n |-> CHOOSE v \in S : v.version = i]
<1>1. \A v \in S : v \in V /\ v.memory = m /\ v.version \in Nat /\ v.claim \in Claim
  BY DEF RowsIn, VersionRow
<1>2. \A v \in S : v.version \in 1 .. n
  BY <1>1 DEF ChainIn
<1>3. \A i \in 1 .. n : f[i] \in S /\ f[i].version = i
  BY DEF ChainIn
<1>4. \A v \in S : f[v.version] = v
  BY <1>2, <1>3 DEF ChainIn
<1>5. f \in Bijection(1 .. n, S)
  <2>1. f \in [1 .. n -> S]
    BY <1>3
  <2>2. IsInjective(f)
    BY <1>3 DEF IsInjective
  <2>3. \A v \in S : \E i \in 1 .. n : f[i] = v
    BY <1>2, <1>4
  <2> HIDE DEF f, S
  <2> QED BY <2>1, <2>2, <2>3 DEF Bijection, Injection, Surjection
<1>6. Cardinality(S) = n
  <2> HIDE DEF f, S
  <2>1. ExistsBijection(1 .. n, S)
    BY <1>5 DEF ExistsBijection
  <2> QED BY <2>1, FS_CountingElements
<1>7. HistoryIn(V, m) = [i \in 1 .. n |-> (CHOOSE v \in V : v.memory = m /\ v.version = i).claim]
  BY <1>6 DEF HistoryIn
<1>8. ASSUME NEW i \in 1 .. n
      PROVE  (CHOOSE v \in V : v.memory = m /\ v.version = i) = f[i]
  <2> DEFINE x == CHOOSE v \in V : v.memory = m /\ v.version = i
  <2>1. f[i] \in V /\ f[i].memory = m /\ f[i].version = i
    BY <1>1, <1>3
  <2>2. x \in V /\ x.memory = m /\ x.version = i
    BY <2>1
  <2>3. x \in S
    BY <2>2 DEF RowsIn
  <2> QED BY <1>3, <2>2, <2>3 DEF ChainIn
<1> HIDE DEF f, S
<1>9. HistoryIn(V, m) = [i \in 1 .. n |-> f[i].claim]
  BY <1>7, <1>8
<1>10. HistoryIn(V, m) \in [1 .. n -> Claim]
  BY <1>1, <1>3, <1>9
<1>11. HistoryIn(V, m) \in Seq(Claim) /\ Len(HistoryIn(V, m)) = n
  BY <1>10
<1> QED BY <1>2, <1>4, <1>9, <1>11 DEF S

(* They are those of the store, before and after a step.                   *)
LEMMA ChainsAreChains ==
    /\ \A m : HistoryOf(m) = HistoryIn(versions, m) /\ HistoryOf(m)' = HistoryIn(versions', m)
    /\ \A m, n : /\ Chain(m, n) => ChainIn(versions, m, n)
                 /\ Chain(m, n)' => ChainIn(versions', m, n)
<1>1. \A m : VersionsOf(m) = RowsIn(versions, m) /\ VersionsOf(m)' = RowsIn(versions', m)
  BY DEF VersionsOf, RowsIn
<1>2. \A m : HistoryOf(m) = HistoryIn(versions, m)
  BY <1>1 DEF HistoryOf, HistoryIn
<1>3. \A m : HistoryOf(m)' = HistoryIn(versions', m)
  BY <1>1 DEF HistoryOf, HistoryIn
<1>4. \A m, n : Chain(m, n) => ChainIn(versions, m, n)
  BY <1>1 DEF Chain, ChainIn
<1>5. \A m, n : Chain(m, n)' => ChainIn(versions', m, n)
  BY <1>1 DEF Chain, ChainIn
<1> QED BY <1>2, <1>3, <1>4, <1>5

(* No two successive claims of a history are the same.                     *)
LEMMA HistoryRepeats ==
    ASSUME NEW V \in SUBSET VersionRow, NEW m, NEW n \in Nat, ChainIn(V, m, n),
           \A u, v \in V : u.memory = v.memory /\ v.version = u.version + 1 => u.claim # v.claim
    PROVE  Abstract!NoRepeat(HistoryIn(V, m))
<1> SUFFICES ASSUME NEW i \in 1 .. (n - 1)
             PROVE  HistoryIn(V, m)[i] # HistoryIn(V, m)[i + 1]
  BY HistoryFacts DEF Abstract!NoRepeat
<1>1. i \in 1 .. n /\ i + 1 \in 1 .. n
  OBVIOUS
<1>2. PICK u \in RowsIn(V, m) : u.version = i
  BY <1>1 DEF ChainIn
<1>3. PICK v \in RowsIn(V, m) : v.version = i + 1
  BY <1>1 DEF ChainIn
<1>4. u.claim # v.claim
  BY <1>2, <1>3 DEF RowsIn
<1> QED BY <1>2, <1>3, <1>4, HistoryFacts

(* The same rows are the same history.                                     *)
LEMMA SameHistory ==
    ASSUME NEW V \in SUBSET VersionRow, NEW W \in SUBSET VersionRow, NEW m, NEW n \in Nat,
           ChainIn(V, m, n), RowsIn(W, m) = RowsIn(V, m)
    PROVE  HistoryIn(W, m) = HistoryIn(V, m)
<1>1. ChainIn(W, m, n)
  BY DEF ChainIn
<1>2. ASSUME NEW i \in 1 .. n PROVE HistoryIn(W, m)[i] = HistoryIn(V, m)[i]
  <2>1. PICK v \in RowsIn(V, m) : v.version = i
    BY DEF ChainIn
  <2>2. HistoryIn(V, m)[i] = v.claim
    BY <2>1, HistoryFacts
  <2>3. HistoryIn(W, m)[i] = v.claim
    BY <1>1, <2>1, HistoryFacts
  <2> QED BY <2>2, <2>3
<1>3. HistoryIn(V, m) \in Seq(Claim) /\ Len(HistoryIn(V, m)) = n
  BY HistoryFacts
<1>4. HistoryIn(W, m) \in Seq(Claim) /\ Len(HistoryIn(W, m)) = n
  BY <1>1, HistoryFacts
<1> QED BY <1>2, <1>3, <1>4

(* A longer chain that kept the rows of a shorter one continues it.        *)
LEMMA LongerHistory ==
    ASSUME NEW V \in SUBSET VersionRow, NEW W \in SUBSET VersionRow, NEW m,
           NEW n \in Nat, NEW c \in Nat, n < c, ChainIn(V, m, n), ChainIn(W, m, c),
           \A u \in RowsIn(V, m) : \E v \in RowsIn(W, m) : v.version = u.version /\ v.claim = u.claim
    PROVE  Abstract!Continues(HistoryIn(V, m), HistoryIn(W, m))
<1>1. Len(HistoryIn(V, m)) = n /\ Len(HistoryIn(W, m)) = c
  BY HistoryFacts
<1>2. ASSUME NEW i \in 1 .. n PROVE HistoryIn(W, m)[i] = HistoryIn(V, m)[i]
  <2>1. PICK u \in RowsIn(V, m) : u.version = i
    BY DEF ChainIn
  <2>2. PICK v \in RowsIn(W, m) : v.version = u.version /\ v.claim = u.claim
    BY <2>1
  <2>3. HistoryIn(V, m)[i] = u.claim
    BY <2>1, HistoryFacts
  <2>4. HistoryIn(W, m)[i] = v.claim
    BY <2>1, <2>2, HistoryFacts
  <2> QED BY <2>2, <2>3, <2>4
<1> QED BY <1>1, <1>2 DEF Abstract!Continues

(* The histories of a store whose chains are whole.                        *)
LEMMA HistoriesAreTyped ==
    ASSUME TypeOK, Chains, NoEmptyVersion, NEW m \in Memory
    PROVE  HistoryOf(m) \in Seq(Claim) /\ Abstract!NoRepeat(HistoryOf(m))
<1>1. PICK n \in Nat : ChainIn(versions, m, n)
  BY ChainsAreChains DEF Chains
<1>2. versions \in SUBSET VersionRow
  BY DEF TypeOK
<1>3. HistoryIn(versions, m) \in Seq(Claim)
  BY <1>1, <1>2, HistoryFacts
<1>4. Abstract!NoRepeat(HistoryIn(versions, m))
  BY <1>1, <1>2, HistoryRepeats DEF NoEmptyVersion
<1> QED BY <1>3, <1>4, ChainsAreChains

(* The same of the state after a step.                                     *)
LEMMA NextHistoriesAreTyped ==
    ASSUME TypeOK', Chains', NoEmptyVersion', NEW m \in Memory
    PROVE  HistoryOf(m)' \in Seq(Claim) /\ Abstract!NoRepeat(HistoryOf(m)')
<1>1. PICK n \in Nat : ChainIn(versions', m, n)
  BY ChainsAreChains DEF Chains
<1>2. versions' \in SUBSET VersionRow
  BY DEF TypeOK
<1>3. HistoryIn(versions', m) \in Seq(Claim)
  BY <1>1, <1>2, HistoryFacts
<1>4. Abstract!NoRepeat(HistoryIn(versions', m))
  BY <1>1, <1>2, HistoryRepeats DEF NoEmptyVersion
<1> QED BY <1>3, <1>4, ChainsAreChains

(* What a commit does to one history.                                      *)
LEMMA CommitLengthens ==
    ASSUME TypeInv, StoreInv, Chains, TypeOK', [Next]_vars,
           NEW w \in Writer, WalkInv(w), Commit(w), NEW m \in Memory,
           HistoryOf(m)' # HistoryOf(m)
    PROVE  Len(HistoryOf(m)) = plan[w].base[m] /\ Abstract!Continues(HistoryOf(m), HistoryOf(m)')
<1>1. PICK n \in Nat : Chain(m, n)
  BY DEF Chains
<1>2. versions \in SUBSET VersionRow /\ versions' \in SUBSET VersionRow
  BY DEF TypeInv, TypeOK
<1>3. ChainIn(versions, m, n)
  BY <1>1, ChainsAreChains
<1>4. VersionsOf(m)' # VersionsOf(m)
  <2> SUFFICES ASSUME VersionsOf(m)' = VersionsOf(m) PROVE FALSE
    OBVIOUS
  <2>1. RowsIn(versions', m) = RowsIn(versions, m)
    BY DEF VersionsOf, RowsIn
  <2> QED BY <1>2, <1>3, <2>1, SameHistory, ChainsAreChains
<1>5. n = Base(w)[m] /\ \E c \in Nat : n < c /\ Chain(m, c)'
  BY <1>1, <1>4, CommitBumps
<1>6. PICK c \in Nat : n < c /\ Chain(m, c)'
  BY <1>5
<1>7. ChainIn(versions', m, c)
  BY <1>6, ChainsAreChains
<1>8. \A u \in RowsIn(versions, m) :
        \E v \in RowsIn(versions', m) : v.version = u.version /\ v.claim = u.claim
  BY KeptVersion DEF RowsIn, TypeInv
<1>9. Abstract!Continues(HistoryIn(versions, m), HistoryIn(versions', m))
  BY <1>2, <1>3, <1>6, <1>7, <1>8, LongerHistory
<1>10. Len(HistoryIn(versions, m)) = n
  BY <1>2, <1>3, HistoryFacts
<1> QED BY <1>5, <1>9, <1>10, ChainsAreChains DEF Base

(* What the writers have seen.                                             *)
Bases == [w \in Writer |-> plan[w].base]

(* What a step of w does to what the writers have seen.                    *)
LEMMA BasesStep ==
    ASSUME TypeInv, TypeOK', NEW w \in Writer, WriterStep(w)
    PROVE  /\ Bases' = [Bases EXCEPT ![w] = plan'[w].base]
           /\ RollsBack(w) \/ Commit(w) => plan'[w].base = Abstract!NothingSeen
           /\ \/ RollsBack(w) \/ Commit(w) \/ Plans(w)
              \/ UNCHANGED dbVars /\ plan'[w].base = Bases[w]
<1>0. TypeOK
  BY DEF TypeInv
<1>1. \A u \in Others(w) : plan'[u] = plan[u]
  BY <1>0, OthersKeep DEF Own
<1>2. \A u \in Writer : u # w => plan'[u].base = plan[u].base
  BY <1>1 DEF Others
<1>3. Bases' = [u \in Writer |-> plan'[u].base]
  BY DEF Bases
<1>4. Bases' = [Bases EXCEPT ![w] = plan'[w].base]
  BY <1>2, <1>3 DEF Bases
<1>5. RollsBack(w) \/ Commit(w) => plan'[w].base = Abstract!NothingSeen
  <2>1. RollsBack(w) \/ Commit(w) => plan'[w] = NoPlan
    BY <1>0, FinishEffect DEF RollsBack, Commit
  <2> QED BY <2>1 DEF NoPlan, Abstract!NothingSeen
<1>6. CASE Submit(w) \/ LoseAnswer(w) \/ Retry(w)
  BY <1>0, <1>4, <1>5, <1>6, ClientEffect DEF Bases
<1>7. CASE WorkStep(w) /\ ~Plans(w)
  BY <1>4, <1>5, <1>7, WorkKeepsPlan DEF SameRead, Bases
<1> QED BY <1>4, <1>5, <1>6, <1>7 DEF WriterStep

(* The row that is current is the last of its chain.                       *)
LEMMA CurrentIsNewest ==
    ASSUME TypeOK, Chains, NEW m \in Memory,
           CurrentOf(m) \in versions, CurrentOf(m).memory = m, CurrentOf(m).current
    PROVE  CurrentOf(m).version = Len(HistoryOf(m))
<1>1. PICK n \in Nat : Chain(m, n)
  BY DEF Chains
<1>2. CurrentOf(m).version = n
  BY <1>1 DEF Chain, VersionsOf
<1>3. Len(HistoryOf(m)) = n
  BY <1>1, HistoryFacts, ChainsAreChains DEF TypeOK
<1> QED BY <1>2, <1>3

(* The histories of the store.                                             *)
Histories == [m \in Memory |-> HistoryOf(m)]

(* Every step of the store is one of VersionedStore, or stutters there.    *)
LEMMA AbstractSteps ==
    ASSUME TypeInv, StoreInv, AllWalk, Chains, NoEmptyVersion,
           TypeOK', Chains', NoEmptyVersion', [Next]_vars
    PROVE  [Abstract!Next]_(Abstract!vars)
<1>1. ASSUME NEW w \in Writer, WriterStep(w)
      PROVE  Abstract!Next \/ UNCHANGED Abstract!vars
  <2> DEFINE b == plan'[w].base
  <2>0. Bases' = [Bases EXCEPT ![w] = b]
    BY <1>1, BasesStep
  <2>1. UNCHANGED dbVars => Histories' = Histories
    <3>1. UNCHANGED dbVars => \A m \in Memory : HistoryOf(m)' = HistoryOf(m)
      BY DEF dbVars, HistoryOf, VersionsOf
    <3> QED BY <3>1 DEF Histories
  <2>2. CASE Commit(w)
    <3>1. b = Abstract!NothingSeen
      BY <1>1, <2>2, BasesStep
    <3>2. Histories' \in [Memory -> Seq(Claim)]
      BY NextHistoriesAreTyped DEF Histories
    <3>3. ASSUME NEW m \in Memory, Histories'[m] # Histories[m]
          PROVE  /\ Bases[w][m] = Len(Histories[m])
                 /\ Abstract!Continues(Histories[m], Histories'[m])
                 /\ Abstract!NoRepeat(Histories'[m])
      <4>1. Histories[m] = HistoryOf(m) /\ Histories'[m] = HistoryOf(m)'
        BY DEF Histories
      <4>2. Bases[w][m] = plan[w].base[m]
        BY DEF Bases
      <4>3. WalkInv(w)
        BY DEF AllWalk
      <4> QED BY <2>2, <3>3, <4>1, <4>2, <4>3, CommitLengthens, NextHistoriesAreTyped
    <3>4. Abstract!Commit(w)
      BY <2>0, <3>1, <3>2, <3>3 DEF Abstract!Commit, Histories, Bases
    <3> QED BY <3>4 DEF Abstract!Next
  <2>3. CASE RollsBack(w)
    <3>1. b = Abstract!NothingSeen /\ Histories' = Histories
      BY <1>1, <2>1, <2>3, BasesStep DEF RollsBack
    <3>2. Abstract!GiveUp(w)
      BY <2>0, <3>1 DEF Abstract!GiveUp, Histories, Bases
    <3> QED BY <3>2 DEF Abstract!Next
  <2>4. CASE Plans(w)
    <3>1. /\ UNCHANGED dbVars /\ ItemErrors(request[w]) = {}
          /\ b = [m \in Memory |-> IF m \in Targets(request[w]) THEN CurrentOf(m).version ELSE 0]
      BY <2>4, PlansEffect DEF TypeInv
    <3>2. Targets(request[w]) \in SUBSET Memory
      BY RequestFacts DEF TypeInv, TypeOK
    <3>3. \A m \in Targets(request[w]) : CurrentOf(m).version = Len(Histories[m])
      <4> SUFFICES ASSUME NEW m \in Targets(request[w])
                   PROVE  CurrentOf(m).version = Len(Histories[m])
        OBVIOUS
      <4>1. m \in Memory /\ CurrentOf(m) \in versions /\ CurrentOf(m).memory = m /\ CurrentOf(m).current
        BY <3>1, <3>2, PlansFacts
      <4> QED BY <4>1, CurrentIsNewest DEF TypeInv, Histories
    <3>4. b = [m \in Memory |-> IF m \in Targets(request[w]) THEN Len(Histories[m]) ELSE 0]
      BY <3>1, <3>3
    <3>5. Histories' = Histories
      BY <2>1, <3>1
    <3>6. \E S \in SUBSET Memory :
            Bases' = [Bases EXCEPT ![w] = [m \in Memory |-> IF m \in S THEN Len(Histories[m]) ELSE 0]]
      BY <2>0, <3>2, <3>4
    <3>7. Abstract!Read(w)
      BY <3>5, <3>6 DEF Abstract!Read, Histories, Bases
    <3> QED BY <3>7 DEF Abstract!Next
  <2>5. CASE UNCHANGED dbVars /\ b = Bases[w]
    <3>1. Bases' = Bases /\ Histories' = Histories
      BY <2>0, <2>1, <2>5 DEF Bases
    <3> QED BY <3>1 DEF Abstract!vars, Histories, Bases
  <2> QED BY <1>1, <2>2, <2>3, <2>4, <2>5, BasesStep
<1>2. CASE UNCHANGED vars
  <2>1. \A m \in Memory : HistoryOf(m)' = HistoryOf(m)
    BY <1>2 DEF vars, HistoryOf, VersionsOf
  <2>2. plan' = plan
    BY <1>2 DEF vars
  <2> QED BY <2>1, <2>2 DEF Abstract!vars
<1> QED BY <1>1, <1>2, WriterSteps

(* Concurrent batches, whatever their transactions do to one another,      *)
(* behave as atomic writes that succeed only on the histories their        *)
(* writers had read: the store implements VersionedStore.                  *)
THEOREM BatchesAreCompareAndSet == Spec => WritesAreCompareAndSet
<1>1. Init /\ TypeOK /\ Chains /\ NoEmptyVersion => Abstract!Init
  <2> SUFFICES ASSUME Init, TypeOK, Chains, NoEmptyVersion PROVE Abstract!Init
    OBVIOUS
  <2>1. [m \in Memory |-> HistoryOf(m)] \in [Memory -> Seq(Claim)]
    BY HistoriesAreTyped
  <2>2. \A m \in Memory : Abstract!NoRepeat([x \in Memory |-> HistoryOf(x)][m])
    BY HistoriesAreTyped
  <2>3. [w \in Writer |-> plan[w].base] = [w \in Writer |-> Abstract!NothingSeen]
    BY DEF Init, NoPlan, Abstract!NothingSeen
  <2> QED BY <2>1, <2>2, <2>3 DEF Abstract!Init
<1>2. TypeInv /\ TypeOK' /\ StoreInv /\ AllWalk /\ Chains /\ Chains' /\ NoEmptyVersion
      /\ NoEmptyVersion' /\ [Next]_vars => [Abstract!Next]_(Abstract!vars)
  BY AbstractSteps
<1> QED
  BY <1>1, <1>2, TypeInvHolds, TypeCorrect, StoreInvHolds, WalkInvHolds, ChainsHold,
     NoVersionIsEmpty, PTL DEF Spec, WritesAreCompareAndSet, Abstract!Spec

=============================================================================
