------------------------- MODULE MemoryWholeProofs -------------------------
(***************************************************************************)
(* The request as a whole: that it stores everything it asked for or       *)
(* nothing, that its edges join memories that exist, and that the advisory *)
(* locks it takes at its end deadlock nobody.                              *)
(***************************************************************************)
EXTENDS MemoryHistoryProofs

-----------------------------------------------------------------------------
(***************************************************************************)
(* Locks.  The graph's lock comes after every row lock, the product's lock *)
(* after that, and after the product's lock nothing is waited for.         *)
(***************************************************************************)

(* Which locks a request holds, by where it stands.                        *)
LocksComeLast(w) ==
    /\ locks[w] # {} => pc[w] \in {"product", "commit"}
    /\ "product" \in locks[w] => pc[w] = "commit"

(* Where the locks of a request are when it has moved.                     *)
LEMMA LocksStep ==
    ASSUME TypeInv, NEW w \in Writer, WriterStep(w), LocksComeLast(w)
    PROVE  LocksComeLast(w)'
<1> USE DEF LocksComeLast, At, Goto, TypeOK
<1>0. TypeOK /\ SavesAVersion
  BY DEF TypeInv
<1>1. CASE Submit(w) \/ LoseAnswer(w) \/ Retry(w)
  BY <1>0, <1>1, ClientEffect
<1>2. CASE RollsBack(w) \/ Commit(w)
  BY <1>0, <1>2, FinishEffect DEF RollsBack, Commit
<1>3. CASE Plans(w) \/ Resolves(w)
  BY <1>0, <1>3, PlansEffect, ResolvesEffect
<1>4. CASE StoreBlobs(w)
  BY <1>4 DEF StoreBlobs
<1>5. CASE CreateNew(w) \/ KeepUnchanged(w) \/ VersionExisting(w) \/ SaveLabels(w)
  BY <1>5 DEF CreateNew, KeepUnchanged, VersionExisting, SaveLabels, InItems
<1>6. ASSUME NEW x, Flips(w, x) \/ InsertsMemory(w, x) \/ InsertsVersion(w, x) \/ InsertsLabel(w, x)
      PROVE  locks' = locks /\ pc' = pc
  BY <1>6 DEF Flips, FlipCurrent, InsertsMemory, InsertMemory, InsertsVersion, InsertVersion,
              InsertsLabel, InsertLabel
<1>7. CASE Saved(w)
  BY <1>7 DEF Saved
<1>8. CASE GraphWrites(w)
  BY <1>0, <1>8 DEF GraphWrites
<1>9. CASE ProductWrites(w)
  BY <1>0, <1>9 DEF ProductWrites
<1> QED
  BY <1>1, <1>2, <1>3, <1>4, <1>5, <1>6, <1>7, <1>8, <1>9 DEF WriterStep, WorkStep

(* The advisory locks are the last thing a transaction waits for, and it   *)
(* waits for them in one order, so that a holder of one is never part of a *)
(* cycle of waits: only row locks can deadlock, and those roll back.       *)
THEOREM LockHoldersAreSafe == Spec => []LockHoldersNeverDeadlock
<1> DEFINE Last == \A w \in Writer : LocksComeLast(w)
<1>1. Init => Last
  BY DEF Init, LocksComeLast
<1>2. TypeInv /\ Last /\ [Next]_vars => Last'
  <2> SUFFICES ASSUME TypeInv, Last, [Next]_vars, NEW u \in Writer PROVE LocksComeLast(u)'
    OBVIOUS
  <2>1. ASSUME UNCHANGED Own(u) PROVE LocksComeLast(u)'
    BY <2>1 DEF Own, LocksComeLast
  <2>2. ASSUME NEW w \in Writer, WriterStep(w) PROVE LocksComeLast(u)'
    BY <2>1, <2>2, LocksStep, OthersKeep DEF Others, TypeInv
  <2>3. CASE UNCHANGED vars
    BY <2>1, <2>3 DEF vars, Own
  <2> QED BY <2>2, <2>3, WriterSteps
<1>3. Last => LockHoldersNeverDeadlock
  <2> SUFFICES ASSUME Last, NEW w \in Writer, InDeadlock(w), locks[w] # {} PROVE FALSE
    BY DEF LockHoldersNeverDeadlock
  <2> DEFINE S == LockHolders(w, "product")
  <2>1. \A u \in Writer : pc[u] = "commit" => Waits(u) = {}
    BY DEF Waits, At
  <2>2. pc[w] = "product" /\ Waits(w) \subseteq S
    <3>1. pc[w] = "product"
      BY <2>1 DEF LocksComeLast, InDeadlock
    <3> QED BY <3>1 DEF Waits, At
  <2>3. S \in SUBSET Writer /\ w \notin S
    BY DEF LockHolders, Others
  <2>4. \A u \in S : Waits(u) \subseteq S
    BY <2>1, <2>3 DEF LockHolders, LocksComeLast
  <2> HIDE DEF S
  <2> QED BY <2>2, <2>3, <2>4 DEF InDeadlock
<1> HIDE DEF Last
<1> QED BY <1>1, <1>2, <1>3, TypeInvHolds, PTL DEF Spec

-----------------------------------------------------------------------------
(***************************************************************************)
(* What the steps of a request do besides their walk.                      *)
(***************************************************************************)

(* The labels, edges and bindings w has written or is about to write.      *)
Extras(w) == <<tx[w].labels, todo[w].labels, tx[w].links, tx[w].abouts, tx[w].products>>

(* The steps over the items touch none of these.                           *)
ItemStep(w) ==
    \/ CreateNew(w) \/ KeepUnchanged(w) \/ VersionExisting(w) \/ SavedItem(w)
    \/ \E k \in todo[w].flips : Flips(w, k)
    \/ \E p \in todo[w].memories : InsertsMemory(w, p)
    \/ \E v \in todo[w].versions : InsertsVersion(w, v)

(* Nor do they write a table, or leave the walk.                           *)
LEMMA ItemStepKeeps ==
    ASSUME TypeInv, NEW w \in Writer, ItemStep(w)
    PROVE  /\ Extras(w)' = Extras(w) /\ Script(w)' = Script(w) /\ UNCHANGED dbVars
           /\ pc[w] \in {"items", "saving"} /\ pc'[w] \in {"items", "saving"}
           /\ pc'[w] = "saving" => cursor'[w] = cursor[w] /\
                (pc[w] = "saving" \/ cursor[w] \in DOMAIN request[w].items)
<1>0. TypeOK /\ SavesAVersion
  BY DEF TypeInv
<1>1. CASE CreateNew(w)
  <2> DEFINE X(m) == todo[w].memories \cup {NewMemoryRow(w, m)}
             Y(m) == todo[w].versions \cup {FirstVersionRow(w, m)}
  <2>1. PICK m : todo' = [todo EXCEPT ![w] = [@ EXCEPT !.memories = X(m), !.versions = Y(m)]]
    BY <1>1 DEF CreateNew
  <2> HIDE DEF X, Y
  <2>2. todo'[w] = [todo[w] EXCEPT !.memories = X(m), !.versions = Y(m)]
    BY <1>0, <2>1 DEF TypeOK
  <2>3. todo'[w].labels = todo[w].labels
    BY <1>0, <2>2 DEF TypeOK, RowSets
  <2>4. tx' = tx
    BY <1>1 DEF CreateNew
  <2> QED BY <1>0, <1>1, <2>3, <2>4, CreateNewEffect DEF Extras, At
<1>2. CASE KeepUnchanged(w)
  <2>1. tx' = tx /\ todo' = todo
    BY <1>2 DEF KeepUnchanged
  <2> QED BY <1>0, <1>2, <2>1, KeepUnchangedEffect DEF Extras, At
<1>3. CASE VersionExisting(w)
  <2>1. todo'[w].labels = todo[w].labels /\ tx' = tx
    BY <1>0, <1>3 DEF VersionExisting, TypeOK, RowSets
  <2> QED BY <1>0, <1>3, <2>1, VersionExistingEffect DEF Extras, At, Versioned
<1>4. CASE SavedItem(w)
  <2>1. todo'[w].labels = todo[w].labels /\ tx' = tx
    BY <1>0, <1>4 DEF SavedItem, Saved, TypeOK, RowSets
  <2> QED BY <1>0, <1>4, <2>1, SavedItemEffect DEF Extras, At
<1>5. ASSUME NEW k \in todo[w].flips, Flips(w, k) PROVE Extras(w)' = Extras(w)
  BY <1>0, <1>5 DEF Flips, FlipCurrent, TypeOK, RowSets, Overlay, Extras
<1>6. ASSUME NEW p \in todo[w].memories, InsertsMemory(w, p) PROVE Extras(w)' = Extras(w)
  BY <1>0, <1>6 DEF InsertsMemory, InsertMemory, TypeOK, RowSets, Overlay, Extras
<1>7. ASSUME NEW v \in todo[w].versions, InsertsVersion(w, v) PROVE Extras(w)' = Extras(w)
  BY <1>0, <1>7 DEF InsertsVersion, InsertVersion, TypeOK, RowSets, Overlay, Extras
<1> QED
  BY <1>0, <1>1, <1>2, <1>3, <1>4, <1>5, <1>6, <1>7, FlipEffect, InsertMemoryEffect,
     InsertVersionEffect DEF ItemStep, At

(* After the last item the labels are queued, and then inserted.           *)
LEMMA LabelsEffect ==
    ASSUME TypeOK, NEW w \in Writer,
           SaveLabels(w) \/ \E n \in todo[w].labels : InsertsLabel(w, n)
    PROVE  /\ tx'[w].links = tx[w].links /\ tx'[w].abouts = tx[w].abouts
           /\ tx'[w].products = tx[w].products /\ pc'[w] = "saving"
           /\ \/ /\ SaveLabels(w) /\ tx'[w].labels = tx[w].labels
                 /\ todo'[w].labels = {[name |-> n, by |-> w] : n \in plan[w].labels}
              \/ /\ pc[w] = "saving"
                 /\ tx'[w].labels \cup todo'[w].labels = tx[w].labels \cup todo[w].labels
<1> USE DEF At, Goto
<1>1. CASE SaveLabels(w)
  BY <1>1 DEF SaveLabels, TypeOK, RowSets
<1>2. ASSUME NEW n \in todo[w].labels, InsertsLabel(w, n)
      PROVE  /\ tx'[w].links = tx[w].links /\ tx'[w].abouts = tx[w].abouts
             /\ tx'[w].products = tx[w].products /\ pc'[w] = "saving" /\ pc[w] = "saving"
             /\ tx'[w].labels = tx[w].labels \cup {n} /\ todo'[w].labels = todo[w].labels \ {n}
  BY <1>2 DEF InsertsLabel, InsertLabel, TypeOK, RowSets, Overlay
<1> QED BY <1>1, <1>2

(* The graph's step writes the edges that it did not find under its lock.  *)
LEMMA GraphEffect ==
    ASSUME TypeOK, NEW w \in Writer, GraphWrites(w)
    PROVE  /\ tx'[w].labels = tx[w].labels /\ tx'[w].products = tx[w].products
           /\ tx'[w].memories = tx[w].memories /\ todo' = todo /\ plan' = plan /\ request' = request
           /\ UNCHANGED dbVars /\ pc[w] = "graph" /\ pc'[w] = "product"
           /\ \/ NeedsGraph(w) /\ tx'[w].links = LinkRows(w) /\ tx'[w].abouts = AboutRows(w)
              \/ ~NeedsGraph(w) /\ tx' = tx
<1>1. /\ todo' = todo /\ plan' = plan /\ request' = request
      /\ UNCHANGED dbVars /\ pc[w] = "graph" /\ pc'[w] = "product"
  BY DEF GraphWrites, At, Goto, TypeOK
<1>2. CASE NeedsGraph(w)
  <2> DEFINE T == [tx[w] EXCEPT !.links = LinkRows(w), !.abouts = AboutRows(w)]
  <2>1. /\ T.links = LinkRows(w) /\ T.abouts = AboutRows(w) /\ T.labels = tx[w].labels
        /\ T.products = tx[w].products /\ T.memories = tx[w].memories
    BY DEF TypeOK, Overlay
  <2>2. tx' = [tx EXCEPT ![w] = T]
    BY <1>2 DEF GraphWrites
  <2> HIDE DEF T
  <2>3. tx'[w] = T
    BY <2>2 DEF TypeOK
  <2> QED BY <1>1, <1>2, <2>1, <2>3
<1>3. CASE ~NeedsGraph(w)
  BY <1>1, <1>3 DEF GraphWrites
<1> QED BY <1>2, <1>3

(* The product's step writes the binding that it did not find.             *)
LEMMA ProductEffect ==
    ASSUME TypeOK, NEW w \in Writer, ProductWrites(w)
    PROVE  /\ tx'[w].labels = tx[w].labels /\ tx'[w].links = tx[w].links
           /\ tx'[w].abouts = tx[w].abouts /\ tx'[w].memories = tx[w].memories
           /\ todo' = todo /\ plan' = plan /\ request' = request
           /\ UNCHANGED dbVars /\ pc[w] = "product" /\ pc'[w] = "commit"
           /\ NeedsProduct(w) =>
                tx'[w].products = {<<request[w].product, BoundInitiative(w)>>} \ productLinks
BY DEF ProductWrites, At, Goto, TypeOK, Overlay

(* Every step of the work is one of these.                                 *)
LEMMA WorkCases ==
    ASSUME NEW w \in Writer, WorkStep(w)
    PROVE  \/ Plans(w) \/ Resolves(w) \/ StoreBlobs(w) \/ ItemStep(w)
           \/ SaveLabels(w) \/ \E n \in todo[w].labels : InsertsLabel(w, n)
           \/ Saved(w) /\ cursor[w] \notin DOMAIN request[w].items
           \/ GraphWrites(w) \/ ProductWrites(w)
BY DEF WorkStep, ItemStep, SavedItem

-----------------------------------------------------------------------------
(***************************************************************************)
(* Items.  What the walked items asked for is there: as a row of the       *)
(* request or, where nothing had to change, as a version that was read.    *)
(***************************************************************************)

(* What item i asked for is among w's rows or, for a version, is stored.   *)
ItemIsDone(w, i) ==
    LET item == request[w].items[i] IN
    /\ i \in Versioned(request[w]) =>
         \E v \in Pending(w) \cup versions : v.memory = item.uuid /\ v.claim = item.claim
    /\ i \in Created(request[w]) =>
         \E p \in Made(w) :
           /\ p.slug = item.slug
           /\ item.uuid # Nobody => p.uuid = item.uuid
           /\ \E v \in Pending(w) : v.memory = p.uuid /\ v.version = 1 /\ v.claim = item.claim

(* So it is for every item before the cursor.                              *)
ItemsDone(w) == \A i \in DOMAIN request[w].items : i < cursor[w] => ItemIsDone(w, i)

(* A request writes in its own name, and memories of its own group.        *)
RowsAreMine(w) ==
    /\ \A p \in Made(w) : p.group = request[w].group /\ p.by = w
    /\ \A v \in Pending(w) : v.by = w

(* The rows of a request only ever lose their flag.                        *)
LEMMA RowsOnlyGrow ==
    ASSUME TypeInv, NEW w \in Writer, ItemStep(w)
    PROVE  /\ \A v \in Pending(w) : \E u \in Pending(w)' : Resembles(u, v)
           /\ \A u \in Pending(w)' : u.by = w \/ \E v \in Pending(w) : Resembles(u, v)
           /\ Made(w) \subseteq Made(w)'
           /\ \A p \in Made(w)' : p \in Made(w) \/ (p.group = request[w].group /\ p.by = w)
<1> USE DEF Pending, Made
<1>0. /\ TypeOK /\ SavesAVersion
      /\ \A v : Resembles(v, v)
  BY DEF TypeInv, Resembles
<1>1. CASE CreateNew(w)
  BY <1>0, <1>1, CreateNewEffect DEF Rows, FirstVersionRow, NewMemoryRow
<1>2. CASE KeepUnchanged(w)
  BY <1>0, <1>2, KeepUnchangedEffect DEF Rows
<1>3. CASE VersionExisting(w)
  <2> DEFINE old == Unsaved(w)
             new == {[v EXCEPT !.current = FALSE] : v \in old}
  <2>1. /\ tx'[w].versions = tx[w].versions /\ Made(w)' = Made(w)
        /\ \/ todo'[w].versions = todo[w].versions
           \/ todo'[w].versions = (todo[w].versions \ old) \cup new
    BY <1>0, <1>3, VersionExistingEffect DEF Rows
  <2>2. \A v \in old : v \in VersionRow /\ v \in todo[w].versions
    BY <1>0 DEF Unsaved, TypeOK, RowSets
  <2>3. \A v \in old : Resembles([v EXCEPT !.current = FALSE], v)
    BY <2>2 DEF VersionRow, Resembles, KeyOf
  <2>4. /\ \A v \in old : \E u \in new : Resembles(u, v)
        /\ \A u \in new : \E v \in old : Resembles(u, v)
    BY <2>3
  <2> HIDE DEF old, new
  <2>5. CASE todo'[w].versions = todo[w].versions
    BY <1>0, <2>1, <2>5
  <2>6. CASE todo'[w].versions = (todo[w].versions \ old) \cup new
    <3>1. Pending(w)' = tx[w].versions \cup (todo[w].versions \ old) \cup new
      BY <2>1, <2>6
    <3>2. ASSUME NEW v \in Pending(w) PROVE \E u \in Pending(w)' : Resembles(u, v)
      BY <1>0, <2>4, <3>1, <3>2
    <3>3. ASSUME NEW u \in Pending(w)' PROVE \E v \in Pending(w) : Resembles(u, v)
      BY <1>0, <2>2, <2>4, <3>1, <3>3
    <3> QED BY <2>1, <3>2, <3>3
  <2> QED BY <2>1, <2>5, <2>6
<1>4. CASE SavedItem(w)
  <2>1. /\ tx'[w].versions = tx[w].versions /\ todo'[w].versions = {NextVersionRow(w)}
        /\ tx'[w].memories = tx[w].memories /\ todo'[w].memories = {} /\ todo[w] = NoRows
    BY <1>0, <1>4, SavedItemEffect DEF Rows
  <2>2. Pending(w) = tx[w].versions /\ Made(w) = tx[w].memories
    BY <2>1 DEF NoRows
  <2>3. NextVersionRow(w).by = w
    BY DEF NextVersionRow
  <2> QED BY <1>0, <2>1, <2>2, <2>3
<1>5. ASSUME NEW k \in todo[w].flips, Flips(w, k)
      PROVE  /\ \A v \in Pending(w) : \E u \in Pending(w)' : Resembles(u, v)
             /\ \A u \in Pending(w)' : \E v \in Pending(w) : Resembles(u, v)
             /\ Made(w)' = Made(w)
  <2> DEFINE T == tx[w].versions
  <2>0. T \in SUBSET VersionRow
    BY <1>0 DEF TypeOK, Overlay
  <2>1. /\ tx'[w].versions = T \/ tx'[w].versions = Flipped(T, {k})
        /\ todo'[w].versions = todo[w].versions /\ Made(w)' = Made(w)
    <3>1. TypeOK /\ Flips(w, k)
      BY <1>0, <1>5
    <3>2. /\ tx'[w].versions = tx[w].versions \/ tx'[w].versions = Flipped(tx[w].versions, {k})
          /\ todo'[w].versions = todo[w].versions
          /\ tx'[w].memories = tx[w].memories /\ todo'[w].memories = todo[w].memories
      BY <3>1, FlipRows
    <3> QED BY <3>2
  <2>2. /\ \A v \in T : \E u \in Flipped(T, {k}) : Resembles(u, v)
        /\ \A u \in Flipped(T, {k}) : \E v \in T : Resembles(u, v)
    <3> HIDE DEF T
    <3>1. \A v \in T : \E u \in Flipped(T, {k}) : Resembles(u, v)
      BY <2>0, FlippedFacts
    <3>2. \A u \in Flipped(T, {k}) : \E v \in T : Resembles(u, v)
      BY <2>0, FlippedSource
    <3> QED BY <3>1, <3>2
  <2> HIDE DEF T
  <2>3. Pending(w) = T \cup todo[w].versions
    BY DEF T
  <2>4. Pending(w)' = T \cup todo[w].versions \/ Pending(w)' = Flipped(T, {k}) \cup todo[w].versions
    BY <2>1
  <2>5. ASSUME NEW v \in Pending(w) PROVE \E u \in Pending(w)' : Resembles(u, v)
    BY <1>0, <2>2, <2>3, <2>4, <2>5
  <2>6. ASSUME NEW u \in Pending(w)' PROVE \E v \in Pending(w) : Resembles(u, v)
    BY <1>0, <2>2, <2>3, <2>4, <2>6
  <2> QED BY <2>1, <2>5, <2>6
<1>6. ASSUME NEW p \in todo[w].memories, InsertsMemory(w, p)
      PROVE  Pending(w)' = Pending(w) /\ Made(w)' = Made(w)
  BY <1>0, <1>6, InsertMemoryEffect DEF Rows
<1>7. ASSUME NEW v \in todo[w].versions, InsertsVersion(w, v)
      PROVE  Pending(w)' = Pending(w) /\ Made(w)' = Made(w)
  BY <1>0, <1>7, InsertVersionEffect DEF Rows
<1> QED BY <1>0, <1>1, <1>2, <1>3, <1>4, <1>5, <1>6, <1>7 DEF ItemStep

(* An item that is done stays so while rows and tables only grow.          *)
LEMMA DoneStaysDone ==
    ASSUME NEW w, NEW i, ItemIsDone(w, i), request'[w] = request[w],
           \A v \in versions : \E u \in versions' :
              u.memory = v.memory /\ u.version = v.version /\ u.claim = v.claim,
           \A v \in Pending(w) : \E u \in Pending(w)' : Resembles(u, v),
           Made(w) \subseteq Made(w)'
    PROVE  ItemIsDone(w, i)'
<1> DEFINE item == request[w].items[i]
<1>1. \A v \in Pending(w) : \E u \in Pending(w)' :
        u.memory = v.memory /\ u.version = v.version /\ u.claim = v.claim
  BY DEF Resembles
<1>2. ASSUME i \in Versioned(request[w])
      PROVE  \E u \in Pending(w)' \cup versions' : u.memory = item.uuid /\ u.claim = item.claim
  <2>1. PICK v \in Pending(w) \cup versions : v.memory = item.uuid /\ v.claim = item.claim
    BY <1>2 DEF ItemIsDone
  <2>2. CASE v \in Pending(w)
    BY <1>1, <2>1, <2>2
  <2>3. CASE v \in versions
    BY <2>1, <2>3
  <2> QED BY <2>1, <2>2, <2>3
<1>3. ASSUME i \in Created(request[w])
      PROVE  \E p \in Made(w)' :
               /\ p.slug = item.slug
               /\ item.uuid # Nobody => p.uuid = item.uuid
               /\ \E u \in Pending(w)' : u.memory = p.uuid /\ u.version = 1 /\ u.claim = item.claim
  <2>1. PICK p \in Made(w) :
          /\ p.slug = item.slug
          /\ item.uuid # Nobody => p.uuid = item.uuid
          /\ \E v \in Pending(w) : v.memory = p.uuid /\ v.version = 1 /\ v.claim = item.claim
    BY <1>3 DEF ItemIsDone
  <2>2. PICK v \in Pending(w) : v.memory = p.uuid /\ v.version = 1 /\ v.claim = item.claim
    BY <2>1
  <2>3. PICK u \in Pending(w)' : u.memory = v.memory /\ u.version = v.version /\ u.claim = v.claim
    BY <1>1
  <2> QED BY <2>1, <2>2, <2>3
<1> QED BY <1>2, <1>3 DEF ItemIsDone

(* The claim the batch has left a target with is there to be seen.         *)
LEMMA ClaimIsThere ==
    ASSUME TypeInv, NEW w \in Writer, Walks(w), pc[w] \in Walking, HasRead(w),
           NEW m \in Targets(request[w])
    PROVE  \E v \in Pending(w) \cup versions :
              v.memory = m /\ v.claim = ClaimBefore(request[w], plan[w], m, cursor[w])
<1>1. m \in Memory
  BY RequestFacts DEF TypeInv, TypeOK
<1>2. Base(w)[m] \in Nat /\ cur[w][m] \in Nat /\ Base(w)[m] <= cur[w][m]
  BY <1>1 DEF TypeInv, TypeOK, Plan, Base, Walks, RowsAreNumbered
<1>3. CASE Base(w)[m] = cur[w][m]
  <2>1. ClaimBefore(request[w], plan[w], m, cursor[w]) = plan[w].claim[m]
    BY <1>3 DEF Walks, ClaimsFollow
  <2>2. \E v \in versions : v.memory = m /\ v.claim = plan[w].claim[m]
    BY DEF HasRead, Planned
  <2> QED BY <2>1, <2>2
<1>4. CASE Base(w)[m] < cur[w][m]
  <2>1. PICK v \in Pending(w) : v.memory = m /\ v.version = cur[w][m]
    BY <1>2, <1>4 DEF Walks, RowsAreNumbered
  <2>2. v.claim = ClaimBefore(request[w], plan[w], m, cursor[w])
    BY <2>1 DEF Walks, ClaimsFollow
  <2> QED BY <2>1, <2>2
<1> QED BY <1>2, <1>3, <1>4

(* The item at hand is done by the step that moves the walk on.            *)
LEMMA ItemBecomesDone ==
    ASSUME TypeInv, NEW w \in Writer, Walks(w), pc[w] \in Walking, HasRead(w),
           CreateNew(w) \/ KeepUnchanged(w) \/ SavedItem(w),
           NEW i, i = cursor[w]
    PROVE  ItemIsDone(w, i)'
<1> DEFINE item == request[w].items[i]
<1>0. TypeOK /\ SavesAVersion /\ item = ItemAt(w)
  BY DEF TypeInv, ItemAt
<1>1. CASE CreateNew(w)
  <2>1. PICK m \in Memory :
          /\ IF ItemAt(w).kind = "mint" THEN Fresh(m) ELSE m = ItemAt(w).uuid
          /\ Rows(w)' = <<tx[w].flips, tx[w].memories, tx[w].versions, todo[w].flips,
                          todo[w].memories \cup {NewMemoryRow(w, m)},
                          todo[w].versions \cup {FirstVersionRow(w, m)}>>
    BY <1>0, <1>1, CreateNewEffect
  <2>2. i \in Created(request[w]) /\ request'[w] = request[w]
    BY <1>0, <1>1, CreateNewEffect DEF Script
  <2>3. NewMemoryRow(w, m) \in Made(w)' /\ FirstVersionRow(w, m) \in Pending(w)'
    BY <2>1 DEF Rows, Made, Pending
  <2>4. NewMemoryRow(w, m).slug = item.slug /\ NewMemoryRow(w, m).uuid = m
    BY <1>0 DEF NewMemoryRow
  <2>5. /\ FirstVersionRow(w, m).memory = m /\ FirstVersionRow(w, m).version = 1
        /\ FirstVersionRow(w, m).claim = item.claim
    BY <1>0 DEF FirstVersionRow
  <2>6. item.uuid # Nobody => m = item.uuid
    <3>1. i \in DOMAIN request[w].items /\ request[w] \in Request
      <4>1. i \in DOMAIN request[w].items
        BY <2>2 DEF Created
      <4>2. request[w] # NoRequest
        BY <4>1 DEF NoRequest
      <4> QED BY <1>0, <4>1, <4>2 DEF TypeOK
    <3>2. item.kind = "mint" => item.uuid = Nobody
      BY <3>1, RequestsAreValid
    <3> QED BY <1>0, <2>1, <3>2
  <2>7. i \notin Versioned(request[w])
    BY <2>2 DEF Created
  <2> HIDE DEF item
  <2> QED BY <2>2, <2>3, <2>4, <2>5, <2>6, <2>7 DEF ItemIsDone, item
<1>2. CASE KeepUnchanged(w)
  <2>1. /\ i \in Versioned(request[w]) /\ item.claim = LastClaim(w, i)
        /\ request'[w] = request[w] /\ Pending(w)' = Pending(w) /\ versions' = versions
    BY <1>0, <1>2, KeepUnchangedEffect DEF IsUnchanged, Script, Rows, Pending, dbVars
  <2>2. item.uuid \in Targets(request[w])
    BY <2>1 DEF Targets
  <2>3. LastClaim(w, i) = ClaimBefore(request[w], plan[w], item.uuid, cursor[w])
    BY LastClaimIsClaimBefore
  <2>4. \E v \in Pending(w) \cup versions : v.memory = item.uuid /\ v.claim = item.claim
    BY <2>1, <2>2, <2>3, ClaimIsThere
  <2>5. i \notin Created(request[w])
    BY <2>1 DEF Created
  <2> QED BY <2>1, <2>4, <2>5 DEF ItemIsDone
<1>3. CASE SavedItem(w)
  <2>1. /\ i \in Versioned(request[w]) /\ request'[w] = request[w]
        /\ NextVersionRow(w) \in Pending(w)'
    BY <1>0, <1>3, SavedItemEffect DEF Script, Rows, Pending
  <2>2. NextVersionRow(w).memory = item.uuid /\ NextVersionRow(w).claim = item.claim
    BY <1>0 DEF NextVersionRow
  <2>3. i \notin Created(request[w])
    BY <2>1 DEF Created
  <2> QED BY <2>1, <2>2, <2>3 DEF ItemIsDone
<1> QED BY <1>1, <1>2, <1>3

(* A step over the items keeps the walked ones done.                       *)
LEMMA ItemsStep ==
    ASSUME TypeInv, NEW w \in Writer, Walks(w), pc[w] \in Walking, HasRead(w),
           ItemsDone(w), RowsAreMine(w), ItemStep(w)
    PROVE  ItemsDone(w)' /\ RowsAreMine(w)'
<1>0. /\ TypeOK /\ SavesAVersion /\ request'[w] = request[w] /\ versions' = versions
      /\ DOMAIN request[w].items \subseteq Nat
  BY ItemStepKeeps, RequestFacts DEF TypeInv, TypeOK, Script, dbVars
<1>1. RowsAreMine(w)'
  BY <1>0, RowsOnlyGrow DEF RowsAreMine, Resembles
<1>2. ASSUME NEW i, ItemIsDone(w, i) PROVE ItemIsDone(w, i)'
  BY <1>0, <1>2, RowsOnlyGrow, DoneStaysDone
<1>3. cursor[w] \in Nat
  BY <1>0 DEF TypeOK
<1>4. CASE CreateNew(w) \/ KeepUnchanged(w) \/ SavedItem(w)
  <2>1. cursor'[w] = cursor[w] + 1
    BY <1>0, <1>4, CreateNewEffect, KeepUnchangedEffect, SavedItemEffect
  <2>2. \A i : i = cursor[w] => ItemIsDone(w, i)'
    BY <1>4, ItemBecomesDone
  <2>3. \A i \in Nat : i < cursor[w] + 1 => i < cursor[w] \/ i = cursor[w]
    BY <1>3
  <2> QED BY <1>0, <1>1, <1>2, <2>1, <2>2, <2>3 DEF ItemsDone
<1>5. CASE cursor'[w] = cursor[w]
  BY <1>0, <1>1, <1>2, <1>5 DEF ItemsDone
<1> QED
  BY <1>0, <1>4, <1>5, VersionExistingEffect, FlipEffect, InsertMemoryEffect, InsertVersionEffect
     DEF ItemStep

-----------------------------------------------------------------------------
(***************************************************************************)
(* The rest of a request: what it was resolved on, and what of its labels, *)
(* edges and binding is already there or is its own to write.              *)
(***************************************************************************)

(* Where a request may stand once its plan is complete.                    *)
Resolved == Walking \cup {"resolved"}

(* What resolving found out still holds: it asked for rows, which stay.    *)
RestIsSound(w) ==
    pc[w] \in Resolved =>
      LET r == request[w] IN
      /\ \A l \in r.links :
           {l.source, l.target} \subseteq BatchUuids(r) \cup {p.uuid : p \in memories}
      /\ \A t \in r.refs : OwnerOf[t] # r.group
      /\ plan[w].links \subseteq r.links
      /\ \A l \in r.links : l \in plan[w].links \/ ExistsLink(l)
      /\ \A n \in r.labels : n \in plan[w].labels \/ \E q \in labels : q.name = n

(* Every label that was planned is w's own to insert, once queued.         *)
LabelsDone(w) ==
    /\ \A q \in tx[w].labels \cup todo[w].labels : q.by = w
    /\ pc[w] \in {"saving", "graph", "product", "commit"} /\ cursor[w] \notin DOMAIN request[w].items
         => \A n \in plan[w].labels : \E q \in tx[w].labels \cup todo[w].labels : q.name = n

(* After the graph's step every planned link and every reference is there: *)
(* stored already, or an uncommitted edge of w.  No other edge is w's.     *)
EdgesDone(w) ==
    IF pc[w] \in {"product", "commit"}
    THEN /\ \A k \in tx[w].links : k.by = w /\ \E l \in plan[w].links : SameLink(k, l)
         /\ \A a \in tx[w].abouts :
              a.by = w /\ a.memory \in ResultUuids(w) /\ a.ticket \in request[w].refs
         /\ \A l \in plan[w].links : \E k \in tx[w].links \cup links : SameLink(k, l)
         /\ \A m \in ResultUuids(w), t \in request[w].refs :
              \E a \in tx[w].abouts \cup abouts : a.memory = m /\ a.ticket = t
    ELSE tx[w].links = {} /\ tx[w].abouts = {}

(* After the product's step its binding is stored, or w's to commit.       *)
ProductDone(w) ==
    pc[w] = "commit" /\ NeedsProduct(w) =>
      <<request[w].product, BoundInitiative(w)>> \in tx[w].products \cup productLinks

(* What a request has stored, or will store with its commit.               *)
WholeInv(w) ==
    /\ RestIsSound(w) /\ LabelsDone(w) /\ EdgesDone(w) /\ ProductDone(w)
    /\ pc[w] \in Walking => ItemsDone(w) /\ RowsAreMine(w)

(* The tables only grow, but for the flags of versions.                    *)
Grows ==
    /\ memories \subseteq memories' /\ labels \subseteq labels' /\ links \subseteq links'
    /\ abouts \subseteq abouts' /\ productLinks \subseteq productLinks'
    /\ \A v \in versions : \E u \in versions' :
         u.memory = v.memory /\ u.version = v.version /\ u.claim = v.claim

(* No step takes a row away.                                               *)
LEMMA TablesGrow ==
    ASSUME TypeOK, [Next]_vars
    PROVE  Grows
BY KeptVersion, OnlyCommitWrites DEF Commit, dbVars, Grows

(* A request that does not move loses nothing while the tables grow.       *)
LEMMA WholeFrame ==
    ASSUME NEW w, UNCHANGED Own(w), Grows, WholeInv(w)
    PROVE  WholeInv(w)'
<1> USE DEF Own, Grows
<1>0. /\ Pending(w)' = Pending(w) /\ Made(w)' = Made(w) /\ request'[w] = request[w]
      /\ pc'[w] = pc[w] /\ cursor'[w] = cursor[w] /\ tx'[w] = tx[w] /\ todo'[w] = todo[w]
      /\ plan'[w] = plan[w] /\ ResultUuids(w)' = ResultUuids(w)
      /\ BoundInitiative(w)' = BoundInitiative(w) /\ (NeedsProduct(w)' <=> NeedsProduct(w))
  BY DEF Pending, Made, ResultUuids, BoundInitiative, NeedsProduct
<1>1. RestIsSound(w)'
  BY <1>0 DEF WholeInv, RestIsSound, ExistsLink
<1>2. LabelsDone(w)' /\ ProductDone(w)'
  BY <1>0 DEF WholeInv, LabelsDone, ProductDone
<1>3. EdgesDone(w)'
  BY <1>0 DEF WholeInv, EdgesDone
<1>4. RowsAreMine(w) => RowsAreMine(w)'
  BY <1>0 DEF RowsAreMine
<1>5. ItemsDone(w) => ItemsDone(w)'
  BY <1>0, DoneStaysDone DEF ItemsDone, Resembles
<1> QED BY <1>0, <1>1, <1>2, <1>3, <1>4, <1>5 DEF WholeInv

(* Before it is resolved, and after its end, a request has nothing to show.*)
LEMMA NothingToShow ==
    ASSUME NEW w, pc'[w] \notin Resolved, tx'[w] = NoTx, todo'[w] = NoRows
    PROVE  WholeInv(w)'
BY DEF WholeInv, RestIsSound, LabelsDone, EdgesDone, ProductDone, NoTx, NoRows, Resolved, Walking

(* Resolving establishes what the rest of the request rests on.            *)
LEMMA ResolvesWhole ==
    ASSUME TypeInv, NEW w \in Writer, WalkInv(w), Resolves(w)
    PROVE  WholeInv(w)'
<1>1. /\ pc'[w] = "resolved" /\ request'[w] = request[w] /\ tx'[w] = NoTx /\ todo'[w] = NoRows
      /\ UNCHANGED dbVars
      /\ plan'[w].links = {l \in request[w].links : ~ExistsLink(l)}
      /\ plan'[w].labels = {n \in request[w].labels : ~ \E q \in labels : q.name = n}
  BY ResolvesEffect DEF TypeInv, WalkInv, IsAtRest, Walking
<1>2. RestErrors(request[w]) = {}
  BY DEF Resolves
<1>3. /\ \A l \in request[w].links :
           {l.source, l.target} \subseteq BatchUuids(request[w]) \cup {p.uuid : p \in memories}
      /\ \A t \in request[w].refs : OwnerOf[t] # request[w].group
  BY <1>2 DEF RestErrors
<1>4. \A l : ExistsLink(l)' <=> ExistsLink(l)
  BY <1>1 DEF ExistsLink, dbVars
<1>5. RestIsSound(w)'
  BY <1>1, <1>3, <1>4 DEF RestIsSound, dbVars
<1> QED
  BY <1>1, <1>5 DEF WholeInv, LabelsDone, EdgesDone, ProductDone, NoTx, NoRows, Resolved, Walking

(* The second look under the lock leaves no planned edge out.              *)
LEMMA GraphWhole ==
    ASSUME TypeInv, NEW w \in Writer, Walks(w), EdgesDone(w), GraphWrites(w)
    PROVE  EdgesDone(w)'
<1>0. /\ plan' = plan /\ request' = request /\ links' = links /\ abouts' = abouts
      /\ pc'[w] = "product" /\ ResultUuids(w)' = ResultUuids(w)
      /\ \/ NeedsGraph(w) /\ tx'[w].links = LinkRows(w) /\ tx'[w].abouts = AboutRows(w)
         \/ ~NeedsGraph(w) /\ tx' = tx
  BY GraphEffect DEF TypeInv, dbVars, ResultUuids
<1>1. CASE NeedsGraph(w)
  <2>1. \A k \in LinkRows(w) : k.by = w /\ \E l \in plan[w].links : SameLink(k, l)
    BY DEF LinkRows, NewLinks, SameLink
  <2>2. ASSUME NEW l \in plan[w].links PROVE \E k \in LinkRows(w) \cup links : SameLink(k, l)
    <3> DEFINE k == [source |-> l.source, target |-> l.target, relation |-> l.relation, by |-> w]
    <3>1. CASE ExistsLink(l)
      BY <3>1 DEF ExistsLink, SameLink
    <3>2. CASE ~ExistsLink(l)
      <4>1. k \in LinkRows(w)
        BY <3>2 DEF LinkRows, NewLinks
      <4>2. SameLink(k, l)
        BY DEF SameLink
      <4> QED BY <4>1, <4>2
    <3> QED BY <3>1, <3>2
  <2>3. \A a \in AboutRows(w) :
          a.by = w /\ a.memory \in ResultUuids(w) /\ a.ticket \in request[w].refs
    BY DEF AboutRows, NewAbouts
  <2>4. ASSUME NEW m \in ResultUuids(w), NEW t \in request[w].refs
        PROVE  \E a \in AboutRows(w) \cup abouts : a.memory = m /\ a.ticket = t
    <3> DEFINE a == [memory |-> m, ticket |-> t, by |-> w]
    <3>1. CASE \E b \in abouts : b.memory = m /\ b.ticket = t
      BY <3>1
    <3>2. CASE ~ \E b \in abouts : b.memory = m /\ b.ticket = t
      <4>1. <<m, t>> \in NewAbouts(w)
        BY <3>2 DEF NewAbouts
      <4>2. [memory |-> <<m, t>>[1], ticket |-> <<m, t>>[2], by |-> w] \in AboutRows(w)
        BY <4>1 DEF AboutRows
      <4> QED BY <4>2
    <3> QED BY <3>1, <3>2
  <2> QED BY <1>0, <1>1, <2>1, <2>2, <2>3, <2>4 DEF EdgesDone
<1>2. CASE ~NeedsGraph(w)
  <2>0. tx'[w].links = {} /\ tx'[w].abouts = {}
    BY <1>0, <1>2, GraphEffect DEF EdgesDone, TypeInv
  <2>1. plan[w].links = {} /\ (request[w].refs = {} \/ request[w].items = <<>>)
    BY <1>2 DEF NeedsGraph
  <2>2. request[w].items = <<>> => ResultUuids(w) = {}
    <3> SUFFICES ASSUME request[w].items = <<>> PROVE ResultUuids(w) = {}
      OBVIOUS
    <3>1. DOMAIN request[w].items = {}
      OBVIOUS
    <3>2. Targets(request[w]) = {} /\ Created(request[w]) = {}
      BY <3>1 DEF Targets, Versioned, Created
    <3>3. tx[w].memories = {}
      BY <3>2 DEF Walks, RowsAreMade, Made
    <3> QED BY <3>2, <3>3 DEF ResultUuids
  <2> QED BY <1>0, <2>0, <2>1, <2>2 DEF EdgesDone
<1> QED BY <1>0, <1>1, <1>2

(* Every step of a request preserves what is known of it as a whole.       *)
LEMMA WholeStep ==
    ASSUME TypeInv, NEW w \in Writer, WalkInv(w), HasRead(w), Grows, WriterStep(w), WholeInv(w)
    PROVE  WholeInv(w)'
<1> USE DEF Resolved, Walking
<1>0. TypeOK /\ SavesAVersion
  BY DEF TypeInv
<1>1. CASE Submit(w) \/ LoseAnswer(w) \/ Retry(w)
  BY <1>0, <1>1, ClientEffect, NothingToShow DEF WalkInv, IsAtRest
<1>2. CASE RollsBack(w) \/ Commit(w)
  BY <1>0, <1>2, FinishEffect, NothingToShow DEF RollsBack, Commit
<1>3. CASE Plans(w)
  BY <1>0, <1>3, PlansEffect, NothingToShow DEF WalkInv, IsAtRest
<1>4. ASSUME pc[w] \in Resolved, Script(w)' = Script(w) PROVE RestIsSound(w)'
  BY <1>4 DEF WholeInv, RestIsSound, Script, Grows, ExistsLink
<1>5. CASE StoreBlobs(w)
  <2>1. /\ tx'[w] = NoTx /\ todo'[w] = NoRows /\ cursor'[w] = 1 /\ pc[w] = "resolved"
        /\ pc'[w] = "items" /\ Script(w)' = Script(w) /\ request'[w] = request[w]
    BY <1>0, <1>5 DEF StoreBlobs, WalkInv, IsAtRest, At, Goto, Script, TypeOK
  <2>2. DOMAIN request[w].items \subseteq Nat \ {0}
    BY <1>0, RequestFacts DEF TypeOK
  <2>3. ItemsDone(w)'
    BY <2>1, <2>2 DEF ItemsDone
  <2>4. RowsAreMine(w)'
    BY <2>1 DEF RowsAreMine, Made, Pending, NoTx, NoRows
  <2>5. LabelsDone(w)' /\ EdgesDone(w)' /\ ProductDone(w)'
    BY <2>1 DEF LabelsDone, EdgesDone, ProductDone, NoTx, NoRows
  <2> QED BY <1>4, <2>1, <2>3, <2>4, <2>5 DEF WholeInv
<1>6. CASE ItemStep(w)
  <2>1. /\ Extras(w)' = Extras(w) /\ Script(w)' = Script(w)
        /\ pc[w] \in {"items", "saving"} /\ pc'[w] \in {"items", "saving"}
        /\ pc'[w] = "saving" => cursor'[w] = cursor[w] /\
             (pc[w] = "saving" \/ cursor[w] \in DOMAIN request[w].items)
    BY <1>6, ItemStepKeeps
  <2>2. LabelsDone(w)'
    BY <2>1 DEF WholeInv, LabelsDone, Extras, Script
  <2>3. EdgesDone(w)' /\ ProductDone(w)'
    BY <2>1 DEF WholeInv, EdgesDone, ProductDone, Extras
  <2>4. ItemsDone(w)' /\ RowsAreMine(w)'
    BY <1>6, <2>1, ItemsStep DEF WholeInv, WalkInv
  <2> QED BY <1>4, <2>1, <2>2, <2>3, <2>4 DEF WholeInv
<1>7. ASSUME QuietStep(w) PROVE RestIsSound(w)' /\ ItemsDone(w)' /\ RowsAreMine(w)'
  <2>1. /\ Script(w)' = Script(w) /\ cursor'[w] = cursor[w] /\ Rows(w)' = Rows(w)
        /\ pc[w] \in Walking
    BY <1>0, <1>7, QuietEffect
  <2>2. /\ Pending(w)' = Pending(w) /\ Made(w)' = Made(w) /\ request'[w] = request[w]
    BY <2>1 DEF Rows, Script, Pending, Made
  <2>3. RowsAreMine(w)'
    BY <2>1, <2>2 DEF WholeInv, RowsAreMine
  <2>4. ItemsDone(w)'
    BY <2>1, <2>2, DoneStaysDone DEF WholeInv, ItemsDone, Grows, Resembles
  <2> QED BY <1>4, <2>1, <2>3, <2>4
<1>8. CASE SaveLabels(w) \/ \E n \in todo[w].labels : InsertsLabel(w, n)
  <2>1. /\ tx'[w].links = tx[w].links /\ tx'[w].abouts = tx[w].abouts
        /\ tx'[w].products = tx[w].products /\ pc'[w] = "saving"
        /\ \/ /\ tx'[w].labels = tx[w].labels
              /\ todo'[w].labels = {[name |-> n, by |-> w] : n \in plan[w].labels}
           \/ /\ pc[w] = "saving"
              /\ tx'[w].labels \cup todo'[w].labels = tx[w].labels \cup todo[w].labels
    BY <1>0, <1>8, LabelsEffect
  <2>2. QuietStep(w) /\ pc[w] \in {"items", "saving"}
    BY <1>8 DEF QuietStep, SaveLabels, InsertsLabel, InsertLabel, At
  <2>3. Script(w)' = Script(w) /\ cursor'[w] = cursor[w]
    BY <1>0, <2>2, QuietEffect
  <2>4. ASSUME NEW n \in plan[w].labels,
               todo'[w].labels = {[name |-> x, by |-> w] : x \in plan[w].labels}
        PROVE  \E q \in todo'[w].labels : q.name = n
    <3>1. [name |-> n, by |-> w] \in todo'[w].labels
      BY <2>4
    <3> QED BY <3>1
  <2>5. LabelsDone(w)'
    BY <2>1, <2>3, <2>4 DEF WholeInv, LabelsDone, Script
  <2>6. EdgesDone(w)' /\ ProductDone(w)'
    BY <2>1, <2>2 DEF WholeInv, EdgesDone, ProductDone
  <2> QED BY <1>7, <2>2, <2>5, <2>6 DEF WholeInv
<1>9. CASE Saved(w) /\ cursor[w] \notin DOMAIN request[w].items
  <2>1. tx' = tx /\ todo' = todo /\ plan' = plan /\ request' = request /\ cursor' = cursor
        /\ pc[w] = "saving" /\ pc'[w] = "graph"
    BY <1>0, <1>9 DEF Saved, At, Goto, TypeOK
  <2>2. LabelsDone(w)' /\ EdgesDone(w)' /\ ProductDone(w)'
    BY <1>9, <2>1 DEF WholeInv, LabelsDone, EdgesDone, ProductDone
  <2> QED BY <1>7, <1>9, <2>2 DEF WholeInv, QuietStep
<1>10. CASE GraphWrites(w)
  <2>1. /\ tx'[w].labels = tx[w].labels /\ todo' = todo /\ plan' = plan /\ request' = request
        /\ pc[w] = "graph" /\ pc'[w] = "product"
    BY <1>0, <1>10, GraphEffect
  <2>2. cursor' = cursor
    BY <1>10 DEF GraphWrites
  <2>3. LabelsDone(w)' /\ ProductDone(w)'
    BY <2>1, <2>2 DEF WholeInv, LabelsDone, ProductDone
  <2>4. EdgesDone(w)'
    BY <1>10, <2>1, GraphWhole DEF WholeInv, WalkInv
  <2> QED BY <1>7, <1>10, <2>3, <2>4 DEF WholeInv, QuietStep
<1>11. CASE ProductWrites(w)
  <2>1. /\ tx'[w].labels = tx[w].labels /\ tx'[w].links = tx[w].links
        /\ tx'[w].abouts = tx[w].abouts /\ tx'[w].memories = tx[w].memories
        /\ todo' = todo /\ plan' = plan /\ request' = request
        /\ UNCHANGED dbVars /\ pc[w] = "product" /\ pc'[w] = "commit"
        /\ NeedsProduct(w) =>
             tx'[w].products = {<<request[w].product, BoundInitiative(w)>>} \ productLinks
    BY <1>0, <1>11, ProductEffect
  <2>2. cursor' = cursor /\ ResultUuids(w)' = ResultUuids(w)
    BY <1>11, <2>1 DEF ProductWrites, ResultUuids
  <2>3. LabelsDone(w)'
    BY <2>1, <2>2 DEF WholeInv, LabelsDone
  <2>4. EdgesDone(w)'
    BY <2>1, <2>2 DEF WholeInv, EdgesDone, dbVars
  <2>5. ProductDone(w)'
    BY <2>1 DEF ProductDone, NeedsProduct, BoundInitiative, dbVars
  <2> QED BY <1>7, <1>11, <2>3, <2>4, <2>5 DEF WholeInv, QuietStep
<1> QED
  BY <1>1, <1>2, <1>3, <1>5, <1>6, <1>8, <1>9, <1>10, <1>11, WorkCases, ResolvesWhole DEF WriterStep

(* What is known of every request as a whole.                              *)
AllWhole == \A w \in Writer : WholeInv(w)

(* It holds of every request, at every state.                              *)
LEMMA WholeInvHolds == Spec => []AllWhole
<1>1. Init => AllWhole
  BY DEF Init, AllWhole, WholeInv, RestIsSound, LabelsDone, EdgesDone, ProductDone, NoTx, NoRows,
         Resolved, Walking
<1>2. TypeInv /\ AllWalk /\ StoreInv /\ AllWhole /\ [Next]_vars => AllWhole'
  <2> SUFFICES ASSUME TypeInv, AllWalk, StoreInv, AllWhole, [Next]_vars, NEW u \in Writer
               PROVE  WholeInv(u)'
    BY DEF AllWhole
  <2>1. Grows /\ WholeInv(u) /\ WalkInv(u) /\ HasRead(u)
    BY TablesGrow DEF AllWhole, AllWalk, StoreInv, TypeInv
  <2>2. CASE UNCHANGED vars
    BY <2>1, <2>2, WholeFrame DEF vars, Own
  <2>3. ASSUME NEW w \in Writer, WriterStep(w) PROVE WholeInv(u)'
    BY <2>1, <2>3, WholeStep, WholeFrame, OthersKeep DEF Others, TypeInv
  <2> QED BY <2>2, <2>3, WriterSteps
<1> QED BY <1>1, <1>2, TypeInvHolds, WalkInvHolds, StoreInvHolds, PTL DEF Spec

-----------------------------------------------------------------------------
(***************************************************************************)
(* The commit.                                                             *)
(***************************************************************************)

(* At its commit every item of a request is done.                          *)
LEMMA AllItemsDone ==
    ASSUME TypeInv, NEW w \in Writer, WalkInv(w), WholeInv(w), Commit(w)
    PROVE  /\ \A i \in DOMAIN request[w].items : ItemIsDone(w, i)
           /\ cursor[w] \notin DOMAIN request[w].items
           /\ Pending(w) = tx[w].versions /\ Made(w) = tx[w].memories
           /\ tx[w].versions \subseteq versions' /\ memories' = memories \cup tx[w].memories
           /\ request' = request /\ pc[w] = "commit" /\ todo[w] = NoRows
           /\ RowsAreMine(w) /\ answer'[w] = "ok"
<1>1. /\ cursor[w] \notin DOMAIN request[w].items /\ pc[w] = "commit" /\ todo[w] = NoRows
      /\ Pending(w) = tx[w].versions /\ Made(w) = tx[w].memories
      /\ tx[w].versions \subseteq versions' /\ memories' = memories \cup tx[w].memories
  BY CommitEffect
<1>2. ItemsDone(w) /\ RowsAreMine(w)
  BY <1>1 DEF WholeInv, Walking
<1>3. request[w].items \in Seq(Item) /\ cursor[w] \in Nat \ {0}
  BY RequestFacts DEF TypeInv, TypeOK
<1>4. \A i \in DOMAIN request[w].items : i < cursor[w]
  <2>1. DOMAIN request[w].items = 1 .. Len(request[w].items) /\ Len(request[w].items) \in Nat
    BY <1>3
  <2> QED BY <1>1, <1>3, <2>1
<1>5. request' = request /\ answer'[w] = "ok"
  BY DEF Commit, Finish, TypeInv, TypeOK
<1> QED BY <1>1, <1>2, <1>4, <1>5 DEF ItemsDone

(* The memories a commit answers with are stored, in the request's group.  *)
LEMMA ResultsAreStored ==
    ASSUME TypeInv, NEW w \in Writer, WalkInv(w), WholeInv(w), HasRead(w), Commit(w)
    PROVE  \A m \in ResultUuids(w) :
             \/ \E p \in memories : p.uuid = m /\ p.group = request[w].group
             \/ \E p \in tx[w].memories : p.uuid = m /\ p.group = request[w].group
<1>1. RowsAreMine(w) /\ Made(w) = tx[w].memories /\ pc[w] \in Planned
  BY AllItemsDone DEF Planned, Walking
<1> QED BY <1>1 DEF ResultUuids, RowsAreMine, HasRead

(* Every memory the batch names is stored with it.                         *)
LEMMA BatchIsStored ==
    ASSUME TypeInv, NEW w \in Writer, WalkInv(w), WholeInv(w), HasRead(w), Commit(w),
           NEW m \in BatchUuids(request[w])
    PROVE  \E p \in memories' : p.uuid = m
<1>1. PICK i \in DOMAIN request[w].items : request[w].items[i].uuid = m /\ m # Nobody
  BY DEF BatchUuids
<1>2. ItemIsDone(w, i) /\ Made(w) = tx[w].memories /\ memories' = memories \cup tx[w].memories
      /\ pc[w] \in Planned
  BY AllItemsDone DEF Planned, Walking
<1>3. CASE i \in Versioned(request[w])
  BY <1>1, <1>2, <1>3 DEF HasRead, Targets
<1>4. CASE i \in Created(request[w])
  BY <1>1, <1>2, <1>4 DEF ItemIsDone
<1> QED BY <1>3, <1>4 DEF Created

(* What the edges a commit adds are.                                       *)
LEMMA NewEdges ==
    ASSUME TypeInv, NEW w \in Writer, WholeInv(w), Commit(w)
    PROVE  /\ links' = links \cup tx[w].links /\ abouts' = abouts \cup tx[w].abouts
           /\ \A k \in tx[w].links : k.by = w /\
                \E l \in request[w].links : SameLink(k, l) /\
                  {l.source, l.target} \subseteq BatchUuids(request[w]) \cup {p.uuid : p \in memories}
           /\ \A a \in tx[w].abouts :
                a.by = w /\ a.memory \in ResultUuids(w) /\ OwnerOf[a.ticket] # request[w].group
<1>1. /\ links' = links \cup tx[w].links /\ abouts' = abouts \cup tx[w].abouts /\ pc[w] = "commit"
  BY DEF Commit, At
<1>2. EdgesDone(w) /\ RestIsSound(w)
  BY DEF WholeInv
<1> QED BY <1>1, <1>2 DEF EdgesDone, RestIsSound, Resolved, Walking

(* No edge hangs from a memory that was never committed, although links    *)
(* are resolved, and may name memories of their own batch, long before     *)
(* anything is stored.                                                     *)
THEOREM EdgesAlwaysJoinMemories == Spec => []EdgesJoinMemories
<1>1. Init => EdgesJoinMemories
  BY DEF Init, EdgesJoinMemories
<1>2. TypeInv /\ AllWalk /\ StoreInv /\ AllWhole /\ EdgesJoinMemories /\ [Next]_vars => EdgesJoinMemories'
  <2> SUFFICES ASSUME TypeInv, AllWalk, StoreInv, AllWhole, EdgesJoinMemories, [Next]_vars
               PROVE  EdgesJoinMemories'
    OBVIOUS
  <2>1. ASSUME NEW w \in Writer, Commit(w) PROVE EdgesJoinMemories'
    <3>0. WalkInv(w) /\ WholeInv(w) /\ HasRead(w) /\ memories' = memories \cup tx[w].memories
      BY <2>1, AllItemsDone DEF AllWalk, AllWhole, StoreInv
    <3> DEFINE stored == {p.uuid : p \in memories'}
    <3>1. ASSUME NEW k \in tx[w].links PROVE {k.source, k.target} \subseteq stored
      <4>1. PICK l \in request[w].links : SameLink(k, l) /\
              {l.source, l.target} \subseteq BatchUuids(request[w]) \cup {p.uuid : p \in memories}
        BY <2>1, <3>0, <3>1, NewEdges
      <4>2. BatchUuids(request[w]) \subseteq stored
        BY <2>1, <3>0, BatchIsStored
      <4> QED BY <3>0, <4>1, <4>2 DEF SameLink
    <3>2. ASSUME NEW a \in tx[w].abouts PROVE a.memory \in stored
      BY <2>1, <3>0, <3>2, NewEdges, ResultsAreStored
    <3>3. links' = links \cup tx[w].links /\ abouts' = abouts \cup tx[w].abouts
      BY <2>1, <3>0, NewEdges
    <3> QED BY <3>0, <3>1, <3>2, <3>3 DEF EdgesJoinMemories
  <2>2. CASE UNCHANGED dbVars
    BY <2>2 DEF EdgesJoinMemories, dbVars
  <2> QED BY <2>1, <2>2, OnlyCommitWrites
<1> QED BY <1>1, <1>2, TypeInvHolds, WalkInvHolds, StoreInvHolds, WholeInvHolds, PTL DEF Spec

(* A memory never refers to a ticket of its own group: the group of a      *)
(* version's memory, or of a memory stored with the reference, is that of  *)
(* the request, and no reference of a request is to its group's ticket.    *)
THEOREM NoMemoryIsAboutItsGroup == Spec => []NoAboutOwnTicket
<1>1. Init => NoAboutOwnTicket
  BY DEF Init, NoAboutOwnTicket
<1>2. /\ TypeInv /\ AllWalk /\ StoreInv /\ AllWhole /\ EdgesJoinMemories /\ SubjectsAreUnique
      /\ NoAboutOwnTicket /\ [Next]_vars
      => NoAboutOwnTicket'
  <2> SUFFICES ASSUME TypeInv, AllWalk, StoreInv, AllWhole, EdgesJoinMemories, SubjectsAreUnique,
                      NoAboutOwnTicket, [Next]_vars
               PROVE  NoAboutOwnTicket'
    OBVIOUS
  <2>1. ASSUME NEW w \in Writer, Commit(w), NEW a \in abouts', NEW p \in memories', p.uuid = a.memory
        PROVE  OwnerOf[a.ticket] # p.group
    <3>0. /\ WalkInv(w) /\ WholeInv(w) /\ HasRead(w) /\ memories' = memories \cup tx[w].memories
          /\ RowsAreMine(w) /\ Made(w) = tx[w].memories
      BY <2>1, AllItemsDone DEF AllWalk, AllWhole, StoreInv
    <3>1. \A q \in tx[w].memories : q.group = request[w].group /\ \A x \in memories : q.uuid # x.uuid
      BY <3>0 DEF RowsAreMine, StoreInv, NewMemoriesAreNew
    <3>2. CASE a \in abouts
      <4>1. PICK q \in memories : q.uuid = a.memory
        BY <3>2 DEF EdgesJoinMemories
      <4>2. p \in memories
        BY <2>1, <3>0, <3>1, <4>1
      <4> QED BY <2>1, <3>2, <4>2 DEF NoAboutOwnTicket
    <3>3. CASE a \in tx[w].abouts
      <4>1. a.memory \in ResultUuids(w) /\ OwnerOf[a.ticket] # request[w].group
        BY <2>1, <3>0, <3>3, NewEdges
      <4>2. p.group = request[w].group
        <5>1. CASE p \in tx[w].memories
          BY <3>1, <5>1
        <5>2. CASE p \in memories
          <6>1. \E q \in memories : q.uuid = a.memory /\ q.group = request[w].group
            BY <2>1, <3>0, <3>1, <4>1, <5>2, ResultsAreStored
          <6>2. PICK q \in memories : q.uuid = a.memory /\ q.group = request[w].group
            BY <6>1
          <6>3. p = q
            BY <2>1, <5>2, <6>2 DEF SubjectsAreUnique, SameMemoryKey
          <6> QED BY <6>2, <6>3
        <5> QED BY <3>0, <5>1, <5>2
      <4> QED BY <4>1, <4>2
    <3> QED BY <2>1, <3>0, <3>2, <3>3, NewEdges
  <2>2. CASE UNCHANGED dbVars
    BY <2>2 DEF NoAboutOwnTicket, dbVars
  <2>3. (\E w \in Writer : Commit(w)) => NoAboutOwnTicket'
    BY <2>1 DEF NoAboutOwnTicket
  <2> QED BY <2>2, <2>3, OnlyCommitWrites
<1> QED
  BY <1>1, <1>2, TypeInvHolds, WalkInvHolds, StoreInvHolds, WholeInvHolds, SubjectsStayUnique,
     EdgesAlwaysJoinMemories, PTL DEF Spec

-----------------------------------------------------------------------------
(***************************************************************************)
(* All of a request or nothing.                                            *)
(***************************************************************************)

(* What is stored for a request stays stored while the tables grow.        *)
LEMMA StoredStaysStored ==
    ASSUME NEW w, Grows, request'[w] = request[w], WholeRequestStored(w)
    PROVE  WholeRequestStored(w)'
<1> DEFINE r == request[w]
<1>1. \A m, v : v \in VersionsOf(m) => \E u \in versions' :
                   u.memory = m /\ u.version = v.version /\ u.claim = v.claim
  BY DEF Grows, VersionsOf
<1>2. \A l : ExistsLink(l) => ExistsLink(l)'
  BY DEF Grows, ExistsLink
<1>3. \A i \in Versioned(r) : \E u \in versions' : u.memory = r.items[i].uuid /\ u.claim = r.items[i].claim
  BY <1>1 DEF WholeRequestStored
<1>4. ASSUME NEW i \in Created(r)
      PROVE  \E p \in memories' :
               /\ p.group = r.group /\ p.slug = r.items[i].slug
               /\ \E u \in versions' : u.memory = p.uuid /\ u.version = 1 /\ u.claim = r.items[i].claim
               /\ \A t \in r.refs : \E a \in abouts' : a.memory = p.uuid /\ a.ticket = t
  <2>1. PICK p \in memories :
               /\ p.group = r.group /\ p.slug = r.items[i].slug
               /\ \E v \in VersionsOf(p.uuid) : v.version = 1 /\ v.claim = r.items[i].claim
               /\ \A t \in r.refs : \E a \in abouts : a.memory = p.uuid /\ a.ticket = t
    BY <1>4 DEF WholeRequestStored
  <2>2. \E u \in versions' : u.memory = p.uuid /\ u.version = 1 /\ u.claim = r.items[i].claim
    BY <1>1, <2>1
  <2>3. p \in memories' /\ abouts \subseteq abouts'
    BY DEF Grows
  <2> QED BY <2>1, <2>2, <2>3
<1>5. /\ \A l \in r.links : ExistsLink(l)'
      /\ \A n \in r.labels : \E q \in labels' : q.name = n
      /\ \A t \in r.refs, i \in Versioned(r) :
           \E a \in abouts' : a.memory = r.items[i].uuid /\ a.ticket = t
      /\ r.product # Nobody /\ InitiativeOf[r.group] # Nobody
           => <<r.product, InitiativeOf[r.group]>> \in productLinks'
  BY <1>2 DEF WholeRequestStored, Grows
<1> HIDE DEF r
<1>6. request'[w] = r
  BY DEF r
<1> QED BY <1>3, <1>4, <1>5, <1>6 DEF WholeRequestStored, VersionsOf

(* A commit stores everything that its request asked for.                  *)
LEMMA CommitStoresAll ==
    ASSUME TypeInv, NEW w \in Writer, WalkInv(w), WholeInv(w), Grows, Commit(w)
    PROVE  WholeRequestStored(w)'
<1> DEFINE r == request[w]
<1>1. /\ \A i \in DOMAIN r.items : ItemIsDone(w, i)
      /\ cursor[w] \notin DOMAIN r.items
      /\ Pending(w) = tx[w].versions /\ Made(w) = tx[w].memories
      /\ tx[w].versions \subseteq versions' /\ memories' = memories \cup tx[w].memories
      /\ request'[w] = r /\ pc[w] = "commit" /\ todo[w] = NoRows /\ RowsAreMine(w)
  BY AllItemsDone
<1>2. /\ labels' = labels \cup tx[w].labels /\ links' = links \cup tx[w].links
      /\ abouts' = abouts \cup tx[w].abouts /\ productLinks' = productLinks \cup tx[w].products
  BY DEF Commit
<1>3. /\ RestIsSound(w) /\ LabelsDone(w) /\ EdgesDone(w) /\ ProductDone(w)
  BY DEF WholeInv
<1>4. \A v \in versions : \E u \in versions' : u.memory = v.memory /\ u.claim = v.claim
  BY DEF Grows
<1>5. Pending(w) \subseteq versions'
  BY <1>1
<1>6. ASSUME NEW m \in ResultUuids(w), NEW t \in r.refs
      PROVE  \E a \in abouts' : a.memory = m /\ a.ticket = t
  BY <1>1, <1>2, <1>3, <1>6 DEF EdgesDone
<1>7. ASSUME NEW i \in Versioned(r)
      PROVE  /\ \E u \in versions' : u.memory = r.items[i].uuid /\ u.claim = r.items[i].claim
             /\ \A t \in r.refs : \E a \in abouts' : a.memory = r.items[i].uuid /\ a.ticket = t
  <2>1. ItemIsDone(w, i) /\ r.items[i].uuid \in ResultUuids(w)
    BY <1>1, <1>7 DEF Versioned, ResultUuids, Targets
  <2>2. PICK v \in Pending(w) \cup versions : v.memory = r.items[i].uuid /\ v.claim = r.items[i].claim
    BY <1>7, <2>1 DEF ItemIsDone
  <2> QED BY <1>4, <1>5, <1>6, <2>1, <2>2
<1>8. ASSUME NEW i \in Created(r)
      PROVE  \E p \in memories' :
               /\ p.group = r.group /\ p.slug = r.items[i].slug
               /\ \E u \in versions' : u.memory = p.uuid /\ u.version = 1 /\ u.claim = r.items[i].claim
               /\ \A t \in r.refs : \E a \in abouts' : a.memory = p.uuid /\ a.ticket = t
  <2>1. ItemIsDone(w, i)
    BY <1>1, <1>8 DEF Created
  <2>2. PICK p \in Made(w) : p.slug = r.items[i].slug /\
          \E v \in Pending(w) : v.memory = p.uuid /\ v.version = 1 /\ v.claim = r.items[i].claim
    BY <1>8, <2>1 DEF ItemIsDone
  <2>3. p \in memories' /\ p.group = r.group /\ p.uuid \in ResultUuids(w)
    BY <1>1, <2>2 DEF RowsAreMine, ResultUuids
  <2>4. \A t \in r.refs : \E a \in abouts' : a.memory = p.uuid /\ a.ticket = t
    BY <1>6, <2>3
  <2>5. \E u \in versions' : u.memory = p.uuid /\ u.version = 1 /\ u.claim = r.items[i].claim
    BY <1>5, <2>2
  <2> QED BY <2>2, <2>3, <2>4, <2>5
<1>9. ASSUME NEW l \in r.links PROVE ExistsLink(l)'
  BY <1>1, <1>2, <1>3, <1>9
     DEF RestIsSound, EdgesDone, ExistsLink, SameLink, Resolved, Walking
<1>10. ASSUME NEW n \in r.labels PROVE \E q \in labels' : q.name = n
  BY <1>1, <1>2, <1>3, <1>10 DEF RestIsSound, LabelsDone, NoRows, Resolved, Walking
<1>11. r.product # Nobody /\ InitiativeOf[r.group] # Nobody
         => <<r.product, InitiativeOf[r.group]>> \in productLinks'
  BY <1>1, <1>2, <1>3 DEF ProductDone, NeedsProduct, BoundInitiative
<1> HIDE DEF r
<1> QED BY <1>1, <1>7, <1>8, <1>9, <1>10, <1>11 DEF WholeRequestStored, VersionsOf

(* The rows that another request commits are its own.                      *)
LEMMA CommitShowsOnlyItself ==
    ASSUME TypeInv, NEW w \in Writer, WalkInv(w), WholeInv(w), Commit(w),
           NEW row \in (memories \cup versions \cup labels \cup links \cup abouts)'
    PROVE  row.by = w \/ \E old \in memories \cup versions \cup labels \cup links \cup abouts :
                            old.by = row.by
<1>1. /\ Pending(w) = tx[w].versions /\ Made(w) = tx[w].memories
      /\ memories' = memories \cup tx[w].memories
      /\ pc[w] = "commit" /\ todo[w] = NoRows /\ RowsAreMine(w)
  BY AllItemsDone
<1>2. /\ versions' = Flipped(versions, tx[w].flips) \cup tx[w].versions
      /\ labels' = labels \cup tx[w].labels /\ links' = links \cup tx[w].links
      /\ abouts' = abouts \cup tx[w].abouts
  BY DEF Commit
<1>3. LabelsDone(w) /\ EdgesDone(w)
  BY DEF WholeInv
<1>4. \A q \in tx[w].labels \cup tx[w].links \cup tx[w].abouts : q.by = w
  BY <1>1, <1>3 DEF LabelsDone, EdgesDone
<1>5. \A q \in tx[w].memories \cup tx[w].versions : q.by = w
  BY <1>1 DEF RowsAreMine
<1>6. ASSUME row \in Flipped(versions, tx[w].flips) PROVE \E u \in versions : u.by = row.by
  <2>1. versions \in SUBSET VersionRow
    BY DEF TypeInv, TypeOK
  <2>2. PICK u \in versions : Resembles(row, u)
    BY <1>6, <2>1, FlippedSource
  <2> QED BY <2>2 DEF Resembles
<1> QED BY <1>1, <1>2, <1>4, <1>5, <1>6

(* A request that has not been sent has no effect.                         *)
Untouched(w) == pc[w] = "idle" => ~HasEffect(w)

(* The effect of a request is that of its commit.                          *)
LEMMA OnlyCommitHasEffect ==
    ASSUME TypeInv, NEW w \in Writer, WriterStep(w), WalkInv(w), WholeInv(w),
           NEW u \in Writer, HasEffect(u)', ~(u = w /\ Commit(w))
    PROVE  HasEffect(u)
<1>0. TypeOK
  BY DEF TypeInv
<1>1. CASE \E row \in (memories \cup versions \cup labels \cup links \cup abouts)' : row.by = u
  <2>1. PICK row \in (memories \cup versions \cup labels \cup links \cup abouts)' : row.by = u
    BY <1>1
  <2>2. CASE Commit(w)
    BY <2>1, <2>2, CommitShowsOnlyItself DEF HasEffect
  <2>3. CASE ~Commit(w)
    <3>1. UNCHANGED dbVars
      BY <2>3, OverlaySteps
    <3> QED BY <2>1, <3>1 DEF dbVars, HasEffect
  <2> QED BY <2>2, <2>3
<1>2. CASE answer'[u] = "ok"
  <2>1. CASE u # w
    <3>1. answer'[u] = answer[u]
      BY <1>0, <2>1, OthersKeep DEF Others, Own
    <3> QED BY <1>2, <3>1 DEF HasEffect
  <2>2. CASE u = w
    <3>1. ~Commit(w)
      BY <2>2
    <3>2. CASE RollsBack(w)
      BY <1>0, <1>2, <2>2, <3>2, FinishEffect DEF RollsBack, Refusals
    <3>3. CASE WorkStep(w)
      <4>1. answer' = answer
        BY <3>3 DEF WorkStep, Plans, PlanItems, Resolves, PlanRest, StoreBlobs, CreateNew, KeepUnchanged,
             VersionExisting, SaveLabels, Flips, FlipCurrent, InsertsMemory, InsertMemory,
             InsertsVersion, InsertVersion, InsertsLabel, InsertLabel, Saved, GraphWrites, ProductWrites
      <4> QED BY <1>2, <2>2, <4>1 DEF HasEffect
    <3>4. CASE Submit(w)
      BY <1>2, <2>2, <3>4 DEF Submit, HasEffect
    <3>5. CASE LoseAnswer(w) \/ Retry(w)
      <4>1. answer'[w] # "ok"
        BY <1>0, <3>5 DEF LoseAnswer, Retry, TypeOK
      <4> QED BY <1>2, <2>2, <4>1
    <3> QED BY <3>1, <3>2, <3>3, <3>4, <3>5 DEF WriterStep
  <2> QED BY <2>1, <2>2
<1> QED BY <1>1, <1>2 DEF HasEffect

(* A step of w keeps what any request asked for, but for one not yet sent. *)
LEMMA RequestsStay ==
    ASSUME TypeInv, NEW w \in Writer, WriterStep(w), NEW u \in Writer, pc[u] # "idle"
    PROVE  request'[u] = request[u] /\ pc'[u] # "idle"
<1>0. TypeOK
  BY DEF TypeInv
<1>1. CASE u # w
  BY <1>0, <1>1, OthersKeep DEF Others, Own
<1>2. CASE u = w
  <2>1. CASE Submit(w) \/ LoseAnswer(w) \/ Retry(w)
    BY <1>0, <1>2, <2>1, ClientEffect
  <2>2. CASE RollsBack(w) \/ Commit(w)
    BY <1>0, <1>2, <2>2, FinishEffect DEF RollsBack, Commit
  <2>3. CASE Plans(w)
    BY <1>0, <1>2, <2>3, PlansEffect
  <2>4. CASE WorkStep(w) /\ ~Plans(w)
    <3>1. request'[w] = request[w]
      BY <2>4, WorkKeepsPlan DEF SameRead
    <3>2. pc'[w] # "idle"
      <4> USE <1>0 DEF TypeOK, At, Goto
      <4>1. CASE Resolves(w)
        BY <4>1, ResolvesEffect
      <4>2. CASE StoreBlobs(w) \/ CreateNew(w) \/ KeepUnchanged(w) \/ VersionExisting(w) \/ SaveLabels(w)
        BY <4>2 DEF StoreBlobs, CreateNew, KeepUnchanged, VersionExisting, SaveLabels, InItems
      <4>3. CASE GraphWrites(w) \/ ProductWrites(w) \/ Saved(w)
        BY <4>3 DEF GraphWrites, ProductWrites, Saved
      <4>4. ASSUME NEW x, Flips(w, x) \/ InsertsMemory(w, x) \/ InsertsVersion(w, x) \/ InsertsLabel(w, x)
            PROVE  pc'[w] # "idle"
        BY <4>4 DEF Flips, FlipCurrent, InsertsMemory, InsertMemory, InsertsVersion, InsertVersion,
              InsertsLabel, InsertLabel
      <4> QED BY <2>4, <4>1, <4>2, <4>3, <4>4 DEF WorkStep
    <3> QED BY <1>2, <3>1, <3>2
  <2> QED BY <2>1, <2>2, <2>3, <2>4 DEF WriterStep
<1> QED BY <1>1, <1>2

(* A request is stored whole or not at all, however it raced, was refused, *)
(* rolled back or retried: when any row of it is visible, or it was told   *)
(* "ok", all its items, links, labels, references and its product binding  *)
(* are in the store, and stay there.                                       *)
THEOREM AllOfARequestOrNothing == Spec => []AllOrNothing
<1> DEFINE Inv == AllOrNothing /\ \A w \in Writer : Untouched(w)
<1>1. Init => Inv
  <2> SUFFICES ASSUME Init, NEW w \in Writer PROVE ~HasEffect(w)
    BY DEF AllOrNothing, Untouched
  <2>1. answer[w] = "none" /\ labels = {} /\ links = {} /\ abouts = {} /\ Nobody # w
    BY ConstantsAreTyped DEF Init
  <2>2. \A row \in memories \cup versions : row.by = Nobody
    BY DEF Init
  <2> QED BY <2>1, <2>2 DEF HasEffect
<1>2. TypeInv /\ AllWalk /\ AllWhole /\ Inv /\ [Next]_vars => Inv'
  <2> SUFFICES ASSUME TypeInv, AllWalk, AllWhole, Inv, [Next]_vars, NEW u \in Writer
               PROVE  (HasEffect(u)' => WholeRequestStored(u)') /\ Untouched(u)'
    BY DEF AllOrNothing
  <2>0. Grows /\ Untouched(u) /\ (HasEffect(u) => WholeRequestStored(u))
    BY TablesGrow DEF TypeInv, AllOrNothing
  <2>1. CASE UNCHANGED vars
    BY <2>0, <2>1 DEF vars, Untouched, HasEffect, WholeRequestStored, VersionsOf, ExistsLink
  <2>2. ASSUME NEW w \in Writer, WriterStep(w)
        PROVE  (HasEffect(u)' => WholeRequestStored(u)') /\ Untouched(u)'
    <3>0. WalkInv(w) /\ WholeInv(w)
      BY DEF AllWalk, AllWhole
    <3>1. CASE u = w /\ Commit(w)
      <4>1. WholeRequestStored(u)'
        BY <2>0, <3>0, <3>1, CommitStoresAll
      <4>2. pc'[u] = "done"
        BY <3>1, FinishEffect DEF Commit, TypeInv
      <4> QED BY <4>1, <4>2 DEF Untouched
    <3>2. CASE ~(u = w /\ Commit(w))
      <4>1. HasEffect(u)' => HasEffect(u)
        BY <2>2, <3>0, <3>2, OnlyCommitHasEffect
      <4>2. HasEffect(u) => pc[u] # "idle"
        BY <2>0 DEF Untouched
      <4>3. HasEffect(u)' => request'[u] = request[u] /\ pc'[u] # "idle" /\ WholeRequestStored(u)
        BY <2>0, <2>2, <4>1, <4>2, RequestsStay
      <4>4. HasEffect(u)' => WholeRequestStored(u)'
        BY <2>0, <4>3, StoredStaysStored
      <4> QED BY <4>3, <4>4 DEF Untouched
    <3> QED BY <3>1, <3>2
  <2> QED BY <2>1, <2>2, WriterSteps
<1>3. Inv => AllOrNothing
  OBVIOUS
<1> HIDE DEF Inv
<1> QED BY <1>1, <1>2, <1>3, TypeInvHolds, WalkInvHolds, WholeInvHolds, PTL DEF Spec

=============================================================================
