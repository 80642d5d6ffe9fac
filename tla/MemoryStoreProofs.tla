------------------------- MODULE MemoryStoreProofs -------------------------
(***************************************************************************)
(* Theorems about MemoryStore, for any set of writers, any store and any   *)
(* set of requests: type correctness, the append-only history, the         *)
(* uniqueness of subjects and of edges, and the inductive invariant of the *)
(* walk of a request over its items, which the other modules of proofs     *)
(* build on.                                                               *)
(***************************************************************************)
EXTENDS MemoryStore, TLAPS

-----------------------------------------------------------------------------
(***************************************************************************)
(* Requests.                                                               *)
(***************************************************************************)

(* What the validator guarantees of a request, said of every value that    *)
(* request[w] can have.                                                    *)
LEMMA RequestFacts ==
    ASSUME NEW r \in Request \cup {NoRequest}
    PROVE  /\ r.items \in Seq(Item)
           /\ DOMAIN r.items \subseteq Nat \ {0}
           /\ \A i \in DOMAIN r.items : r.items[i] \in Item /\ r.group \in Group
           /\ r.links \subseteq Triple
           /\ r.labels \subseteq Label
           /\ r.refs \subseteq Ticket
           /\ r.product # Nobody => r.product \in Product /\ r.group \in Group
           /\ Targets(r) \subseteq Memory
           /\ \A i \in Versioned(r) : r.items[i].uuid \in Memory
           /\ \A i \in Created(r) :
                r.items[i].kind # "mint" => r.items[i].uuid \in Memory
<1>1. CASE r = NoRequest
  <2>1. r.items = <<>> /\ DOMAIN r.items = {}
    BY <1>1 DEF NoRequest
  <2>2. Targets(r) = {} /\ Versioned(r) = {} /\ Created(r) = {}
    BY <2>1 DEF Targets, Versioned, Created
  <2>3. <<>> \in Seq(Item)
    OBVIOUS
  <2>4. /\ r.links = {} /\ r.labels = {} /\ r.refs = {} /\ r.product = Nobody
    BY <1>1 DEF NoRequest
  <2> QED BY <2>1, <2>2, <2>3, <2>4
<1>2. CASE r \in Request
  <2>1. /\ r.group \in Group /\ r.items \in Seq(Item)
        /\ r.links \subseteq Triple /\ r.labels \subseteq Label
        /\ r.refs \subseteq Ticket /\ r.product \in Product \cup {Nobody}
        /\ \A i \in DOMAIN r.items :
              (r.items[i].kind = "mint") <=> (r.items[i].uuid = Nobody)
    BY <1>2, RequestsAreValid
  <2>2. DOMAIN r.items = 1 .. Len(r.items) /\ Len(r.items) \in Nat
    BY <2>1
  <2>3. \A i \in DOMAIN r.items : r.items[i] \in Item
    BY <2>1, <2>2
  <2>4. \A i \in DOMAIN r.items : r.items[i].kind # "mint" => r.items[i].uuid \in Memory
    BY <2>1, <2>3 DEF Item
  <2>5. \A i \in Versioned(r) : r.items[i].uuid \in Memory
    BY <2>4 DEF Versioned
  <2> QED BY <2>1, <2>2, <2>3, <2>4, <2>5 DEF Targets, Created
<1> QED BY <1>1, <1>2

-----------------------------------------------------------------------------
(***************************************************************************)
(* Type correctness.                                                       *)
(***************************************************************************)

LEMMA ZeroIsTyped == NoPlan \in Plan /\ NoRows \in RowSets /\ NoTx \in Overlay
BY DEF NoPlan, Plan, NoRows, RowSets, NoTx, Overlay

(* Replacing one table of an overlay, or of what is still to be saved.     *)
LEMMA RowSetsUpdate ==
    ASSUME NEW R \in RowSets
    PROVE  /\ \A X \in SUBSET Key : [R EXCEPT !.flips = X] \in RowSets
           /\ \A X \in SUBSET MemoryRow : [R EXCEPT !.memories = X] \in RowSets
           /\ \A X \in SUBSET VersionRow : [R EXCEPT !.versions = X] \in RowSets
           /\ \A X \in SUBSET LabelRow : [R EXCEPT !.labels = X] \in RowSets
           /\ R.flips \subseteq Key /\ R.memories \subseteq MemoryRow
           /\ R.versions \subseteq VersionRow /\ R.labels \subseteq LabelRow
BY DEF RowSets

LEMMA OverlayUpdate ==
    ASSUME NEW R \in Overlay
    PROVE  /\ \A X \in SUBSET Key : [R EXCEPT !.flips = X] \in Overlay
           /\ \A X \in SUBSET MemoryRow : [R EXCEPT !.memories = X] \in Overlay
           /\ \A X \in SUBSET VersionRow : [R EXCEPT !.versions = X] \in Overlay
           /\ \A X \in SUBSET LabelRow : [R EXCEPT !.labels = X] \in Overlay
           /\ \A X \in SUBSET (Product \X Initiative) : [R EXCEPT !.products = X] \in Overlay
           /\ R.flips \subseteq Key /\ R.memories \subseteq MemoryRow
           /\ R.versions \subseteq VersionRow /\ R.labels \subseteq LabelRow
           /\ R.links \subseteq LinkRow /\ R.abouts \subseteq AboutRow
           /\ R.products \subseteq Product \X Initiative
BY DEF Overlay

LEMMA InitTypes == Init => TypeOK
<1> SUFFICES ASSUME Init PROVE TypeOK
  OBVIOUS
<1>1. memories \subseteq MemoryRow
  BY SeedIsAStore DEF Init, MemoryRow, Author
<1>2. versions \subseteq VersionRow
  <2> SUFFICES ASSUME NEW v \in versions PROVE v \in VersionRow
    OBVIOUS
  <2> PICK s \in Seed : v = [memory |-> s.uuid, version |-> 1, claim |-> SeedClaim,
                            current |-> TRUE, by |-> Nobody]
    BY DEF Init
  <2>1. s.uuid \in Memory
    BY SeedIsAStore
  <2> QED BY <2>1, ConstantsAreTyped DEF VersionRow, Author
<1>3. blobs \subseteq Blob
  BY ConstantsAreTyped DEF Init, Blob
<1>4. /\ labels \subseteq LabelRow /\ links \subseteq LinkRow /\ abouts \subseteq AboutRow
      /\ productLinks \subseteq Product \X Initiative
  BY DEF Init
<1>5. /\ pc \in [Writer -> Places] /\ answer \in [Writer -> Answers]
      /\ request \in [Writer -> Request \cup {NoRequest}]
      /\ cursor \in [Writer -> Nat \ {0}] /\ cur \in [Writer -> [Memory -> Nat]]
      /\ locks \in [Writer -> SUBSET {"graph", "product"}]
  BY DEF Init, Places, Answers
<1>6. /\ plan \in [Writer -> Plan] /\ todo \in [Writer -> RowSets] /\ tx \in [Writer -> Overlay]
  BY ZeroIsTyped DEF Init
<1>7. attempts \in [Writer -> 0 .. MaxAttempts]
  <2>1. 0 \in 0 .. MaxAttempts
    BY ConstantsAreTyped
  <2> QED BY <2>1 DEF Init
<1> QED
  BY <1>1, <1>2, <1>3, <1>4, <1>5, <1>6, <1>7 DEF TypeOK

(* While SaveChanges runs inside the walk, the walk stands at a version.   *)
SavesAVersion ==
    \A w \in Writer :
        At(w, "saving") /\ cursor[w] \in DOMAIN request[w].items
            => cursor[w] \in Versioned(request[w])

(* Ending a request resets its own variables and nothing else.             *)
LEMMA FinishTypes ==
    ASSUME TypeOK, NEW w \in Writer, NEW a \in Answers, Finish(w, a),
           (memories \subseteq MemoryRow)', (versions \subseteq VersionRow)',
           (labels \subseteq LabelRow)', (links \subseteq LinkRow)',
           (abouts \subseteq AboutRow)', (productLinks \subseteq Product \X Initiative)',
           (blobs \subseteq Blob)'
    PROVE  TypeOK'
BY ZeroIsTyped DEF TypeOK, Finish, Goto, Places

LEMMA AbortTypes ==
    ASSUME TypeOK, NEW w \in Writer, NEW a \in Answers, Abort(w, a)
    PROVE  TypeOK'
BY FinishTypes DEF Abort, TypeOK, dbVars

LEMMA PlanItemsTypes ==
    ASSUME TypeOK, NEW w \in Writer, PlanItems(w)
    PROVE  TypeOK'
<1> DEFINE r == request[w]
<1>0. r \in Request \cup {NoRequest}
  BY DEF TypeOK
<1>1. CASE ItemErrors(r) # {}
  <2> PICK i \in ItemErrors(r) :
        Abort(w, ItemError(r, CHOOSE k \in ItemErrors(r) : \A j \in ItemErrors(r) : k <= j))
    BY <1>1 DEF PlanItems
  <2> DEFINE e == ItemError(r, CHOOSE k \in ItemErrors(r) : \A j \in ItemErrors(r) : k <= j)
  <2>1. e \in Answers
    BY DEF ItemError, Answers
  <2> QED BY <2>1, AbortTypes
<1>2. CASE ItemErrors(r) = {}
  <2> DEFINE base == [m \in Memory |-> IF m \in Targets(r) THEN CurrentOf(m).version ELSE 0]
             claim == [m \in Memory |-> IF m \in Targets(r) THEN CurrentOf(m).claim ELSE Nobody]
  <2>1. ASSUME NEW m \in Targets(r)
        PROVE  CurrentOf(m) \in versions
    <3>1. PICK i \in Versioned(r) : r.items[i].uuid = m
      BY DEF Targets
    <3>2. ItemError(r, i) = "none"
      BY <1>2 DEF ItemErrors, Versioned
    <3>3. \E v \in versions : v.memory = m /\ v.current
      BY <3>1, <3>2 DEF ItemError
    <3> QED BY <3>3 DEF CurrentOf
  <2>2. base \in [Memory -> Nat] /\ claim \in [Memory -> Claim \cup {Nobody}]
    BY <2>1 DEF TypeOK, VersionRow
  <2>3. [NoPlan EXCEPT !.base = base, !.claim = claim] \in Plan
    BY <2>2 DEF NoPlan, Plan
  <2> HIDE DEF base, claim
  <2>4. /\ plan' = [plan EXCEPT ![w] = [NoPlan EXCEPT !.base = base, !.claim = claim]]
        /\ cur' = [cur EXCEPT ![w] = base]
        /\ Goto(w, "planned")
        /\ UNCHANGED <<dbVars, blobs, request, cursor, todo, tx, locks, answer, attempts>>
    BY <1>2 DEF PlanItems, base, claim
  <2> QED BY <2>2, <2>3, <2>4 DEF TypeOK, Goto, Places, dbVars
<1> QED BY <1>1, <1>2

LEMMA PlanRestTypes ==
    ASSUME TypeOK, NEW w \in Writer, PlanRest(w)
    PROVE  TypeOK'
<1> DEFINE r == request[w]
<1>0. r \in Request \cup {NoRequest}
  BY DEF TypeOK
<1>1. CASE RestErrors(r) # {}
  <2> PICK e \in RestErrors(r) : Abort(w, e)
    BY <1>1 DEF PlanRest
  <2>1. e \in Answers
    BY DEF RestErrors, Answers
  <2> QED BY <2>1, AbortTypes
<1>2. CASE RestErrors(r) = {} /\ r.dryRun
  <2>1. Abort(w, "predicted") /\ "predicted" \in Answers
    BY <1>2 DEF PlanRest, Answers
  <2> QED BY <2>1, AbortTypes
<1>3. CASE RestErrors(r) = {} /\ ~r.dryRun
  <2> DEFINE ls == {l \in r.links : ~ExistsLink(l)}
             ns == {n \in r.labels : ~ \E q \in labels : q.name = n}
  <2>1. ls \subseteq Triple /\ ns \subseteq Label
    BY <1>0, RequestFacts
  <2> HIDE DEF ls, ns
  <2>2. /\ plan' = [plan EXCEPT ![w] = [@ EXCEPT !.links = ls, !.labels = ns]]
        /\ Goto(w, "resolved")
        /\ UNCHANGED <<dbVars, blobs, request, cursor, cur, todo, tx, locks, answer, attempts>>
    BY <1>3 DEF PlanRest, ls, ns
  <2> DEFINE P == [plan[w] EXCEPT !.links = ls, !.labels = ns]
  <2>3. P \in Plan
    <3>1. plan[w] \in Plan
      BY DEF TypeOK
    <3> QED BY <2>1, <3>1 DEF Plan
  <2>4. plan' = [plan EXCEPT ![w] = P]
    BY <2>2
  <2> HIDE DEF P
  <2>5. plan' \in [Writer -> Plan]
    BY <2>3, <2>4 DEF TypeOK
  <2> QED BY <2>2, <2>5 DEF TypeOK, Goto, Places, dbVars
<1> QED BY <1>1, <1>2, <1>3

LEMMA BlobTypes ==
    ASSUME TypeOK, NEW w \in Writer
    PROVE  BlobsOf(w) \subseteq Blob
<1> SUFFICES ASSUME NEW i \in Stores(w), BlobOf[request[w].items[i].claim] # Nobody
             PROVE  BlobOf[request[w].items[i].claim] \in Blob
  BY DEF BlobsOf
<1>1. request[w].items[i] \in Item
  BY RequestFacts DEF TypeOK, Stores
<1> QED BY <1>1 DEF Item, Blob

LEMMA StoreBlobsTypes ==
    ASSUME TypeOK, NEW w \in Writer, StoreBlobs(w) \/ StoreBlobsFails(w)
    PROVE  TypeOK'
<1>1. CASE StoreBlobs(w)
  BY <1>1, BlobTypes DEF StoreBlobs, TypeOK, Goto, Places, dbVars
<1>2. CASE StoreBlobsFails(w)
  <2>1. blobs' \subseteq Blob /\ Finish(w, "error") /\ "error" \in Answers /\ UNCHANGED dbVars
    BY <1>2, BlobTypes DEF StoreBlobsFails, TypeOK, Answers
  <2> QED BY <2>1, FinishTypes DEF TypeOK, dbVars
<1> QED BY <1>1, <1>2

LEMMA WalkTypes ==
    ASSUME TypeOK, NEW w \in Writer,
           CreateNew(w) \/ KeepUnchanged(w) \/ VersionExisting(w) \/ SaveLabels(w)
    PROVE  TypeOK'
<1> DEFINE r == request[w]
<1>0. /\ r \in Request \cup {NoRequest} /\ w \in Author
      /\ todo[w] \in RowSets /\ cursor[w] \in Nat \ {0}
  BY DEF TypeOK, Author
<1>1. CASE CreateNew(w)
  <2> PICK m \in Memory :
         todo' = [todo EXCEPT ![w] =
                    [@ EXCEPT !.memories = todo[w].memories \cup {NewMemoryRow(w, m)},
                              !.versions = todo[w].versions \cup {FirstVersionRow(w, m)}]]
    BY <1>1 DEF CreateNew
  <2>1. ItemAt(w) \in Item /\ r.group \in Group
    BY <1>0, <1>1, RequestFacts DEF CreateNew, InItems, ItemAt
  <2>2. NewMemoryRow(w, m) \in MemoryRow
    BY <1>0, <2>1 DEF Item, MemoryRow, NewMemoryRow
  <2>3. FirstVersionRow(w, m) \in VersionRow
    BY <1>0, <2>1 DEF Item, VersionRow, FirstVersionRow
  <2> DEFINE D == [todo[w] EXCEPT !.memories = todo[w].memories \cup {NewMemoryRow(w, m)},
                                 !.versions = todo[w].versions \cup {FirstVersionRow(w, m)}]
  <2>4. D \in RowSets
    BY <1>0, <2>2, <2>3 DEF RowSets
  <2>5. todo' = [todo EXCEPT ![w] = D]
    OBVIOUS
  <2> HIDE DEF D
  <2>6. todo' \in [Writer -> RowSets]
    BY <2>4, <2>5 DEF TypeOK
  <2>7. cursor[w] + 1 \in Nat \ {0}
    BY <1>0
  <2>8. cursor' \in [Writer -> Nat \ {0}]
    BY <1>1, <2>7 DEF CreateNew, TypeOK
  <2> QED BY <1>1, <2>6, <2>8 DEF CreateNew, TypeOK, dbVars
<1>2. CASE KeepUnchanged(w)
  <2>1. cursor[w] + 1 \in Nat \ {0}
    BY <1>0
  <2>2. cursor' \in [Writer -> Nat \ {0}]
    BY <1>2, <2>1 DEF KeepUnchanged, TypeOK
  <2> QED BY <1>2, <2>2 DEF KeepUnchanged, TypeOK, dbVars
<1>3. CASE VersionExisting(w)
  <2> DEFINE m == ItemAt(w).uuid
             unsaved == {v \in todo[w].versions : v.memory = m /\ v.version = cur[w][m]}
             changed == {[v EXCEPT !.current = FALSE] : v \in unsaved}
  <2>1. m \in Memory
    BY <1>0, <1>3, RequestFacts DEF VersionExisting, ItemAt
  <2>2. todo[w] \in RowSets /\ cur[w][m] \in Nat
    BY <2>1 DEF TypeOK
  <2>3. changed \subseteq VersionRow
    BY <2>2 DEF RowSets, VersionRow
  <2>4. <<m, cur[w][m]>> \in Key
    BY <2>1, <2>2 DEF Key
  <2> DEFINE D1 == [todo[w] EXCEPT !.flips = @ \cup {<<m, cur[w][m]>>}]
             D2 == [todo[w] EXCEPT !.versions = (@ \ unsaved) \cup changed]
  <2>5. todo' = [todo EXCEPT ![w] = D1] \/ todo' = [todo EXCEPT ![w] = D2]
    BY <1>3 DEF VersionExisting
  <2>6. D1 \in RowSets
    BY <2>2, <2>4 DEF RowSets
  <2>7. D2 \in RowSets
    BY <2>2, <2>3 DEF RowSets
  <2> HIDE DEF m, unsaved, changed, D1, D2
  <2>8. todo' \in [Writer -> RowSets]
    BY <2>5, <2>6, <2>7 DEF TypeOK
  <2> QED BY <1>3, <2>8 DEF VersionExisting, TypeOK, Goto, Places, dbVars
<1>4. CASE SaveLabels(w)
  <2>1. {[name |-> n, by |-> w] : n \in plan[w].labels} \subseteq LabelRow
    BY <1>0 DEF TypeOK, Plan, LabelRow
  <2> DEFINE X == {[name |-> n, by |-> w] : n \in plan[w].labels}
             D == [todo[w] EXCEPT !.labels = X]
  <2>3. D \in RowSets
    BY <1>0, <2>1, RowSetsUpdate
  <2>4. todo' = [todo EXCEPT ![w] = D]
    BY <1>4 DEF SaveLabels
  <2> HIDE DEF X, D
  <2>2. todo' \in [Writer -> RowSets]
    BY <2>3, <2>4 DEF TypeOK
  <2> QED BY <1>4, <2>2 DEF SaveLabels, TypeOK, Goto, Places, dbVars
<1> QED BY <1>1, <1>2, <1>3, <1>4

(* Clearing flags keeps version rows version rows.                         *)
LEMMA FlippedTypes ==
    ASSUME NEW rows \in SUBSET VersionRow, NEW flips
    PROVE  Flipped(rows, flips) \subseteq VersionRow
BY DEF Flipped, VersionRow

LEMMA SaveTypes ==
    ASSUME TypeOK, SavesAVersion, NEW w \in Writer, Save(w)
    PROVE  TypeOK'
<1>0. "conflict" \in Answers /\ todo[w] \in RowSets /\ tx[w] \in Overlay
  BY DEF Answers, TypeOK
<1>1. CASE Abort(w, "conflict")
  BY <1>0, <1>1, AbortTypes
<1>2. ASSUME NEW k \in todo[w].flips, FlipCurrent(w, k), ~Abort(w, "conflict")
      PROVE  TypeOK'
  <2>1. Flipped(tx[w].versions, {k}) \subseteq VersionRow
    BY <1>0, FlippedTypes DEF Overlay
  <2> DEFINE T1 == [tx[w] EXCEPT !.versions = Flipped(@, {k})]
             T2 == [tx[w] EXCEPT !.flips = @ \cup {k}]
             D == [todo[w] EXCEPT !.flips = @ \ {k}]
  <2>4. T1 \in Overlay /\ T2 \in Overlay /\ D \in RowSets
    BY <1>0, <2>1, RowSetsUpdate, OverlayUpdate
  <2>5. /\ tx' = [tx EXCEPT ![w] = T1] \/ tx' = [tx EXCEPT ![w] = T2]
        /\ todo' = [todo EXCEPT ![w] = D]
    BY <1>2 DEF FlipCurrent
  <2> HIDE DEF T1, T2, D
  <2>2. tx' \in [Writer -> Overlay]
    BY <2>4, <2>5 DEF TypeOK
  <2>3. todo' \in [Writer -> RowSets]
    BY <2>4, <2>5 DEF TypeOK
  <2> QED BY <1>2, <2>2, <2>3 DEF FlipCurrent, TypeOK, dbVars
<1>3. ASSUME NEW p \in todo[w].memories, InsertMemory(w, p), ~Abort(w, "conflict")
      PROVE  TypeOK'
  <2> DEFINE T == [tx[w] EXCEPT !.memories = @ \cup {p}]
             D == [todo[w] EXCEPT !.memories = @ \ {p}]
  <2>0. T \in Overlay /\ D \in RowSets
    BY <1>0, RowSetsUpdate, OverlayUpdate
  <2>3. tx' = [tx EXCEPT ![w] = T] /\ todo' = [todo EXCEPT ![w] = D]
    BY <1>3 DEF InsertMemory
  <2> HIDE DEF T, D
  <2>1. tx' \in [Writer -> Overlay]
    BY <2>0, <2>3 DEF TypeOK
  <2>2. todo' \in [Writer -> RowSets]
    BY <2>0, <2>3 DEF TypeOK
  <2> QED BY <1>3, <2>1, <2>2 DEF InsertMemory, TypeOK, dbVars
<1>4. ASSUME NEW v \in todo[w].versions, InsertVersion(w, v), ~Abort(w, "conflict")
      PROVE  TypeOK'
  <2> DEFINE T == [tx[w] EXCEPT !.versions = @ \cup {v}]
             D == [todo[w] EXCEPT !.versions = @ \ {v}]
  <2>0. T \in Overlay /\ D \in RowSets
    BY <1>0, RowSetsUpdate, OverlayUpdate
  <2>3. tx' = [tx EXCEPT ![w] = T] /\ todo' = [todo EXCEPT ![w] = D]
    BY <1>4 DEF InsertVersion
  <2> HIDE DEF T, D
  <2>1. tx' \in [Writer -> Overlay]
    BY <2>0, <2>3 DEF TypeOK
  <2>2. todo' \in [Writer -> RowSets]
    BY <2>0, <2>3 DEF TypeOK
  <2> QED BY <1>4, <2>1, <2>2 DEF InsertVersion, TypeOK, dbVars
<1>5. ASSUME NEW n \in todo[w].labels, InsertLabel(w, n), ~Abort(w, "conflict")
      PROVE  TypeOK'
  <2> DEFINE T == [tx[w] EXCEPT !.labels = @ \cup {n}]
             D == [todo[w] EXCEPT !.labels = @ \ {n}]
  <2>0. T \in Overlay /\ D \in RowSets
    BY <1>0, RowSetsUpdate, OverlayUpdate
  <2>3. tx' = [tx EXCEPT ![w] = T] /\ todo' = [todo EXCEPT ![w] = D]
    BY <1>5 DEF InsertLabel
  <2> HIDE DEF T, D
  <2>1. tx' \in [Writer -> Overlay]
    BY <2>0, <2>3 DEF TypeOK
  <2>2. todo' \in [Writer -> RowSets]
    BY <2>0, <2>3 DEF TypeOK
  <2> QED BY <1>5, <2>1, <2>2 DEF InsertLabel, TypeOK, dbVars
<1>6. CASE Saved(w) /\ cursor[w] \in DOMAIN request[w].items
  <2> DEFINE m == ItemAt(w).uuid
             D == [todo[w] EXCEPT !.versions = {NextVersionRow(w)}]
  <2>0. request[w] \in Request \cup {NoRequest} /\ cursor[w] \in Versioned(request[w])
    BY <1>6 DEF TypeOK, SavesAVersion, Saved
  <2>1. m \in Memory /\ ItemAt(w) \in Item /\ w \in Author
    BY <2>0, RequestFacts DEF ItemAt, Versioned, Author
  <2>2. cur[w][m] \in Nat /\ cursor[w] \in Nat
    BY <2>1 DEF TypeOK
  <2>3. cur[w][m] + 1 \in Nat \ {0} /\ cursor[w] + 1 \in Nat \ {0}
    BY <2>2
  <2>4. NextVersionRow(w) \in VersionRow
    BY <2>1, <2>3 DEF NextVersionRow, VersionRow, Item
  <2>5. D \in RowSets
    BY <1>0, <2>4, RowSetsUpdate
  <2>6. /\ todo' = [todo EXCEPT ![w] = D]
        /\ cur' = [cur EXCEPT ![w][m] = cur[w][m] + 1]
        /\ cursor' = [cursor EXCEPT ![w] = cursor[w] + 1]
    BY <1>6 DEF Saved
  <2> HIDE DEF m, D
  <2>7. todo' \in [Writer -> RowSets] /\ cursor' \in [Writer -> Nat \ {0}]
    BY <2>3, <2>5, <2>6 DEF TypeOK
  <2>8. cur' \in [Writer -> [Memory -> Nat]]
    BY <2>1, <2>3, <2>6 DEF TypeOK
  <2> QED BY <1>6, <2>7, <2>8 DEF Saved, TypeOK, Goto, Places, dbVars
<1>7. CASE Saved(w) /\ cursor[w] \notin DOMAIN request[w].items
  BY <1>7 DEF Saved, TypeOK, Goto, Places, dbVars
<1> QED BY <1>1, <1>2, <1>3, <1>4, <1>5, <1>6, <1>7 DEF Save

LEMMA GraphWritesTypes ==
    ASSUME TypeOK, NEW w \in Writer, GraphWrites(w)
    PROVE  TypeOK'
<1> DEFINE T == [tx[w] EXCEPT !.links = LinkRows(w), !.abouts = AboutRows(w)]
<1>1. /\ request[w] \in Request \cup {NoRequest} /\ w \in Author
      /\ plan[w].links \subseteq Triple /\ tx[w] \in Overlay
  BY DEF TypeOK, Author, Plan
<1>2. LinkRows(w) \subseteq LinkRow
  BY <1>1 DEF LinkRows, NewLinks, LinkRow, Triple
<1>3. ResultUuids(w) \subseteq Memory /\ request[w].refs \subseteq Ticket
  BY <1>1, RequestFacts DEF ResultUuids, Overlay, MemoryRow
<1>4. AboutRows(w) \subseteq AboutRow
  BY <1>1, <1>3 DEF AboutRows, NewAbouts, AboutRow
<1>5. T \in Overlay
  BY <1>1, <1>2, <1>4 DEF Overlay
<1>6. tx' = [tx EXCEPT ![w] = T] \/ tx' = tx
  BY DEF GraphWrites
<1>7. locks' \in [Writer -> SUBSET {"graph", "product"}]
  BY DEF GraphWrites, TypeOK
<1> HIDE DEF T
<1>8. tx' \in [Writer -> Overlay]
  BY <1>5, <1>6 DEF TypeOK
<1> QED BY <1>7, <1>8 DEF GraphWrites, TypeOK, Goto, Places, dbVars

LEMMA ProductWritesTypes ==
    ASSUME TypeOK, NEW w \in Writer, ProductWrites(w)
    PROVE  TypeOK'
<1> DEFINE X == {<<request[w].product, BoundInitiative(w)>>} \ productLinks
           T == [tx[w] EXCEPT !.products = X]
<1>1. request[w] \in Request \cup {NoRequest} /\ tx[w] \in Overlay
  BY DEF TypeOK
<1>2. ASSUME NeedsProduct(w) PROVE T \in Overlay
  <2>1. request[w].product \in Product /\ request[w].group \in Group
    BY <1>1, <1>2, RequestFacts DEF NeedsProduct
  <2>2. BoundInitiative(w) \in Initiative
    BY <1>2, <2>1, ConstantsAreTyped DEF BoundInitiative, NeedsProduct
  <2> QED BY <1>1, <2>1, <2>2, OverlayUpdate
<1>3. (NeedsProduct(w) /\ tx' = [tx EXCEPT ![w] = T]) \/ tx' = tx
  BY DEF ProductWrites
<1>4. locks' \in [Writer -> SUBSET {"graph", "product"}]
  <2>1. locks' = [locks EXCEPT ![w] = @ \cup {"product"}] \/ locks' = locks
    BY DEF ProductWrites
  <2> QED BY <2>1 DEF TypeOK
<1> HIDE DEF T
<1>5. tx' \in [Writer -> Overlay]
  BY <1>2, <1>3 DEF TypeOK
<1> QED BY <1>4, <1>5 DEF ProductWrites, TypeOK, Goto, Places, dbVars

LEMMA CommitTypes ==
    ASSUME TypeOK, NEW w \in Writer, Commit(w)
    PROVE  TypeOK'
<1>1. tx[w] \in Overlay /\ "ok" \in Answers
  BY DEF TypeOK, Answers
<1>2. versions' \subseteq VersionRow
  BY <1>1, FlippedTypes DEF Commit, TypeOK, Overlay
<1>3. /\ memories' \subseteq MemoryRow /\ labels' \subseteq LabelRow
      /\ links' \subseteq LinkRow /\ abouts' \subseteq AboutRow
      /\ productLinks' \subseteq Product \X Initiative /\ blobs' \subseteq Blob
  BY <1>1 DEF Commit, TypeOK, Overlay
<1> QED BY <1>1, <1>2, <1>3, FinishTypes DEF Commit

LEMMA ClientTypes ==
    ASSUME TypeOK, NEW w \in Writer, Submit(w) \/ LoseAnswer(w) \/ Retry(w)
    PROVE  TypeOK'
<1>1. CASE Submit(w)
  <2>1. request' \in [Writer -> Request \cup {NoRequest}]
    BY <1>1 DEF Submit, TypeOK
  <2>2. attempts' \in [Writer -> 0 .. MaxAttempts]
    BY <1>1, ConstantsAreTyped DEF Submit, TypeOK
  <2> QED BY <1>1, <2>1, <2>2 DEF Submit, TypeOK, Goto, Places, dbVars
<1>2. CASE LoseAnswer(w)
  BY <1>2 DEF LoseAnswer, TypeOK, Answers, dbVars
<1>3. CASE Retry(w)
  <2>1. attempts[w] \in 0 .. MaxAttempts /\ attempts[w] < MaxAttempts
    BY <1>3 DEF Retry, TypeOK
  <2>2. attempts[w] + 1 \in 0 .. MaxAttempts
    BY <2>1, ConstantsAreTyped
  <2>3. attempts' \in [Writer -> 0 .. MaxAttempts]
    BY <1>3, <2>2 DEF Retry, TypeOK
  <2> QED BY <1>3, <2>3 DEF Retry, TypeOK, Goto, Places, Answers, dbVars
<1> QED BY <1>1, <1>2, <1>3

LEMMA NextTypes ==
    ASSUME TypeOK, SavesAVersion, [Next]_vars
    PROVE  TypeOK'
<1>1. ASSUME NEW w \in Writer, Serve(w) PROVE TypeOK'
  <2>1. CASE DeadlockVictim(w)
    BY <2>1, AbortTypes DEF DeadlockVictim, Answers
  <2> QED
    BY <1>1, <2>1, PlanItemsTypes, PlanRestTypes, StoreBlobsTypes, WalkTypes, SaveTypes,
       GraphWritesTypes, ProductWritesTypes, CommitTypes DEF Serve
<1>2. ASSUME NEW w \in Writer, Interrupt(w) PROVE TypeOK'
  BY <1>2, AbortTypes DEF Interrupt, Answers
<1>3. CASE UNCHANGED vars
  BY <1>3 DEF TypeOK, vars
<1>4. CASE AllAnswered
  BY <1>3, <1>4 DEF AllAnswered
<1> QED BY <1>1, <1>2, <1>3, <1>4, ClientTypes, StoreBlobsTypes DEF Next

LEMMA SavesAVersionStep ==
    ASSUME TypeOK, SavesAVersion, [Next]_vars
    PROVE  SavesAVersion'
<1> SUFFICES ASSUME NEW u \in Writer,
                    At(u, "saving")', (cursor[u] \in DOMAIN request[u].items)'
             PROVE  (cursor[u] \in Versioned(request[u]))'
  BY DEF SavesAVersion
<1> USE DEF At, Goto, TypeOK
<1>1. CASE /\ pc'[u] = pc[u] /\ cursor'[u] = cursor[u] /\ request'[u] = request[u]
  BY <1>1 DEF SavesAVersion, Versioned
<1>2. ASSUME NEW w \in Writer, NEW a, Finish(w, a)
      PROVE  (cursor[u] \in Versioned(request[u]))'
  BY <1>1, <1>2 DEF Finish
<1>3. ASSUME NEW w \in Writer, PlanItems(w) \/ PlanRest(w) \/ StoreBlobs(w) \/ StoreBlobsFails(w)
      PROVE  (cursor[u] \in Versioned(request[u]))'
  BY <1>1, <1>2, <1>3 DEF PlanItems, PlanRest, StoreBlobs, StoreBlobsFails, Abort
<1>4. ASSUME NEW w \in Writer, CreateNew(w) \/ KeepUnchanged(w) \/ SaveLabels(w)
      PROVE  (cursor[u] \in Versioned(request[u]))'
  BY <1>1, <1>4 DEF CreateNew, KeepUnchanged, SaveLabels, InItems
<1>5. ASSUME NEW w \in Writer, VersionExisting(w)
      PROVE  (cursor[u] \in Versioned(request[u]))'
  BY <1>1, <1>5 DEF VersionExisting, InItems, Versioned
<1>6. ASSUME NEW w \in Writer, Save(w)
      PROVE  (cursor[u] \in Versioned(request[u]))'
  <2>1. CASE Saved(w)
    BY <1>1, <2>1 DEF Saved
  <2>2. CASE Abort(w, "conflict")
    BY <1>2, <2>2 DEF Abort
  <2>3. CASE UNCHANGED <<pc, cursor, request>>
    BY <1>1, <2>3
  <2> QED BY <1>6, <2>1, <2>2, <2>3 DEF Save, FlipCurrent, InsertMemory, InsertVersion, InsertLabel
<1>7. ASSUME NEW w \in Writer, GraphWrites(w) \/ ProductWrites(w)
      PROVE  (cursor[u] \in Versioned(request[u]))'
  BY <1>1, <1>7 DEF GraphWrites, ProductWrites
<1>8. ASSUME NEW w \in Writer, Commit(w) \/ DeadlockVictim(w) \/ Interrupt(w)
      PROVE  (cursor[u] \in Versioned(request[u]))'
  BY <1>2, <1>8 DEF Commit, DeadlockVictim, Interrupt, Abort
<1>9. ASSUME NEW w \in Writer, Submit(w) \/ LoseAnswer(w) \/ Retry(w)
      PROVE  (cursor[u] \in Versioned(request[u]))'
  BY <1>1, <1>9 DEF Submit, LoseAnswer, Retry
<1>10. CASE UNCHANGED vars
  BY <1>1, <1>10 DEF vars
<1> QED
  BY <1>3, <1>4, <1>5, <1>6, <1>7, <1>8, <1>9, <1>10 DEF Next, Serve, AllAnswered

(* The type invariant as it is inductive.                                  *)
TypeInv == TypeOK /\ SavesAVersion

LEMMA TypeInvHolds == Spec => []TypeInv
<1>1. Init => TypeInv
  BY InitTypes DEF TypeInv, Init, SavesAVersion, At
<1>2. TypeInv /\ [Next]_vars => TypeInv'
  BY NextTypes, SavesAVersionStep DEF TypeInv
<1> QED BY <1>1, <1>2, PTL DEF Spec

(* Every variable of the store always holds a value of its kind.           *)
THEOREM TypeCorrect == Spec => []TypeOK
<1>1. TypeInv => TypeOK
  BY DEF TypeInv
<1> QED BY <1>1, TypeInvHolds, PTL

-----------------------------------------------------------------------------
(***************************************************************************)
(* The history.  Only a commit touches the committed rows, and a commit    *)
(* keeps every row but for the flags it clears.                            *)
(***************************************************************************)

(* What a request that stores nothing is told.                             *)
Refusals == Answers \ {"ok"}

(* A request ends without a commit; a statement is admitted.               *)
RollsBack(w) == UNCHANGED dbVars /\ \E a \in Refusals : Finish(w, a)
Flips(w, k) == FlipCurrent(w, k) /\ ~FlipIsRefused(w, k)
InsertsMemory(w, p) == InsertMemory(w, p) /\ ~MemoryIsRefused(w, p)
InsertsVersion(w, v) == InsertVersion(w, v) /\ ~VersionIsRefused(w, v)
InsertsLabel(w, n) == InsertLabel(w, n) /\ ~LabelIsRefused(w, n)

(* The steps that write a table, an overlay or a lock.                     *)
TableStep(w) ==
    \/ Commit(w) \/ RollsBack(w)
    \/ \E k \in todo[w].flips : Flips(w, k)
    \/ \E p \in todo[w].memories : InsertsMemory(w, p)
    \/ \E v \in todo[w].versions : InsertsVersion(w, v)
    \/ \E n \in todo[w].labels : InsertsLabel(w, n)
    \/ GraphWrites(w) \/ ProductWrites(w)

(* How a step may change the tables, the overlays and the advisory locks:  *)
(* a commit, a rollback, one statement, the two graph steps - or not at all*)
LEMMA StepCases ==
    ASSUME [Next]_vars
    PROVE  (\E w \in Writer : TableStep(w)) \/ UNCHANGED <<dbVars, tx, locks>>
<1>1. ASSUME NEW w \in Writer, NEW a \in Refusals, Abort(w, a) PROVE TableStep(w)
  BY <1>1 DEF Abort, RollsBack, TableStep
<1>2. ASSUME NEW w \in Writer, Serve(w)
      PROVE  TableStep(w) \/ UNCHANGED <<dbVars, tx, locks>>
  <2>1. CASE Save(w)
    <3>1. ASSUME NEW k \in todo[w].flips, FlipCurrent(w, k) PROVE TableStep(w)
      BY <1>1, <3>1 DEF FlipCurrent, Flips, TableStep, Answers, Refusals
    <3>2. ASSUME NEW p \in todo[w].memories, InsertMemory(w, p) PROVE TableStep(w)
      BY <1>1, <3>2 DEF InsertMemory, InsertsMemory, TableStep, Answers, Refusals
    <3>3. ASSUME NEW v \in todo[w].versions, InsertVersion(w, v) PROVE TableStep(w)
      BY <1>1, <3>3 DEF InsertVersion, InsertsVersion, TableStep, Answers, Refusals
    <3>4. ASSUME NEW n \in todo[w].labels, InsertLabel(w, n) PROVE TableStep(w)
      BY <1>1, <3>4 DEF InsertLabel, InsertsLabel, TableStep, Answers, Refusals
    <3>5. CASE Saved(w)
      BY <3>5 DEF Saved
    <3> QED BY <2>1, <3>1, <3>2, <3>3, <3>4, <3>5 DEF Save
  <2>2. CASE PlanItems(w)
    <3>1. CASE ItemErrors(request[w]) # {}
      <4>1. PICK n : Abort(w, ItemError(request[w], n))
        BY <2>2, <3>1 DEF PlanItems
      <4>2. ItemError(request[w], n) \in Refusals
        BY DEF ItemError, Answers, Refusals
      <4> QED BY <1>1, <4>1, <4>2
    <3> QED BY <2>2, <3>1 DEF PlanItems
  <2>3. CASE PlanRest(w)
    BY <1>1, <2>3 DEF PlanRest, RestErrors, Answers, Refusals
  <2>4. CASE StoreBlobs(w)
    BY <2>4 DEF StoreBlobs
  <2>5. CASE CreateNew(w) \/ KeepUnchanged(w) \/ VersionExisting(w) \/ SaveLabels(w)
    BY <2>5 DEF CreateNew, KeepUnchanged, VersionExisting, SaveLabels
  <2>6. CASE Commit(w) \/ GraphWrites(w) \/ ProductWrites(w)
    BY <2>6 DEF TableStep
  <2>7. CASE DeadlockVictim(w)
    BY <1>1, <2>7 DEF DeadlockVictim, Answers, Refusals
  <2> QED BY <1>2, <2>1, <2>2, <2>3, <2>4, <2>5, <2>6, <2>7 DEF Serve
<1>3. ASSUME NEW w \in Writer, Interrupt(w) PROVE TableStep(w)
  BY <1>1, <1>3 DEF Interrupt, Answers, Refusals
<1>4. ASSUME NEW w \in Writer, StoreBlobsFails(w) PROVE TableStep(w)
  BY <1>4 DEF StoreBlobsFails, RollsBack, TableStep, Answers, Refusals
<1>5. ASSUME NEW w \in Writer, Submit(w) \/ LoseAnswer(w) \/ Retry(w)
      PROVE  UNCHANGED <<dbVars, tx, locks>>
  BY <1>5 DEF Submit, LoseAnswer, Retry
<1>6. CASE AllAnswered \/ UNCHANGED vars
  BY <1>6 DEF AllAnswered, vars, dbVars
<1> QED BY <1>2, <1>3, <1>4, <1>5, <1>6 DEF Next

(* Every step either commits some request or leaves the tables alone.      *)
LEMMA OnlyCommitWrites ==
    ASSUME [Next]_vars
    PROVE  (\E w \in Writer : Commit(w)) \/ UNCHANGED dbVars
<1>1. ASSUME NEW w \in Writer, TableStep(w) PROVE Commit(w) \/ UNCHANGED dbVars
  <2>1. CASE GraphWrites(w) \/ ProductWrites(w)
    BY <2>1 DEF GraphWrites, ProductWrites
  <2>2. CASE RollsBack(w)
    BY <2>2 DEF RollsBack
  <2>3. ASSUME NEW x, FlipCurrent(w, x) \/ InsertMemory(w, x) \/ InsertVersion(w, x) \/ InsertLabel(w, x)
        PROVE  UNCHANGED dbVars
    BY <2>3 DEF FlipCurrent, InsertMemory, InsertVersion, InsertLabel, Abort
  <2> QED
    BY <1>1, <2>1, <2>2, <2>3 DEF TableStep, Flips, InsertsMemory, InsertsVersion, InsertsLabel
<1> QED BY <1>1, StepCases

LEMMA FlippedKeepsRows ==
    ASSUME NEW rows \in SUBSET VersionRow, NEW flips, NEW v \in rows
    PROVE  \/ v \in Flipped(rows, flips)
           \/ v.current /\ [v EXCEPT !.current = FALSE] \in Flipped(rows, flips)
<1>1. v \in VersionRow
  OBVIOUS
<1>2. [v EXCEPT !.current = v.current /\ KeyOf(v) \notin flips] \in Flipped(rows, flips)
  BY DEF Flipped
<1>3. v.current \in BOOLEAN /\ [v EXCEPT !.current = v.current] = v
  BY <1>1 DEF VersionRow
<1>4. CASE v.current /\ KeyOf(v) \in flips
  <2>1. (v.current /\ KeyOf(v) \notin flips) = FALSE
    BY <1>4
  <2> QED BY <1>2, <1>4, <2>1
<1>5. CASE ~(v.current /\ KeyOf(v) \in flips)
  <2>1. (v.current /\ KeyOf(v) \notin flips) = v.current
    BY <1>3, <1>5
  <2> QED BY <1>2, <1>3, <2>1
<1> QED BY <1>4, <1>5

(* The history of every memory is append-only: whatever the requests, no   *)
(* step removes a row or rewrites more of it than its is_current flag.     *)
THEOREM HistoryIsKept == Spec => HistoryIsAppendOnly
<1>1. ASSUME TypeOK, [Next]_vars PROVE [KeepsHistory]_<<memories, versions>>
  <2>1. ASSUME NEW w \in Writer, Commit(w) PROVE KeepsHistory
    <3>1. versions \subseteq VersionRow
      BY <1>1 DEF TypeOK
    <3>2. /\ memories' = memories \cup tx[w].memories
          /\ versions' = Flipped(versions, tx[w].flips) \cup tx[w].versions
      BY <2>1 DEF Commit
    <3> QED BY <3>1, <3>2, FlippedKeepsRows DEF KeepsHistory
  <2>2. CASE UNCHANGED dbVars
    BY <2>2 DEF dbVars
  <2> QED BY <1>1, <2>1, <2>2, OnlyCommitWrites
<1> QED BY <1>1, TypeCorrect, PTL DEF Spec, HistoryIsAppendOnly

-----------------------------------------------------------------------------
(***************************************************************************)
(* Subjects.  An uncommitted memory row clashes with no committed row and  *)
(* with no other uncommitted row: the unique indexes refuse the former and *)
(* make the latter wait.                                                   *)
(***************************************************************************)

(* No uncommitted memory clashes with another, committed or not.           *)
SubjectsAreGuarded ==
    /\ SubjectsAreUnique
    /\ \A w \in Writer : \A p \in tx[w].memories :
         /\ \A q \in memories \cup tx[w].memories : SameMemoryKey(p, q) => p = q
         /\ \A u \in Others(w) : \A q \in tx[u].memories : ~SameMemoryKey(p, q)

LEMMA SubjectsStep ==
    ASSUME TypeOK, SubjectsAreGuarded, [Next]_vars
    PROVE  SubjectsAreGuarded'
<1> USE DEF SubjectsAreGuarded, SubjectsAreUnique, Others
<1>1. CASE UNCHANGED <<dbVars, tx, locks>>
  BY <1>1 DEF dbVars
<1>2. ASSUME NEW w \in Writer, Commit(w) PROVE SubjectsAreGuarded'
  <2>1. memories' = memories \cup tx[w].memories
    BY <1>2 DEF Commit
  <2>2. tx'[w].memories = {} /\ \A u \in Others(w) : tx'[u] = tx[u]
    BY <1>2 DEF Commit, Finish, NoTx, TypeOK
  <2>3. \A p, q \in memories' : SameMemoryKey(p, q) => p = q
    BY <2>1 DEF SameMemoryKey
  <2>4. ASSUME NEW u \in Others(w), NEW p \in tx[u].memories, NEW q \in memories',
               SameMemoryKey(p, q)
        PROVE  p = q
    BY <2>1, <2>4
  <2> QED BY <2>2, <2>3, <2>4
<1>3. ASSUME NEW w \in Writer, RollsBack(w) PROVE SubjectsAreGuarded'
  <2>1. memories' = memories /\ tx'[w].memories = {} /\ \A u \in Others(w) : tx'[u] = tx[u]
    BY <1>3 DEF RollsBack, Finish, NoTx, TypeOK, dbVars
  <2> QED BY <2>1
<1>4. ASSUME memories' = memories, \A u \in Writer : tx'[u].memories = tx[u].memories
      PROVE  SubjectsAreGuarded'
  BY <1>4
<1>5. ASSUME NEW w \in Writer, NEW p \in todo[w].memories, InsertsMemory(w, p)
      PROVE  SubjectsAreGuarded'
  <2>1. /\ memories' = memories /\ tx'[w].memories = tx[w].memories \cup {p}
        /\ \A u \in Others(w) : tx'[u] = tx[u]
    BY <1>5 DEF InsertsMemory, InsertMemory, dbVars, TypeOK, Overlay
  <2>2. \A q \in memories \cup tx[w].memories : ~SameMemoryKey(p, q)
    BY <1>5 DEF InsertsMemory, MemoryIsRefused
  <2>3. \A u \in Others(w) : \A q \in tx[u].memories : ~SameMemoryKey(p, q)
    BY <1>5 DEF InsertsMemory, InsertMemory, MemoryWaitsFor
  <2>4. \A x, y : SameMemoryKey(x, y) <=> SameMemoryKey(y, x)
    BY DEF SameMemoryKey
  <2> QED BY <2>1, <2>2, <2>3, <2>4
<1>6. ASSUME NEW w \in Writer, NEW x,
             \/ Flips(w, x) \/ InsertsVersion(w, x) \/ InsertsLabel(w, x)
             \/ GraphWrites(w) \/ ProductWrites(w)
      PROVE  SubjectsAreGuarded'
  <2>1. memories' = memories
    BY <1>6 DEF Flips, FlipCurrent, InsertsVersion, InsertVersion, InsertsLabel, InsertLabel,
                GraphWrites, ProductWrites, dbVars
  <2>2. tx'[w].memories = tx[w].memories /\ \A u \in Others(w) : tx'[u] = tx[u]
    <3>1. CASE Flips(w, x)
      BY <3>1 DEF Flips, FlipCurrent, TypeOK, Overlay
    <3>2. CASE InsertsVersion(w, x)
      BY <3>2 DEF InsertsVersion, InsertVersion, TypeOK, Overlay
    <3>3. CASE InsertsLabel(w, x)
      BY <3>3 DEF InsertsLabel, InsertLabel, TypeOK, Overlay
    <3>4. CASE GraphWrites(w)
      <4> DEFINE T == [tx[w] EXCEPT !.links = LinkRows(w), !.abouts = AboutRows(w)]
      <4>1. T.memories = tx[w].memories
        BY DEF TypeOK, Overlay
      <4>2. tx' = [tx EXCEPT ![w] = T] \/ tx' = tx
        BY <3>4 DEF GraphWrites
      <4> HIDE DEF T
      <4> QED BY <4>1, <4>2 DEF TypeOK
    <3>5. CASE ProductWrites(w)
      BY <3>5 DEF ProductWrites, TypeOK, Overlay
    <3> QED BY <1>6, <3>1, <3>2, <3>3, <3>4, <3>5
  <2> QED BY <1>4, <2>1, <2>2
<1> QED BY <1>1, <1>2, <1>3, <1>5, <1>6, StepCases DEF TableStep

(* A uuid and a subject of a group name one memory for ever, although the  *)
(* requests only look for them before their transactions open.             *)
THEOREM SubjectsStayUnique == Spec => []SubjectsAreUnique
<1>1. Init => SubjectsAreGuarded
  <2> SUFFICES ASSUME Init PROVE SubjectsAreGuarded
    OBVIOUS
  <2>1. \A w \in Writer : tx[w].memories = {}
    BY DEF Init, NoTx
  <2>2. SubjectsAreUnique
    BY SeedIsAStore DEF Init, SubjectsAreUnique, SameMemoryKey
  <2> QED BY <2>1, <2>2 DEF SubjectsAreGuarded
<1>2. TypeOK /\ SubjectsAreGuarded /\ [Next]_vars => SubjectsAreGuarded'
  BY SubjectsStep
<1>3. SubjectsAreGuarded => SubjectsAreUnique
  BY DEF SubjectsAreGuarded
<1> QED BY <1>1, <1>2, <1>3, TypeCorrect, PTL DEF Spec

-----------------------------------------------------------------------------
(***************************************************************************)
(* Edges.  The graph has no unique constraint.  What keeps its edges apart *)
(* is the advisory lock: only its holder has uncommitted edges, and they   *)
(* were not in the committed graph when it looked, nor are they now,       *)
(* because nobody else could commit an edge in the meantime.               *)
(***************************************************************************)

(* Two edges that the graph should hold once.                              *)
SameLink(k, l) == k.source = l.source /\ k.target = l.target /\ k.relation = l.relation
SameAbout(a, b) == a.memory = b.memory /\ a.ticket = b.ticket

(* Only the holder of the graph's lock has uncommitted edges, and they     *)
(* clash with none that is stored.                                         *)
EdgesAreGuarded ==
    /\ \A k, l \in links : SameLink(k, l) => k = l
    /\ \A a, b \in abouts : SameAbout(a, b) => a = b
    /\ \A w \in Writer :
         /\ tx[w].links # {} \/ tx[w].abouts # {} => "graph" \in locks[w]
         /\ "graph" \in locks[w] => \A u \in Others(w) : "graph" \notin locks[u]
         /\ \A k \in tx[w].links : \A l \in links \cup tx[w].links : SameLink(k, l) => k = l
         /\ \A a \in tx[w].abouts : \A b \in abouts \cup tx[w].abouts : SameAbout(a, b) => a = b

LEMMA EdgesStep ==
    ASSUME TypeOK, EdgesAreGuarded, [Next]_vars
    PROVE  EdgesAreGuarded'
<1> USE DEF EdgesAreGuarded, Others
<1>1. CASE UNCHANGED <<dbVars, tx, locks>>
  BY <1>1 DEF dbVars
<1>2. ASSUME NEW w \in Writer, Commit(w) PROVE EdgesAreGuarded'
  <2>1. /\ links' = links \cup tx[w].links /\ abouts' = abouts \cup tx[w].abouts
        /\ tx'[w].links = {} /\ tx'[w].abouts = {} /\ locks'[w] = {}
        /\ \A u \in Others(w) : tx'[u] = tx[u] /\ locks'[u] = locks[u]
    BY <1>2 DEF Commit, Finish, NoTx, TypeOK
  <2>2. \A k, l : (SameLink(k, l) <=> SameLink(l, k)) /\ (SameAbout(k, l) <=> SameAbout(l, k))
    BY DEF SameLink, SameAbout
  <2>3. ASSUME NEW u \in Others(w), "graph" \in locks[u]
        PROVE  tx[w].links = {} /\ tx[w].abouts = {}
    BY <2>3
  <2>4. /\ \A k, l \in links' : SameLink(k, l) => k = l
        /\ \A a, b \in abouts' : SameAbout(a, b) => a = b
    BY <2>1, <2>2
  <2> QED BY <2>1, <2>3, <2>4
<1>3. ASSUME NEW w \in Writer, RollsBack(w) PROVE EdgesAreGuarded'
  <2>1. /\ links' = links /\ abouts' = abouts
        /\ tx'[w].links = {} /\ tx'[w].abouts = {} /\ locks'[w] = {}
        /\ \A u \in Others(w) : tx'[u] = tx[u] /\ locks'[u] = locks[u]
    BY <1>3 DEF RollsBack, Finish, NoTx, TypeOK, dbVars
  <2> QED BY <2>1
<1>4. ASSUME NEW w \in Writer, NEW x,
             \/ Flips(w, x) \/ InsertsMemory(w, x) \/ InsertsVersion(w, x) \/ InsertsLabel(w, x)
      PROVE  EdgesAreGuarded'
  <2>1. links' = links /\ abouts' = abouts /\ locks' = locks
    BY <1>4 DEF Flips, FlipCurrent, InsertsVersion, InsertVersion, InsertsLabel, InsertLabel,
                InsertsMemory, InsertMemory, dbVars
  <2>2. /\ tx'[w].links = tx[w].links /\ tx'[w].abouts = tx[w].abouts
        /\ \A u \in Others(w) : tx'[u] = tx[u]
    <3>1. CASE Flips(w, x)
      BY <3>1 DEF Flips, FlipCurrent, TypeOK, Overlay
    <3>2. CASE InsertsMemory(w, x)
      BY <3>2 DEF InsertsMemory, InsertMemory, TypeOK, Overlay
    <3>3. CASE InsertsVersion(w, x)
      BY <3>3 DEF InsertsVersion, InsertVersion, TypeOK, Overlay
    <3>4. CASE InsertsLabel(w, x)
      BY <3>4 DEF InsertsLabel, InsertLabel, TypeOK, Overlay
    <3> QED BY <1>4, <3>1, <3>2, <3>3, <3>4
  <2> QED BY <2>1, <2>2
<1>5. ASSUME NEW w \in Writer, GraphWrites(w) PROVE EdgesAreGuarded'
  <2>1. links' = links /\ abouts' = abouts
    BY <1>5 DEF GraphWrites, dbVars
  <2>2. CASE ~NeedsGraph(w)
    BY <1>5, <2>1, <2>2 DEF GraphWrites
  <2>3. CASE NeedsGraph(w)
    <3> DEFINE T == [tx[w] EXCEPT !.links = LinkRows(w), !.abouts = AboutRows(w)]
    <3>1. T.links = LinkRows(w) /\ T.abouts = AboutRows(w)
      BY DEF TypeOK, Overlay
    <3>2. tx' = [tx EXCEPT ![w] = T]
      BY <1>5, <2>3 DEF GraphWrites
    <3> HIDE DEF T
    <3>3. /\ tx'[w].links = LinkRows(w) /\ tx'[w].abouts = AboutRows(w)
          /\ \A u \in Others(w) : tx'[u] = tx[u]
      BY <3>1, <3>2 DEF TypeOK
    <3>4. /\ locks'[w] = locks[w] \cup {"graph"} /\ \A u \in Others(w) : locks'[u] = locks[u]
          /\ \A u \in Others(w) : "graph" \notin locks[u]
      BY <1>5, <2>3 DEF GraphWrites, TypeOK, LockHolders
    <3>5. \A k \in LinkRows(w) : \A l \in links \cup LinkRows(w) : SameLink(k, l) => k = l
      BY DEF LinkRows, NewLinks, ExistsLink, SameLink
    <3>6. \A a \in AboutRows(w) : \A b \in abouts \cup AboutRows(w) : SameAbout(a, b) => a = b
      BY DEF AboutRows, NewAbouts, SameAbout
    <3> QED BY <2>1, <3>3, <3>4, <3>5, <3>6
  <2> QED BY <2>2, <2>3
<1>6. ASSUME NEW w \in Writer, ProductWrites(w) PROVE EdgesAreGuarded'
  <2>1. links' = links /\ abouts' = abouts
    BY <1>6 DEF ProductWrites, dbVars
  <2>2. /\ tx'[w].links = tx[w].links /\ tx'[w].abouts = tx[w].abouts
        /\ \A u \in Others(w) : tx'[u] = tx[u]
    BY <1>6 DEF ProductWrites, TypeOK, Overlay
  <2>3. \A u \in Writer : "graph" \in locks'[u] <=> "graph" \in locks[u]
    BY <1>6 DEF ProductWrites, TypeOK
  <2> QED BY <2>1, <2>2, <2>3
<1> QED BY <1>1, <1>2, <1>3, <1>4, <1>5, <1>6, StepCases DEF TableStep

(* A link triple and an ABOUT pair are stored once, whoever writes them    *)
(* and however their transactions overlap.                                 *)
THEOREM EdgesStayUnique == Spec => []EdgesAreUnique
<1>1. Init => EdgesAreGuarded
  BY DEF Init, EdgesAreGuarded, NoTx
<1>2. TypeOK /\ EdgesAreGuarded /\ [Next]_vars => EdgesAreGuarded'
  BY EdgesStep
<1>3. EdgesAreGuarded => EdgesAreUnique
  BY DEF EdgesAreGuarded, EdgesAreUnique, SameLink, SameAbout
<1> QED BY <1>1, <1>2, <1>3, TypeCorrect, PTL DEF Spec

-----------------------------------------------------------------------------
(***************************************************************************)
(* The walk of a request over its items: what each step does, and the      *)
(* invariant that ties the rows a request has written, or is about to      *)
(* write, to its plan and to the items it has walked.                      *)
(***************************************************************************)

(* Where a request is once its bodies are stored, and once it is planned.  *)
Walking == {"items", "saving", "graph", "product", "commit"}
(* Where a request may stand once it has read what it plans on.            *)
Planned == Walking \cup {"planned", "resolved"}

(* What w's variables are, all at once.                                    *)
Own(w) == <<pc[w], request[w], plan[w], cursor[w], cur[w], todo[w], tx[w], locks[w], answer[w]>>

(* w has planned, or has resolved the rest of its plan.                    *)
Plans(w) == PlanItems(w) /\ ItemErrors(request[w]) = {}
Resolves(w) == PlanRest(w) /\ RestErrors(request[w]) = {} /\ ~request[w].dryRun

(* The steps of a request that do not end it without a commit.             *)
WorkStep(w) ==
    \/ Plans(w) \/ Resolves(w) \/ StoreBlobs(w)
    \/ CreateNew(w) \/ KeepUnchanged(w) \/ VersionExisting(w) \/ SaveLabels(w)
    \/ \E k \in todo[w].flips : Flips(w, k)
    \/ \E p \in todo[w].memories : InsertsMemory(w, p)
    \/ \E v \in todo[w].versions : InsertsVersion(w, v)
    \/ \E n \in todo[w].labels : InsertsLabel(w, n)
    \/ Saved(w) \/ GraphWrites(w) \/ ProductWrites(w)

(* Any step of a request: there are no other steps, but for stutters.      *)
WriterStep(w) ==
    \/ Submit(w) \/ LoseAnswer(w) \/ Retry(w)
    \/ RollsBack(w) \/ Commit(w) \/ WorkStep(w)

(* Every step is a step of one request.                                    *)
LEMMA WriterSteps ==
    ASSUME [Next]_vars
    PROVE  (\E w \in Writer : WriterStep(w) /\ blobs \subseteq blobs') \/ UNCHANGED vars
<1>1. ASSUME NEW w \in Writer, NEW a \in Refusals, Abort(w, a)
      PROVE  RollsBack(w) /\ blobs \subseteq blobs'
  BY <1>1 DEF Abort, RollsBack
<1>2. ASSUME NEW w \in Writer, Serve(w)
      PROVE  WriterStep(w) /\ blobs \subseteq blobs'
  <2>1. CASE Save(w)
    <3>1. ASSUME NEW k \in todo[w].flips, FlipCurrent(w, k)
          PROVE  WriterStep(w) /\ blobs \subseteq blobs'
      BY <1>1, <3>1 DEF FlipCurrent, Flips, WriterStep, WorkStep, Answers, Refusals
    <3>2. ASSUME NEW p \in todo[w].memories, InsertMemory(w, p)
          PROVE  WriterStep(w) /\ blobs \subseteq blobs'
      BY <1>1, <3>2 DEF InsertMemory, InsertsMemory, WriterStep, WorkStep, Answers, Refusals
    <3>3. ASSUME NEW v \in todo[w].versions, InsertVersion(w, v)
          PROVE  WriterStep(w) /\ blobs \subseteq blobs'
      BY <1>1, <3>3 DEF InsertVersion, InsertsVersion, WriterStep, WorkStep, Answers, Refusals
    <3>4. ASSUME NEW n \in todo[w].labels, InsertLabel(w, n)
          PROVE  WriterStep(w) /\ blobs \subseteq blobs'
      BY <1>1, <3>4 DEF InsertLabel, InsertsLabel, WriterStep, WorkStep, Answers, Refusals
    <3>5. CASE Saved(w)
      BY <3>5 DEF Saved, WriterStep, WorkStep
    <3> QED BY <2>1, <3>1, <3>2, <3>3, <3>4, <3>5 DEF Save
  <2>2. CASE PlanItems(w)
    <3>1. CASE ItemErrors(request[w]) # {}
      <4>1. PICK n : Abort(w, ItemError(request[w], n))
        BY <2>2, <3>1 DEF PlanItems
      <4>2. ItemError(request[w], n) \in Refusals
        BY DEF ItemError, Answers, Refusals
      <4> QED BY <1>1, <4>1, <4>2 DEF WriterStep
    <3> QED BY <2>2, <3>1 DEF PlanItems, Plans, WriterStep, WorkStep
  <2>3. CASE PlanRest(w)
    <3>1. CASE RestErrors(request[w]) # {} \/ request[w].dryRun
      BY <1>1, <2>3, <3>1 DEF PlanRest, RestErrors, Answers, Refusals, WriterStep
    <3> QED BY <2>3, <3>1 DEF PlanRest, Resolves, WriterStep, WorkStep
  <2>4. CASE StoreBlobs(w)
    BY <2>4 DEF StoreBlobs, WriterStep, WorkStep
  <2>5. CASE CreateNew(w) \/ KeepUnchanged(w) \/ VersionExisting(w) \/ SaveLabels(w)
    BY <2>5 DEF CreateNew, KeepUnchanged, VersionExisting, SaveLabels, WriterStep, WorkStep
  <2>6. CASE Commit(w) \/ GraphWrites(w) \/ ProductWrites(w)
    BY <2>6 DEF Commit, GraphWrites, ProductWrites, WriterStep, WorkStep
  <2>7. CASE DeadlockVictim(w)
    BY <1>1, <2>7 DEF DeadlockVictim, Answers, Refusals, WriterStep
  <2> QED BY <1>2, <2>1, <2>2, <2>3, <2>4, <2>5, <2>6, <2>7 DEF Serve
<1>3. ASSUME NEW w \in Writer, Interrupt(w)
      PROVE  WriterStep(w) /\ blobs \subseteq blobs'
  BY <1>1, <1>3 DEF Interrupt, Answers, Refusals, WriterStep
<1>4. ASSUME NEW w \in Writer, StoreBlobsFails(w)
      PROVE  WriterStep(w) /\ blobs \subseteq blobs'
  BY <1>4 DEF StoreBlobsFails, RollsBack, WriterStep, Answers, Refusals
<1>5. ASSUME NEW w \in Writer, Submit(w) \/ LoseAnswer(w) \/ Retry(w)
      PROVE  WriterStep(w) /\ blobs \subseteq blobs'
  BY <1>5 DEF Submit, LoseAnswer, Retry, WriterStep
<1>6. CASE AllAnswered \/ UNCHANGED vars
  BY <1>6 DEF AllAnswered
<1> QED BY <1>2, <1>3, <1>4, <1>5, <1>6 DEF Next

(* A step of w leaves every other request as it was.                       *)
LEMMA OthersKeep ==
    ASSUME TypeOK, NEW w \in Writer, WriterStep(w), NEW u \in Others(w)
    PROVE  UNCHANGED Own(u)
<1> USE DEF Own, Others, Goto, TypeOK
<1>1. CASE Submit(w) \/ LoseAnswer(w) \/ Retry(w)
  BY <1>1 DEF Submit, LoseAnswer, Retry
<1>2. CASE RollsBack(w) \/ Commit(w)
  BY <1>2 DEF RollsBack, Commit, Finish
<1>3. CASE Plans(w) \/ Resolves(w)
  <2>1. CASE Plans(w)
    BY <2>1 DEF Plans, PlanItems
  <2>2. CASE Resolves(w)
    BY <2>2 DEF Resolves, PlanRest
  <2> QED BY <1>3, <2>1, <2>2
<1>4. CASE StoreBlobs(w) \/ CreateNew(w) \/ KeepUnchanged(w) \/ SaveLabels(w)
  BY <1>4 DEF StoreBlobs, CreateNew, KeepUnchanged, SaveLabels
<1>5. CASE VersionExisting(w)
  BY <1>5 DEF VersionExisting
<1>6. ASSUME NEW x, Flips(w, x) \/ InsertsMemory(w, x) \/ InsertsVersion(w, x) \/ InsertsLabel(w, x)
      PROVE  UNCHANGED Own(u)
  <2>1. CASE Flips(w, x)
    BY <2>1 DEF Flips, FlipCurrent
  <2>2. CASE InsertsMemory(w, x)
    BY <2>2 DEF InsertsMemory, InsertMemory
  <2>3. CASE InsertsVersion(w, x)
    BY <2>3 DEF InsertsVersion, InsertVersion
  <2>4. CASE InsertsLabel(w, x)
    BY <2>4 DEF InsertsLabel, InsertLabel
  <2> QED BY <1>6, <2>1, <2>2, <2>3, <2>4
<1>7. CASE Saved(w)
  BY <1>7 DEF Saved
<1>8. CASE GraphWrites(w)
  BY <1>8 DEF GraphWrites
<1>9. CASE ProductWrites(w)
  BY <1>9 DEF ProductWrites
<1> QED
  BY <1>1, <1>2, <1>3, <1>4, <1>5, <1>6, <1>7, <1>8, <1>9 DEF WriterStep, WorkStep

-----------------------------------------------------------------------------
(***************************************************************************)
(* What each step of the walk does to the rows of its request.             *)
(***************************************************************************)

(* The rows w has written or is about to write.                            *)
Pending(w) == tx[w].versions \cup todo[w].versions
(* The memory rows that w has inserted or is about to insert.              *)
Made(w) == tx[w].memories \cup todo[w].memories

(* The part of w's state that its rows are described by.                   *)
Rows(w) == <<tx[w].flips, tx[w].memories, tx[w].versions,
             todo[w].flips, todo[w].memories, todo[w].versions>>

(* What the rows of w are written from.                                    *)
Script(w) == <<request[w], plan[w]>>

(* The current row of m is being superseded by the item w stands at.       *)
Superseding(w, m) ==
    At(w, "saving") /\ cursor[w] \in Versioned(request[w]) /\ ItemAt(w).uuid = m

(* A create adds a memory row and its first version to what waits.         *)
LEMMA CreateNewEffect ==
    ASSUME TypeOK, NEW w \in Writer, CreateNew(w)
    PROVE  /\ At(w, "items") /\ At(w, "items")' /\ Script(w)' = Script(w)
           /\ cur'[w] = cur[w] /\ cursor'[w] = cursor[w] + 1 /\ UNCHANGED <<dbVars, blobs>>
           /\ cursor[w] \in Created(request[w])
           /\ \E m \in Memory :
                /\ IF ItemAt(w).kind = "mint" THEN Fresh(m) ELSE m = ItemAt(w).uuid
                /\ Rows(w)' = <<tx[w].flips, tx[w].memories, tx[w].versions, todo[w].flips,
                                todo[w].memories \cup {NewMemoryRow(w, m)},
                                todo[w].versions \cup {FirstVersionRow(w, m)}>>
<1> PICK m \in Memory :
       /\ IF ItemAt(w).kind = "mint" THEN Fresh(m) ELSE m = ItemAt(w).uuid
       /\ todo' = [todo EXCEPT ![w] =
                    [@ EXCEPT !.memories = todo[w].memories \cup {NewMemoryRow(w, m)},
                              !.versions = todo[w].versions \cup {FirstVersionRow(w, m)}]]
  BY DEF CreateNew
<1> DEFINE D == [todo[w] EXCEPT !.memories = todo[w].memories \cup {NewMemoryRow(w, m)},
                               !.versions = todo[w].versions \cup {FirstVersionRow(w, m)}]
<1>1. /\ D.flips = todo[w].flips
      /\ D.memories = todo[w].memories \cup {NewMemoryRow(w, m)}
      /\ D.versions = todo[w].versions \cup {FirstVersionRow(w, m)}
  BY DEF TypeOK, RowSets
<1>2. todo' = [todo EXCEPT ![w] = D]
  OBVIOUS
<1> HIDE DEF D
<1>3. todo'[w] = D
  BY <1>2 DEF TypeOK
<1>4. UNCHANGED <<dbVars, blobs, pc, request, plan, cur, tx>> /\ cursor'[w] = cursor[w] + 1
  BY DEF CreateNew, TypeOK
<1>5. At(w, "items") /\ cursor[w] \in Created(request[w])
  BY DEF CreateNew, InItems
<1> QED BY <1>1, <1>3, <1>4, <1>5 DEF Rows, Script, At

(* An item that changes nothing only moves the walk on.                    *)
LEMMA KeepUnchangedEffect ==
    ASSUME TypeOK, NEW w \in Writer, KeepUnchanged(w)
    PROVE  /\ At(w, "items") /\ At(w, "items")' /\ Script(w)' = Script(w)
           /\ cur'[w] = cur[w] /\ cursor'[w] = cursor[w] + 1 /\ Rows(w)' = Rows(w)
           /\ cursor[w] \in DOMAIN request[w].items /\ IsUnchanged(w, cursor[w])
           /\ UNCHANGED <<dbVars, blobs>>
BY DEF KeepUnchanged, InItems, Script, Rows, At, TypeOK

(* The rows the item at hand supersedes before they were ever written.     *)
Unsaved(w) ==
    {v \in todo[w].versions : v.memory = ItemAt(w).uuid /\ v.version = cur[w][ItemAt(w).uuid]}

(* A version item clears the flag in memory, or queues an UPDATE that does.*)
LEMMA VersionExistingEffect ==
    ASSUME TypeOK, NEW w \in Writer, VersionExisting(w)
    PROVE  /\ At(w, "items") /\ At(w, "saving")' /\ Script(w)' = Script(w)
           /\ cur'[w] = cur[w] /\ cursor'[w] = cursor[w] /\ UNCHANGED <<dbVars, blobs>>
           /\ cursor[w] \in Versioned(request[w]) /\ ~IsUnchanged(w, cursor[w])
           /\ Rows(w)' = IF Unsaved(w) = {}
                THEN <<tx[w].flips, tx[w].memories, tx[w].versions,
                       todo[w].flips \cup {<<ItemAt(w).uuid, cur[w][ItemAt(w).uuid]>>}, todo[w].memories, todo[w].versions>>
                ELSE <<tx[w].flips, tx[w].memories, tx[w].versions,
                       todo[w].flips, todo[w].memories,
                       (todo[w].versions \ Unsaved(w)) \cup {[v EXCEPT !.current = FALSE] : v \in Unsaved(w)}>>
<1> DEFINE m == ItemAt(w).uuid
           unsaved == Unsaved(w)
           X == todo[w].flips \cup {<<m, cur[w][m]>>}
           Y == (todo[w].versions \ unsaved) \cup {[v EXCEPT !.current = FALSE] : v \in unsaved}
<1>1. todo' = IF unsaved = {} THEN [todo EXCEPT ![w].flips = X] ELSE [todo EXCEPT ![w].versions = Y]
  BY DEF VersionExisting, Unsaved
<1>2. /\ UNCHANGED <<dbVars, blobs, request, plan, cursor, cur, tx>> /\ At(w, "items") /\ At(w, "saving")'
      /\ cursor[w] \in Versioned(request[w]) /\ ~IsUnchanged(w, cursor[w])
  BY DEF VersionExisting, InItems, At, Goto, TypeOK
<1> HIDE DEF X, Y, unsaved
<1>3. Rows(w)' = IF unsaved = {}
        THEN <<tx[w].flips, tx[w].memories, tx[w].versions, X, todo[w].memories, todo[w].versions>>
        ELSE <<tx[w].flips, tx[w].memories, tx[w].versions, todo[w].flips, todo[w].memories, Y>>
  <2>1. CASE unsaved = {}
    BY <1>1, <1>2, <2>1 DEF Rows, TypeOK, RowSets
  <2>2. CASE unsaved # {}
    BY <1>1, <1>2, <2>2 DEF Rows, TypeOK, RowSets
  <2> QED BY <2>1, <2>2
<1> QED BY <1>2, <1>3 DEF X, Y, unsaved, Script

(* The UPDATE of a flag reaches a row of the overlay or a committed one.   *)
LEMMA FlipEffect ==
    ASSUME TypeOK, NEW w \in Writer, NEW k \in todo[w].flips, Flips(w, k)
    PROVE  /\ At(w, "saving") /\ At(w, "saving")' /\ Script(w)' = Script(w)
           /\ cur'[w] = cur[w] /\ cursor'[w] = cursor[w] /\ UNCHANGED <<dbVars, blobs>>
           /\ FlipWaitsFor(w, k) = {} /\ \E v \in VisibleVersions(w) : KeyOf(v) = k /\ v.current
           /\ Rows(w)' = IF \E v \in tx[w].versions : KeyOf(v) = k
                THEN <<tx[w].flips, tx[w].memories, Flipped(tx[w].versions, {k}),
                       todo[w].flips \ {k}, todo[w].memories, todo[w].versions>>
                ELSE <<tx[w].flips \cup {k}, tx[w].memories, tx[w].versions,
                       todo[w].flips \ {k}, todo[w].memories, todo[w].versions>>
<1> DEFINE X == tx[w].flips \cup {k}
           Y == Flipped(tx[w].versions, {k})
           Z == todo[w].flips \ {k}
           Mine == \E v \in tx[w].versions : KeyOf(v) = k
<1>1. /\ todo' = [todo EXCEPT ![w].flips = Z]
      /\ tx' = IF Mine THEN [tx EXCEPT ![w].versions = Y] ELSE [tx EXCEPT ![w].flips = X]
  BY DEF Flips, FlipCurrent
<1>2. /\ UNCHANGED <<dbVars, blobs, pc, request, plan, cursor, cur>> /\ At(w, "saving")
      /\ FlipWaitsFor(w, k) = {} /\ \E v \in VisibleVersions(w) : KeyOf(v) = k /\ v.current
  BY DEF Flips, FlipCurrent, FlipIsRefused
<1> HIDE DEF X, Y, Z, Mine
<1>3. Rows(w)' = IF Mine
        THEN <<tx[w].flips, tx[w].memories, Y, Z, todo[w].memories, todo[w].versions>>
        ELSE <<X, tx[w].memories, tx[w].versions, Z, todo[w].memories, todo[w].versions>>
  BY <1>1 DEF Rows, TypeOK, RowSets, Overlay
<1> QED BY <1>2, <1>3 DEF X, Y, Z, Mine, Script, At

(* An inserted memory row moves from what waits to the overlay.            *)
LEMMA InsertMemoryEffect ==
    ASSUME TypeOK, NEW w \in Writer, NEW p \in todo[w].memories, InsertsMemory(w, p)
    PROVE  /\ At(w, "saving") /\ At(w, "saving")' /\ Script(w)' = Script(w)
           /\ cur'[w] = cur[w] /\ cursor'[w] = cursor[w] /\ UNCHANGED <<dbVars, blobs>>
           /\ Rows(w)' = <<tx[w].flips, tx[w].memories \cup {p}, tx[w].versions,
                           todo[w].flips, todo[w].memories \ {p}, todo[w].versions>>
<1>1. /\ todo' = [todo EXCEPT ![w].memories = @ \ {p}]
      /\ tx' = [tx EXCEPT ![w].memories = @ \cup {p}]
      /\ UNCHANGED <<dbVars, blobs, pc, request, plan, cursor, cur>> /\ At(w, "saving")
  BY DEF InsertsMemory, InsertMemory
<1> QED BY <1>1 DEF Rows, Script, At, TypeOK, RowSets, Overlay

(* An inserted version row moves from what waits to the overlay.           *)
LEMMA InsertVersionEffect ==
    ASSUME TypeOK, NEW w \in Writer, NEW v \in todo[w].versions, InsertsVersion(w, v)
    PROVE  /\ At(w, "saving") /\ At(w, "saving")' /\ Script(w)' = Script(w)
           /\ cur'[w] = cur[w] /\ cursor'[w] = cursor[w] /\ UNCHANGED <<dbVars, blobs>>
           /\ \A p \in todo[w].memories : p.uuid # v.memory
           /\ ~VersionIsRefused(w, v)
           /\ Rows(w)' = <<tx[w].flips, tx[w].memories, tx[w].versions \cup {v},
                           todo[w].flips, todo[w].memories, todo[w].versions \ {v}>>
<1>1. /\ todo' = [todo EXCEPT ![w].versions = @ \ {v}]
      /\ tx' = [tx EXCEPT ![w].versions = @ \cup {v}]
      /\ UNCHANGED <<dbVars, blobs, pc, request, plan, cursor, cur>> /\ At(w, "saving")
      /\ \A p \in todo[w].memories : p.uuid # v.memory
      /\ ~VersionIsRefused(w, v)
  BY DEF InsertsVersion, InsertVersion
<1> QED BY <1>1 DEF Rows, Script, At, TypeOK, RowSets, Overlay

(* The next version of the item w stands at is added to its rows.          *)
SavedItem(w) == Saved(w) /\ cursor[w] \in DOMAIN request[w].items

(* After its flip, the next version of the item waits to be inserted.      *)
LEMMA SavedItemEffect ==
    ASSUME TypeOK, SavesAVersion, NEW w \in Writer, SavedItem(w)
    PROVE  /\ At(w, "saving") /\ At(w, "items")' /\ Script(w)' = Script(w)
           /\ todo[w] = NoRows /\ cursor[w] \in Versioned(request[w]) /\ ItemAt(w).uuid \in Memory
           /\ ItemAt(w).uuid \in Targets(request[w])
           /\ cur'[w] = [cur[w] EXCEPT ![ItemAt(w).uuid] = cur[w][ItemAt(w).uuid] + 1]
           /\ cursor'[w] = cursor[w] + 1 /\ UNCHANGED <<dbVars, blobs>>
           /\ Rows(w)' = <<tx[w].flips, tx[w].memories, tx[w].versions,
                           {}, {}, {NextVersionRow(w)}>>
<1> DEFINE m == ItemAt(w).uuid
<1>1. /\ todo' = [todo EXCEPT ![w].versions = {NextVersionRow(w)}]
      /\ cur' = [cur EXCEPT ![w][m] = @ + 1]
      /\ cursor' = [cursor EXCEPT ![w] = @ + 1]
      /\ UNCHANGED <<dbVars, blobs, request, plan, tx>> /\ At(w, "saving") /\ At(w, "items")'
      /\ todo[w] = NoRows
  BY DEF SavedItem, Saved, At, Goto, TypeOK
<1>2. cursor[w] \in Versioned(request[w]) /\ m \in Targets(request[w])
  BY <1>1 DEF SavedItem, SavesAVersion, Targets, ItemAt
<1>3. m \in Memory
  BY <1>2, RequestFacts DEF TypeOK
<1>4. todo'[w] = [todo[w] EXCEPT !.versions = {NextVersionRow(w)}]
  BY <1>1 DEF TypeOK
<1>5. todo'[w].flips = {} /\ todo'[w].memories = {} /\ todo'[w].versions = {NextVersionRow(w)}
  BY <1>1, <1>4 DEF NoRows
<1>6. cur'[w] = [cur[w] EXCEPT ![m] = cur[w][m] + 1] /\ cursor'[w] = cursor[w] + 1
  BY <1>1, <1>3 DEF TypeOK
<1> QED BY <1>1, <1>2, <1>3, <1>5, <1>6 DEF Rows, Script

(* The steps that leave the rows of the walk alone.                        *)
QuietStep(w) ==
    \/ SaveLabels(w) \/ \E n \in todo[w].labels : InsertsLabel(w, n)
    \/ Saved(w) /\ cursor[w] \notin DOMAIN request[w].items
    \/ GraphWrites(w) \/ ProductWrites(w)

(* What a quiet step leaves alone, and where it leads.                     *)
LEMMA QuietEffect ==
    ASSUME TypeOK, NEW w \in Writer, QuietStep(w)
    PROVE  /\ Script(w)' = Script(w) /\ cur'[w] = cur[w] /\ cursor'[w] = cursor[w]
           /\ UNCHANGED <<dbVars, blobs>> /\ Rows(w)' = Rows(w)
           /\ pc[w] \in Walking /\ pc'[w] \in Walking
           /\ pc[w] # "saving" /\ pc'[w] = "saving" => cursor[w] \notin DOMAIN request[w].items
           /\ pc[w] = "saving" /\ pc'[w] # "saving" => cursor[w] \notin DOMAIN request[w].items
           /\ pc'[w] \in {"graph", "product", "commit"} =>
                \/ pc[w] \in {"graph", "product", "commit"} /\ todo'[w] = todo[w]
                \/ todo'[w] = NoRows /\ cursor[w] \notin DOMAIN request[w].items
<1> USE DEF Walking, At, Goto
<1>1. CASE SaveLabels(w)
  BY <1>1 DEF SaveLabels, Script, Rows, TypeOK, RowSets
<1>2. ASSUME NEW n \in todo[w].labels, InsertsLabel(w, n)
      PROVE  Rows(w)' = Rows(w) /\ UNCHANGED <<dbVars, blobs, pc, request, plan, cursor, cur>>
             /\ pc[w] = "saving"
  BY <1>2 DEF InsertsLabel, InsertLabel, Rows, TypeOK, RowSets, Overlay
<1>3. CASE Saved(w) /\ cursor[w] \notin DOMAIN request[w].items
  BY <1>3 DEF Saved, Script, Rows, TypeOK
<1>4. CASE GraphWrites(w)
  <2> DEFINE T == [tx[w] EXCEPT !.links = LinkRows(w), !.abouts = AboutRows(w)]
  <2>1. T.memories = tx[w].memories /\ T.versions = tx[w].versions /\ T.flips = tx[w].flips
    BY DEF TypeOK, Overlay
  <2>2. tx' = [tx EXCEPT ![w] = T] \/ tx' = tx
    BY <1>4 DEF GraphWrites
  <2> HIDE DEF T
  <2>3. UNCHANGED <<tx[w].flips, tx[w].memories, tx[w].versions>>
    BY <2>1, <2>2 DEF TypeOK
  <2> QED BY <1>4, <2>3 DEF GraphWrites, Script, Rows, TypeOK
<1>5. CASE ProductWrites(w)
  BY <1>5 DEF ProductWrites, Script, Rows, TypeOK, Overlay
<1> QED BY <1>1, <1>2, <1>3, <1>4, <1>5 DEF QuietStep, Script

-----------------------------------------------------------------------------
(***************************************************************************)
(* The walk.  A request supersedes, for each memory it targets, the        *)
(* versions base+1 .. cur in order; the newest of them is current unless   *)
(* the item at hand is superseding it; the claims follow the batch.        *)
(***************************************************************************)

(* The items before the n-th that target m, and the claim they leave it.   *)
Before(r, m, n) == {j \in Versioned(r) : j < n /\ r.items[j].uuid = m}

(* The last of some items.                                                 *)
Latest(S) == CHOOSE j \in S : \A k \in S : k <= j

(* The claim that m has for the batch when it comes to item n.             *)
ClaimBefore(r, p, m, n) ==
    IF Before(r, m, n) = {} THEN p.claim[m] ELSE r.items[Latest(Before(r, m, n))].claim

(* The versions w has planned on.                                          *)
Base(w) == plan[w].base

(* The rows of each target are numbered from its base to cur, once each.   *)
RowsAreNumbered(w) ==
    /\ \A u, v \in Pending(w) : KeyOf(u) = KeyOf(v) => u = v
    /\ \A u \in tx[w].versions, v \in todo[w].versions : KeyOf(u) # KeyOf(v)
    /\ \A m \in Targets(request[w]) :
         /\ Base(w)[m] <= cur[w][m]
         /\ \A n \in Nat : Base(w)[m] < n /\ n <= cur[w][m]
              => \E v \in Pending(w) : v.memory = m /\ v.version = n
    /\ \A v \in Pending(w) : v.memory \in Targets(request[w])
         => Base(w)[v.memory] < v.version /\ v.version <= cur[w][v.memory]

(* The other rows are first versions of memories that w itself creates.    *)
RowsAreMade(w) ==
    /\ \A v \in Pending(w) : v.memory \notin Targets(request[w])
         => v.version = 1 /\ v.current /\ \E p \in Made(w) : p.uuid = v.memory
    /\ \A v \in tx[w].versions : v.memory \notin Targets(request[w])
         => \E p \in tx[w].memories : p.uuid = v.memory
    /\ \A p \in Made(w) :
         p.uuid \notin Targets(request[w]) /\ \E v \in Pending(w) : v.memory = p.uuid
    /\ \A p \in Made(w) : \E j \in Created(request[w]) :
         /\ j < cursor[w] /\ p.slug = request[w].items[j].slug
         /\ \/ p.uuid = request[w].items[j].uuid
            \/ request[w].items[j].uuid = Nobody /\ p.uuid \notin BatchUuids(request[w])

(* Only the newest row of a target is current, until it is superseded.     *)
MarksAreRight(w) ==
    \A v \in Pending(w) : v.memory \in Targets(request[w]) =>
      /\ v.version < cur[w][v.memory] => ~v.current
      /\ v.version = cur[w][v.memory] /\ ~Superseding(w, v.memory) => v.current
      /\ v.version = cur[w][v.memory] /\ Superseding(w, v.memory) =>
           /\ v \in todo[w].versions => ~v.current /\ KeyOf(v) \notin todo[w].flips
           /\ v \in tx[w].versions => (v.current <=> KeyOf(v) \in todo[w].flips)

(* w clears committed flags of its targets' bases only, and all it must.   *)
FlipsAreOurs(w) ==
    /\ \A k \in tx[w].flips :
         /\ k[1] \in Targets(request[w]) /\ k[2] = Base(w)[k[1]]
         /\ Base(w)[k[1]] < cur[w][k[1]] \/ Superseding(w, k[1])
    /\ \A k \in todo[w].flips : Superseding(w, k[1]) /\ k[2] = cur[w][k[1]]
    /\ \A m \in Targets(request[w]) :
         /\ Base(w)[m] < cur[w][m] => <<m, Base(w)[m]>> \in tx[w].flips
         /\ Base(w)[m] = cur[w][m] /\ Superseding(w, m)
              => <<m, Base(w)[m]>> \in tx[w].flips \cup todo[w].flips

(* The claims of the rows of a target follow the items, none repeated.     *)
ClaimsFollow(w) ==
    /\ \A m \in Targets(request[w]) : Base(w)[m] = cur[w][m]
         => ClaimBefore(request[w], plan[w], m, cursor[w]) = plan[w].claim[m]
    /\ \A v \in Pending(w) : v.memory \in Targets(request[w]) /\ v.version = cur[w][v.memory]
         => v.claim = ClaimBefore(request[w], plan[w], v.memory, cursor[w])
    /\ \A u, v \in Pending(w) :
         u.memory \in Targets(request[w]) /\ u.memory = v.memory /\ v.version = u.version + 1
           => u.claim # v.claim
    /\ \A v \in Pending(w) :
         v.memory \in Targets(request[w]) /\ v.version = Base(w)[v.memory] + 1
           => v.claim # plan[w].claim[v.memory]
    /\ At(w, "saving") /\ cursor[w] \in Versioned(request[w])
         => ItemAt(w).claim # ClaimBefore(request[w], plan[w], ItemAt(w).uuid, cursor[w])

(* What holds while the items of w are walked.                             *)
Walks(w) ==
    /\ cursor[w] <= Len(request[w].items) + 1
    /\ RowsAreNumbered(w) /\ RowsAreMade(w) /\ MarksAreRight(w)
    /\ FlipsAreOurs(w) /\ ClaimsFollow(w)

(* What planning has found out about the batch itself.                     *)
IsSane(r) ==
    /\ \A i, j \in Created(r) : j < i =>
         /\ r.items[j].slug # r.items[i].slug
         /\ r.items[i].uuid # Nobody => r.items[j].uuid # r.items[i].uuid
    /\ \A i \in Created(r) : r.items[i].uuid \notin Targets(r)

(* Before the walk and after the request there are no rows.                *)
IsAtRest(w) ==
    /\ pc[w] \notin Walking => tx[w] = NoTx /\ todo[w] = NoRows /\ cursor[w] = 1
    /\ pc[w] \in {"planned", "resolved"} => cur[w] = Base(w)

(* After the walk nothing waits to be saved.                               *)
HasSaved(w) ==
    pc[w] \in {"graph", "product", "commit"}
        => todo[w] = NoRows /\ cursor[w] \notin DOMAIN request[w].items

(* The invariant of one request.                                           *)
WalkInv(w) ==
    /\ IsAtRest(w) /\ HasSaved(w)
    /\ pc[w] \in Planned => IsSane(request[w])
    /\ pc[w] \in Walking => Walks(w)

-----------------------------------------------------------------------------

(* The walk depends on the rows, the plan and the place alone.             *)
LEMMA WalkKept ==
    ASSUME NEW w \in Writer, Script(w)' = Script(w), cur'[w] = cur[w], cursor'[w] = cursor[w],
           Rows(w)' = Rows(w), \A m : Superseding(w, m)' <=> Superseding(w, m),
           (At(w, "saving") /\ cursor[w] \in Versioned(request[w]))'
              => At(w, "saving"),
           Walks(w)
    PROVE  Walks(w)'
<1>1. /\ request'[w] = request[w] /\ plan'[w] = plan[w] /\ Pending(w)' = Pending(w) /\ Made(w)' = Made(w)
      /\ tx'[w].versions = tx[w].versions /\ todo'[w].versions = todo[w].versions
      /\ tx'[w].memories = tx[w].memories
      /\ tx'[w].flips = tx[w].flips /\ todo'[w].flips = todo[w].flips /\ Base(w)' = Base(w)
      /\ ItemAt(w)' = ItemAt(w)
  BY DEF Script, Rows, Pending, Made, Base, ItemAt
<1>2. RowsAreNumbered(w)'
  BY <1>1 DEF Walks, RowsAreNumbered
<1>3. RowsAreMade(w)'
  BY <1>1 DEF Walks, RowsAreMade
<1>4. MarksAreRight(w)'
  BY <1>1 DEF Walks, MarksAreRight
<1>5. FlipsAreOurs(w)'
  BY <1>1 DEF Walks, FlipsAreOurs
<1>6. ClaimsFollow(w)'
  BY <1>1 DEF Walks, ClaimsFollow
<1> QED BY <1>1, <1>2, <1>3, <1>4, <1>5, <1>6 DEF Walks

(* A quiet step preserves the walk.                                        *)
LEMMA QuietWalk ==
    ASSUME TypeInv, NEW w \in Writer, QuietStep(w), WalkInv(w)
    PROVE  WalkInv(w)'
<1>1. Walks(w)'
  BY QuietEffect, WalkKept DEF TypeInv, WalkInv, Superseding, At, Versioned, Script, ItemAt
<1>2. HasSaved(w)'
  BY QuietEffect DEF TypeInv, WalkInv, HasSaved, Script
<1> QED BY <1>1, <1>2, QuietEffect DEF TypeInv, WalkInv, Planned, IsAtRest, Script, Walking

(* What an item leaves its memory with is its own claim, and it leaves     *)
(* every other memory with what it had.                                    *)
LEMMA ItemClaim ==
    ASSUME NEW r \in Request \cup {NoRequest}, NEW p, NEW m, NEW n \in Versioned(r),
           r.items[n].uuid = m
    PROVE  ClaimBefore(r, p, m, n + 1) = r.items[n].claim
<1> DEFINE B == Before(r, m, n + 1)
           top == Latest(B)
<1>0. Versioned(r) \subseteq Nat \ {0}
  BY RequestFacts DEF Versioned
<1>1. n \in B /\ \A k \in B : k \in Nat /\ k <= n
  BY <1>0 DEF Before
<1>2. top \in B /\ \A k \in B : k <= top
  BY <1>1 DEF Latest
<1>3. top = n
  <2>1. top \in Nat /\ n \in Nat /\ top <= n /\ n <= top
    BY <1>0, <1>1, <1>2
  <2> QED BY <2>1
<1>4. ClaimBefore(r, p, m, n + 1) = r.items[top].claim
  BY <1>1 DEF ClaimBefore
<1> QED BY <1>3, <1>4

(* An item leaves the claims of the other memories as they were.           *)
LEMMA OtherClaim ==
    ASSUME NEW r \in Request \cup {NoRequest}, NEW p, NEW m, NEW n \in Nat,
           n \in Versioned(r) => r.items[n].uuid # m
    PROVE  ClaimBefore(r, p, m, n + 1) = ClaimBefore(r, p, m, n)
<1>1. Versioned(r) \subseteq Nat \ {0}
  BY RequestFacts DEF Versioned
<1>2. Before(r, m, n + 1) = Before(r, m, n)
  BY <1>1 DEF Before
<1> QED BY <1>2 DEF ClaimBefore

(* Before the first item, every memory has the claim that was read.        *)
LEMMA FirstClaim ==
    ASSUME NEW r \in Request \cup {NoRequest}, NEW p, NEW m
    PROVE  ClaimBefore(r, p, m, 1) = p.claim[m]
<1>1. Versioned(r) \subseteq Nat \ {0}
  BY RequestFacts DEF Versioned
<1>2. Before(r, m, 1) = {}
  BY <1>1 DEF Before
<1> QED BY <1>2 DEF ClaimBefore

(* What an item is compared with is the claim the batch has left.          *)
LEMMA LastClaimIsClaimBefore ==
    ASSUME NEW w \in Writer, NEW i
    PROVE  LastClaim(w, i) = ClaimBefore(request[w], plan[w], request[w].items[i].uuid, i)
BY DEF LastClaim, ClaimBefore, Before, Latest

(* The walk begins with nothing written and nothing bumped.                *)
LEMMA StartWalk ==
    ASSUME TypeInv, NEW w \in Writer, StoreBlobs(w), WalkInv(w)
    PROVE  WalkInv(w)'
<1>1. /\ request'[w] = request[w] /\ plan'[w] = plan[w] /\ cur'[w] = cur[w] /\ cursor'[w] = 1
      /\ tx'[w] = NoTx /\ todo'[w] = NoRows /\ pc'[w] = "items" /\ cur[w] = plan[w].base
      /\ IsSane(request[w])
  BY DEF StoreBlobs, WalkInv, IsAtRest, At, Goto, Walking, Planned, TypeInv, TypeOK, Base
<1>2. /\ request[w] \in Request \cup {NoRequest} /\ plan[w] \in Plan
      /\ Targets(request[w]) \subseteq Memory
  BY RequestFacts DEF TypeInv, TypeOK
<1>3. \A m \in Memory : plan[w].base[m] \in Nat
  BY <1>2 DEF Plan
<1>4. Pending(w)' = {} /\ Made(w)' = {}
  BY <1>1 DEF Pending, Made, NoTx, NoRows
<1>5. RowsAreNumbered(w)'
  BY <1>1, <1>2, <1>3, <1>4 DEF RowsAreNumbered, Base, NoTx
<1>6. RowsAreMade(w)'
  BY <1>1, <1>4 DEF RowsAreMade, NoTx
<1>7. MarksAreRight(w)'
  BY <1>4 DEF MarksAreRight
<1>8. FlipsAreOurs(w)'
  BY <1>1, <1>2, <1>3 DEF FlipsAreOurs, Base, NoTx, NoRows, Superseding, At
<1>9. ClaimsFollow(w)'
  BY <1>1, <1>2, <1>4, FirstClaim DEF ClaimsFollow, At
<1>10. Len(request[w].items) \in Nat
  BY <1>2, RequestFacts
<1>11. Walks(w)'
  BY <1>1, <1>5, <1>6, <1>7, <1>8, <1>9, <1>10 DEF Walks
<1> QED BY <1>1, <1>11 DEF WalkInv, IsAtRest, HasSaved, Walking, Planned

(* A new memory has no rows yet: its uuid is neither a target nor that of  *)
(* an earlier item, nor of a row that is already pending.                  *)
LEMMA CreateNewWalk ==
    ASSUME TypeInv, NEW w \in Writer, CreateNew(w), WalkInv(w)
    PROVE  WalkInv(w)'
<1> DEFINE r == request[w]
<1>1. /\ pc[w] = "items" /\ pc'[w] = "items" /\ request'[w] = r /\ plan'[w] = plan[w]
      /\ cur'[w] = cur[w] /\ cursor'[w] = cursor[w] + 1 /\ cursor[w] \in Created(r)
      /\ Walks(w) /\ IsSane(r)
  BY CreateNewEffect DEF TypeInv, At, Script, WalkInv, Walking, Planned
<1>2. PICK m \in Memory :
        /\ IF ItemAt(w).kind = "mint" THEN Fresh(m) ELSE m = ItemAt(w).uuid
        /\ Rows(w)' = <<tx[w].flips, tx[w].memories, tx[w].versions, todo[w].flips,
                        todo[w].memories \cup {NewMemoryRow(w, m)},
                        todo[w].versions \cup {FirstVersionRow(w, m)}>>
  BY CreateNewEffect DEF TypeInv
<1> DEFINE p == NewMemoryRow(w, m)
           v == FirstVersionRow(w, m)
<1>3. /\ tx'[w].flips = tx[w].flips /\ todo'[w].flips = todo[w].flips
      /\ tx'[w].memories = tx[w].memories /\ tx'[w].versions = tx[w].versions
      /\ todo'[w].versions = todo[w].versions \cup {v}
      /\ Pending(w)' = Pending(w) \cup {v} /\ Made(w)' = Made(w) \cup {p}
  BY <1>2 DEF Rows, Pending, Made
<1>4. /\ p.uuid = m /\ p.slug = ItemAt(w).slug
      /\ v.memory = m /\ v.version = 1 /\ v.current /\ KeyOf(v) = <<m, 1>>
  BY DEF NewMemoryRow, FirstVersionRow, KeyOf
<1>5. /\ r \in Request \cup {NoRequest} /\ cursor[w] \in DOMAIN r.items /\ cursor[w] \in Nat
      /\ DOMAIN r.items = 1 .. Len(r.items) /\ Len(r.items) \in Nat
      /\ r.items[cursor[w]].kind # "version"
  BY <1>1, RequestFacts DEF TypeInv, TypeOK, Created, Versioned
<1>6. r \in Request
  <2>1. NoRequest.items = <<>>
    BY DEF NoRequest
  <2> QED BY <1>5, <2>1
<1>7. /\ m \notin Targets(r) /\ \A q \in Made(w) : q.uuid # m
      /\ m = ItemAt(w).uuid \/ (ItemAt(w).uuid = Nobody /\ m \notin BatchUuids(r))
  <2>1. CASE ItemAt(w).kind = "mint"
    <3>1. /\ m \notin BatchUuids(r) /\ \A q \in Made(w) : q.uuid # m
          /\ ItemAt(w).uuid = Nobody
      BY <1>2, <1>5, <1>6, <2>1, RequestsAreValid DEF Fresh, Made, ItemAt
    <3>2. Targets(r) \subseteq BatchUuids(r)
      BY <1>5, RequestFacts, ConstantsAreTyped DEF Targets, BatchUuids, Versioned
    <3> QED BY <3>1, <3>2
  <2>2. CASE ItemAt(w).kind # "mint"
    <3>1. m = r.items[cursor[w]].uuid /\ m # Nobody
      BY <1>2, <2>2, ConstantsAreTyped DEF ItemAt
    <3>2. m \notin Targets(r)
      BY <1>1, <3>1 DEF IsSane
    <3>3. m \in BatchUuids(r)
      BY <1>5, <3>1 DEF BatchUuids
    <3>4. ASSUME NEW q \in Made(w), q.uuid = m PROVE FALSE
      <4>1. PICK j \in Created(r) :
              /\ j < cursor[w]
              /\ q.uuid = r.items[j].uuid \/ q.uuid \notin BatchUuids(r)
        BY <1>1 DEF Walks, RowsAreMade
      <4>2. r.items[j].uuid = m
        BY <3>3, <3>4, <4>1
      <4> QED BY <1>1, <3>1, <4>1, <4>2 DEF IsSane
    <3>5. m = ItemAt(w).uuid
      BY <1>2, <2>2
    <3> QED BY <3>2, <3>4, <3>5
  <2> QED BY <2>1, <2>2
<1>8. \A q \in Pending(w) : q.memory # m /\ KeyOf(q) # <<m, 1>>
  BY <1>1, <1>7 DEF Walks, RowsAreMade, KeyOf
<1>9. \A n : ~Superseding(w, n) /\ ~Superseding(w, n)'
  BY <1>1 DEF Superseding, At
<1> HIDE DEF p, v
<1>10. RowsAreNumbered(w)'
  BY <1>1, <1>3, <1>4, <1>7, <1>8 DEF Walks, RowsAreNumbered, Base, Pending
<1>11. RowsAreMade(w)'
  <2>1. \A u \in Pending(w)' : u.memory \notin Targets(r)
           => u.version = 1 /\ u.current /\ \E q \in Made(w)' : q.uuid = u.memory
    BY <1>1, <1>3, <1>4 DEF Walks, RowsAreMade
  <2>2. \A u \in tx[w].versions : u.memory \notin Targets(r)
           => \E q \in tx[w].memories : q.uuid = u.memory
    BY <1>1 DEF Walks, RowsAreMade
  <2>3. \A q \in Made(w)' :
           q.uuid \notin Targets(r) /\ \E u \in Pending(w)' : u.memory = q.uuid
    BY <1>1, <1>3, <1>4, <1>7 DEF Walks, RowsAreMade
  <2>4. ASSUME NEW q \in Made(w)'
        PROVE  \E j \in Created(r) :
                 /\ j < cursor[w] + 1 /\ q.slug = r.items[j].slug
                 /\ \/ q.uuid = r.items[j].uuid
                    \/ r.items[j].uuid = Nobody /\ q.uuid \notin BatchUuids(r)
    <3>1. CASE q = p
      BY <1>1, <1>4, <1>5, <1>7, <3>1 DEF ItemAt
    <3>2. CASE q \in Made(w)
      <4>1. PICK j \in Created(r) :
              /\ j < cursor[w] /\ q.slug = r.items[j].slug
              /\ \/ q.uuid = r.items[j].uuid
                 \/ r.items[j].uuid = Nobody /\ q.uuid \notin BatchUuids(r)
        BY <1>1, <3>2 DEF Walks, RowsAreMade
      <4>2. j < cursor[w] + 1
        BY <1>5, <4>1 DEF Created
      <4> QED BY <4>1, <4>2
    <3> QED BY <1>3, <3>1, <3>2
  <2> QED BY <1>1, <1>3, <2>1, <2>2, <2>3, <2>4 DEF RowsAreMade
<1>12. MarksAreRight(w)'
  BY <1>1, <1>3, <1>4, <1>7, <1>9 DEF Walks, MarksAreRight
<1>13. FlipsAreOurs(w)'
  BY <1>1, <1>3, <1>9 DEF Walks, FlipsAreOurs, Base
<1>14. ClaimsFollow(w)'
  <2>1. \A n : ClaimBefore(r, plan[w], n, cursor[w] + 1) = ClaimBefore(r, plan[w], n, cursor[w])
    BY <1>1, <1>5, OtherClaim DEF Created
  <2> QED
    BY <1>1, <1>3, <1>4, <1>7, <1>8, <2>1 DEF Walks, ClaimsFollow, Base, At
<1>15. Walks(w)'
  BY <1>1, <1>5, <1>10, <1>11, <1>12, <1>13, <1>14 DEF Walks
<1> QED BY <1>1, <1>15 DEF WalkInv, IsAtRest, HasSaved, Walking, Planned

(* Skipping an item that changes nothing preserves the walk.               *)
LEMMA KeepUnchangedWalk ==
    ASSUME TypeInv, NEW w \in Writer, KeepUnchanged(w), WalkInv(w)
    PROVE  WalkInv(w)'
<1> DEFINE r == request[w]
<1>1. /\ pc[w] = "items" /\ pc'[w] = "items" /\ request'[w] = r /\ plan'[w] = plan[w]
      /\ cur'[w] = cur[w] /\ cursor'[w] = cursor[w] + 1 /\ cursor[w] \in DOMAIN r.items
      /\ Walks(w) /\ IsSane(r) /\ IsUnchanged(w, cursor[w])
  BY KeepUnchangedEffect DEF TypeInv, At, Script, WalkInv, Walking, Planned
<1>2. /\ tx'[w].flips = tx[w].flips /\ todo'[w].flips = todo[w].flips
      /\ tx'[w].memories = tx[w].memories /\ tx'[w].versions = tx[w].versions
      /\ todo'[w].versions = todo[w].versions
      /\ Pending(w)' = Pending(w) /\ Made(w)' = Made(w) /\ Base(w)' = Base(w)
  BY <1>1, KeepUnchangedEffect DEF TypeInv, Rows, Pending, Made, Base
<1>3. /\ r \in Request \cup {NoRequest} /\ cursor[w] \in Nat
      /\ DOMAIN r.items = 1 .. Len(r.items) /\ Len(r.items) \in Nat
  BY RequestFacts DEF TypeInv, TypeOK
<1>4. \A n : ~Superseding(w, n) /\ ~Superseding(w, n)'
  BY <1>1 DEF Superseding, At
<1>5. \A m : ClaimBefore(r, plan[w], m, cursor[w] + 1) = ClaimBefore(r, plan[w], m, cursor[w])
  <2> SUFFICES ASSUME NEW m, cursor[w] \in Versioned(r), r.items[cursor[w]].uuid = m
               PROVE  ClaimBefore(r, plan[w], m, cursor[w] + 1) = ClaimBefore(r, plan[w], m, cursor[w])
    BY <1>3, OtherClaim
  <2>1. ClaimBefore(r, plan[w], m, cursor[w] + 1) = r.items[cursor[w]].claim
    BY <1>3, ItemClaim
  <2>2. r.items[cursor[w]].claim = ClaimBefore(r, plan[w], m, cursor[w])
    BY <1>1, LastClaimIsClaimBefore DEF IsUnchanged
  <2> QED BY <2>1, <2>2
<1>6. RowsAreNumbered(w)' /\ MarksAreRight(w)' /\ FlipsAreOurs(w)'
  <2>1. RowsAreNumbered(w)'
    BY <1>1, <1>2 DEF Walks, RowsAreNumbered
  <2>2. MarksAreRight(w)'
    BY <1>1, <1>2, <1>4 DEF Walks, MarksAreRight
  <2>3. FlipsAreOurs(w)'
    BY <1>1, <1>2, <1>4 DEF Walks, FlipsAreOurs
  <2> QED BY <2>1, <2>2, <2>3
<1>7. RowsAreMade(w)'
  <2>1. \A j \in Created(r) : j < cursor[w] => j < cursor[w] + 1
    BY <1>3 DEF Created
  <2> QED BY <1>1, <1>2, <2>1 DEF Walks, RowsAreMade
<1>8. ClaimsFollow(w)'
  BY <1>1, <1>2, <1>5 DEF Walks, ClaimsFollow, At
<1>9. Walks(w)'
  BY <1>1, <1>3, <1>6, <1>7, <1>8 DEF Walks
<1> QED BY <1>1, <1>9 DEF WalkInv, IsAtRest, HasSaved, Walking, Planned

(* While nothing is being superseded nothing waits to be flipped.          *)
LEMMA SupersedingIsTheItem ==
    ASSUME NEW w, NEW m, NEW n, Superseding(w, m)
    PROVE  m = ItemAt(w).uuid /\ m \in Targets(request[w]) /\ (Superseding(w, n) => n = m)
BY DEF Superseding, Targets, ItemAt

(* Superseding the current row preserves the walk.                         *)
LEMMA VersionExistingWalk ==
    ASSUME TypeInv, NEW w \in Writer, VersionExisting(w), WalkInv(w)
    PROVE  WalkInv(w)'
<1> DEFINE r == request[w]
           m == ItemAt(w).uuid
           unsaved == Unsaved(w)
           cleared == {[v EXCEPT !.current = FALSE] : v \in unsaved}
<1>1. /\ pc[w] = "items" /\ pc'[w] = "saving" /\ request'[w] = r /\ plan'[w] = plan[w]
      /\ cur'[w] = cur[w] /\ cursor'[w] = cursor[w] /\ cursor[w] \in Versioned(r)
      /\ Walks(w) /\ IsSane(r) /\ ~IsUnchanged(w, cursor[w])
      /\ Rows(w)' = IF unsaved = {}
           THEN <<tx[w].flips, tx[w].memories, tx[w].versions,
                  todo[w].flips \cup {<<m, cur[w][m]>>}, todo[w].memories, todo[w].versions>>
           ELSE <<tx[w].flips, tx[w].memories, tx[w].versions,
                  todo[w].flips, todo[w].memories, (todo[w].versions \ unsaved) \cup cleared>>
  BY VersionExistingEffect DEF TypeInv, At, Script, WalkInv, Walking, Planned
<1>2. /\ tx'[w].flips = tx[w].flips /\ tx'[w].memories = tx[w].memories
      /\ tx'[w].versions = tx[w].versions /\ Made(w)' = Made(w) /\ Base(w)' = Base(w)
      /\ IF unsaved = {}
         THEN todo'[w].flips = todo[w].flips \cup {<<m, cur[w][m]>>} /\ todo'[w].versions = todo[w].versions
         ELSE /\ todo'[w].flips = todo[w].flips
              /\ todo'[w].versions = (todo[w].versions \ unsaved) \cup cleared
  BY <1>1 DEF Rows, Made, Base
<1>3. m \in Targets(r) /\ Targets(r) \subseteq Memory
  BY <1>1, RequestFacts DEF Targets, ItemAt, TypeInv, TypeOK
<1>4. \A n : ~Superseding(w, n) /\ (Superseding(w, n)' <=> n = m)
  BY <1>1 DEF Superseding, At, ItemAt
<1>5. todo[w].flips = {}
  BY <1>1, <1>4 DEF Walks, FlipsAreOurs
<1>6. ItemAt(w).claim # ClaimBefore(r, plan[w], m, cursor[w])
  BY <1>1, LastClaimIsClaimBefore DEF IsUnchanged, ItemAt
<1>7. /\ \A n \in Memory : cur[w][n] \in Nat /\ Base(w)[n] \in Nat
      /\ \A v \in Pending(w) : v \in VersionRow
  BY DEF TypeInv, TypeOK, Plan, Base, Pending, RowSets, Overlay
<1>8. CASE unsaved = {}
  <2>1. Pending(w)' = Pending(w) /\ todo'[w].versions = todo[w].versions
    BY <1>2, <1>8 DEF Pending
  <2>2. todo'[w].flips = {<<m, cur[w][m]>>}
    BY <1>2, <1>5, <1>8
  <2>3. \A v \in Pending(w) : v.memory = m /\ v.version = cur[w][m]
          => v \notin todo[w].versions /\ KeyOf(v) \in todo'[w].flips
    BY <1>8, <2>2 DEF KeyOf, Unsaved
  <2> HIDE DEF r, m, unsaved, cleared
  <2>4. RowsAreNumbered(w)'
    BY <1>1, <1>2, <2>1 DEF Walks, RowsAreNumbered, r
  <2>5. RowsAreMade(w)'
    BY <1>1, <1>2, <2>1 DEF Walks, RowsAreMade, r
  <2>6. MarksAreRight(w)'
    BY <1>1, <1>2, <1>4, <2>1, <2>3 DEF Walks, MarksAreRight, r
  <2>7. FlipsAreOurs(w)'
    BY <1>1, <1>2, <1>3, <1>4, <2>2 DEF Walks, FlipsAreOurs, r
  <2>8. ClaimsFollow(w)'
    <3>1. /\ Targets(request'[w]) = Targets(r) /\ cur'[w] = cur[w] /\ cursor'[w] = cursor[w]
          /\ plan'[w] = plan[w] /\ request'[w] = r /\ Base(w)' = Base(w) /\ ItemAt(w)' = ItemAt(w)
      BY <1>1, <1>2 DEF ItemAt, r
    <3>2. ItemAt(w).claim # ClaimBefore(r, plan[w], ItemAt(w).uuid, cursor[w])
      BY <1>6 DEF m
    <3>3. ClaimsFollow(w)
      BY <1>1 DEF Walks
    <3> QED BY <2>1, <3>1, <3>2, <3>3 DEF ClaimsFollow, r
  <2> QED BY <1>1, <2>4, <2>5, <2>6, <2>7, <2>8 DEF Walks, WalkInv, IsAtRest, HasSaved, Walking, Planned, r
<1>9. CASE unsaved # {}
  <2>1. PICK v0 \in todo[w].versions : v0.memory = m /\ v0.version = cur[w][m]
    BY <1>9 DEF Unsaved
  <2> DEFINE v1 == [v0 EXCEPT !.current = FALSE]
  <2>2. unsaved = {v0} /\ v0 \notin tx[w].versions
    BY <1>1, <2>1 DEF Walks, RowsAreNumbered, Pending, KeyOf, Unsaved
  <2>3. /\ v1.memory = m /\ v1.version = cur[w][m] /\ v1.claim = v0.claim /\ ~v1.current
        /\ KeyOf(v1) = KeyOf(v0) /\ KeyOf(v0) = <<m, cur[w][m]>>
    BY <1>7, <2>1 DEF VersionRow, KeyOf, Pending
  <2>4. cleared = {v1}
    BY <2>2
  <2>5. /\ todo'[w].versions = (todo[w].versions \ {v0}) \cup {v1}
        /\ Pending(w)' = (Pending(w) \ {v0}) \cup {v1} /\ todo'[w].flips = {}
    BY <1>2, <1>5, <1>9, <2>1, <2>2, <2>4 DEF Pending
  <2>6. v0 \in Pending(w) /\ Base(w)[m] < cur[w][m]
    BY <1>1, <1>3, <2>1 DEF Walks, RowsAreNumbered, Pending
  <2> HIDE DEF r, m, unsaved, cleared, v1
  <2>7. RowsAreNumbered(w)'
    <3>1. RowsAreNumbered(w) /\ v0 \in todo[w].versions /\ request'[w] = r /\ cur'[w] = cur[w]
      BY <1>1, <2>1 DEF Walks
    <3>2. \A u, v \in Pending(w)' : KeyOf(u) = KeyOf(v) => u = v
      BY <2>3, <2>5, <2>6, <3>1 DEF RowsAreNumbered
    <3>3. \A u \in tx'[w].versions, v \in todo'[w].versions : KeyOf(u) # KeyOf(v)
      BY <1>2, <2>3, <2>5, <3>1 DEF RowsAreNumbered
    <3>4. ASSUME NEW n \in Targets(r)
          PROVE  /\ Base(w)[n] <= cur[w][n]
                 /\ \A i \in Nat : Base(w)[n] < i /\ i <= cur[w][n]
                      => \E v \in Pending(w)' : v.memory = n /\ v.version = i
      BY <2>1, <2>3, <2>5, <3>1 DEF RowsAreNumbered, r
    <3>5. \A v \in Pending(w)' : v.memory \in Targets(r)
            => Base(w)[v.memory] < v.version /\ v.version <= cur[w][v.memory]
      BY <2>1, <2>3, <2>5, <2>6, <3>1 DEF RowsAreNumbered, r
    <3> QED BY <1>2, <3>1, <3>2, <3>3, <3>4, <3>5 DEF RowsAreNumbered, r
  <2>8. RowsAreMade(w)'
    BY <1>1, <1>2, <1>3, <2>1, <2>3, <2>5 DEF Walks, RowsAreMade, r
  <2>9. MarksAreRight(w)'
    <3>1. \A x \in Pending(w) \ {v0} : ~(x.memory = m /\ x.version = cur[w][m])
      BY <1>1, <2>3, <2>6 DEF Walks, RowsAreNumbered, KeyOf
    <3>2. \A x \in Pending(w) \ {v0} : x.memory \in Targets(r) =>
            /\ x.version < cur[w][x.memory] => ~x.current
            /\ x.version = cur[w][x.memory] => x.current /\ x.memory # m
      BY <1>1, <1>4, <3>1 DEF Walks, MarksAreRight, r
    <3>3. v1 \notin tx[w].versions
      BY <1>1, <2>1, <2>3 DEF Walks, RowsAreNumbered
    <3> QED BY <1>1, <1>2, <1>4, <2>3, <2>5, <3>2, <3>3 DEF MarksAreRight, r
  <2>10. FlipsAreOurs(w)'
    <3>1. \A n : Base(w)[n] = cur[w][n] => n # m
      BY <1>3, <1>7, <2>6
    <3> QED BY <1>1, <1>2, <1>3, <1>4, <2>5, <3>1 DEF Walks, FlipsAreOurs, r
  <2>11. ClaimsFollow(w)'
    <3>1. \A x \in Pending(w)' : \E y \in Pending(w) :
            y.memory = x.memory /\ y.version = x.version /\ y.claim = x.claim
      BY <2>1, <2>3, <2>5, <2>6
    <3>2. ItemAt(w)' = ItemAt(w)
      BY <1>1 DEF r, ItemAt
    <3>3. /\ \A n \in Targets(r) : Base(w)[n] = cur[w][n]
               => ClaimBefore(r, plan[w], n, cursor[w]) = plan[w].claim[n]
          /\ \A v \in Pending(w)' : v.memory \in Targets(r) /\ v.version = cur[w][v.memory]
               => v.claim = ClaimBefore(r, plan[w], v.memory, cursor[w])
          /\ \A v \in Pending(w)' : v.memory \in Targets(r) /\ v.version = Base(w)[v.memory] + 1
               => v.claim # plan[w].claim[v.memory]
      <4>1. \A n \in Targets(r) : Base(w)[n] = cur[w][n]
              => ClaimBefore(r, plan[w], n, cursor[w]) = plan[w].claim[n]
        BY <1>1 DEF Walks, ClaimsFollow, r
      <4>2. ASSUME NEW v \in Pending(w)', v.memory \in Targets(r)
            PROVE  /\ v.version = cur[w][v.memory] => v.claim = ClaimBefore(r, plan[w], v.memory, cursor[w])
                   /\ v.version = Base(w)[v.memory] + 1 => v.claim # plan[w].claim[v.memory]
        <5>1. PICK y \in Pending(w) : y.memory = v.memory /\ y.version = v.version /\ y.claim = v.claim
          BY <3>1
        <5> QED BY <1>1, <4>2, <5>1 DEF Walks, ClaimsFollow, r
      <4> QED BY <4>1, <4>2
    <3>4. ASSUME NEW u \in Pending(w)', NEW v \in Pending(w)',
                 u.memory \in Targets(r), u.memory = v.memory, v.version = u.version + 1
          PROVE  u.claim # v.claim
      <4>1. PICK x \in Pending(w) : x.memory = u.memory /\ x.version = u.version /\ x.claim = u.claim
        BY <3>1
      <4>2. PICK y \in Pending(w) : y.memory = v.memory /\ y.version = v.version /\ y.claim = v.claim
        BY <3>1
      <4> QED BY <1>1, <3>4, <4>1, <4>2 DEF Walks, ClaimsFollow, r
    <3> QED BY <1>1, <1>2, <1>6, <3>2, <3>3, <3>4 DEF ClaimsFollow, r, m
  <2> QED BY <1>1, <2>7, <2>8, <2>9, <2>10, <2>11 DEF Walks, WalkInv, IsAtRest, HasSaved, Walking, Planned, r
<1> QED BY <1>8, <1>9

(* A row whose flag is cleared by an UPDATE is the row it was but for that.*)
Marked(u, F) == [u EXCEPT !.current = u.current /\ KeyOf(u) \notin F]

(* v is u but for its flag.                                                *)
Resembles(v, u) ==
    /\ v.memory = u.memory /\ v.version = u.version /\ v.claim = u.claim /\ v.by = u.by
    /\ KeyOf(v) = KeyOf(u)

(* A marked row resembles the row, and keeps its flag unless it is flipped.*)
LEMMA MarkedFacts ==
    ASSUME NEW u \in VersionRow, NEW F
    PROVE  Resembles(Marked(u, F), u) /\ (Marked(u, F).current <=> u.current /\ KeyOf(u) \notin F)
<1> DEFINE X == u.current /\ KeyOf(u) \notin F
           v == [u EXCEPT !.current = X]
<1> HIDE DEF X
<1>1. v.memory = u.memory /\ v.version = u.version /\ v.claim = u.claim /\ v.by = u.by /\ v.current = X
  BY DEF VersionRow
<1>2. Marked(u, F) = v
  BY DEF Marked, X
<1> HIDE DEF v
<1>3. Resembles(v, u)
  BY <1>1 DEF Resembles, KeyOf
<1> QED BY <1>1, <1>2, <1>3 DEF X

(* The rows of a flipped table are the marked rows of the table.           *)
LEMMA FlippedFacts ==
    ASSUME NEW R \in SUBSET VersionRow, NEW F
    PROVE  /\ \A v \in Flipped(R, F) : \E u \in R : v = Marked(u, F)
           /\ \A u \in R : Marked(u, F) \in Flipped(R, F) /\ Resembles(Marked(u, F), u)
                            /\ (Marked(u, F).current <=> u.current /\ KeyOf(u) \notin F)
<1>1. Flipped(R, F) = {Marked(u, F) : u \in R}
  BY DEF Flipped, Marked
<1>2. \A u \in R : Marked(u, F) \in Flipped(R, F)
  BY <1>1
<1>3. ASSUME NEW u \in R
      PROVE  Resembles(Marked(u, F), u) /\ (Marked(u, F).current <=> u.current /\ KeyOf(u) \notin F)
  <2>1. u \in VersionRow
    OBVIOUS
  <2> QED BY <2>1, MarkedFacts
<1> QED BY <1>1, <1>2, <1>3

(* Inserting a memory row preserves the walk.                              *)
LEMMA InsertMemoryWalk ==
    ASSUME TypeInv, NEW w \in Writer, NEW p \in todo[w].memories, InsertsMemory(w, p), WalkInv(w)
    PROVE  WalkInv(w)'
<1>1. /\ pc[w] = "saving" /\ pc'[w] = "saving" /\ Script(w)' = Script(w)
      /\ cur'[w] = cur[w] /\ cursor'[w] = cursor[w] /\ Walks(w) /\ IsSane(request[w])
      /\ Rows(w)' = <<tx[w].flips, tx[w].memories \cup {p}, tx[w].versions,
                      todo[w].flips, todo[w].memories \ {p}, todo[w].versions>>
  BY InsertMemoryEffect DEF TypeInv, At, WalkInv, Walking, Planned
<1>2. /\ request'[w] = request[w] /\ plan'[w] = plan[w] /\ Base(w)' = Base(w)
      /\ tx'[w].flips = tx[w].flips /\ todo'[w].flips = todo[w].flips
      /\ tx'[w].versions = tx[w].versions /\ todo'[w].versions = todo[w].versions
      /\ tx'[w].memories = tx[w].memories \cup {p}
      /\ Pending(w)' = Pending(w) /\ Made(w)' = Made(w) /\ ItemAt(w)' = ItemAt(w)
  BY <1>1 DEF Rows, Pending, Made, Script, Base, ItemAt
<1>3. \A m : Superseding(w, m)' <=> Superseding(w, m)
  BY <1>1, <1>2 DEF Superseding, At
<1>4. RowsAreNumbered(w)'
  BY <1>1, <1>2 DEF Walks, RowsAreNumbered
<1>5. RowsAreMade(w)'
  BY <1>1, <1>2 DEF Walks, RowsAreMade
<1>6. MarksAreRight(w)'
  BY <1>1, <1>2, <1>3 DEF Walks, MarksAreRight
<1>7. FlipsAreOurs(w)'
  BY <1>1, <1>2, <1>3 DEF Walks, FlipsAreOurs
<1>8. ClaimsFollow(w)'
  BY <1>1, <1>2 DEF Walks, ClaimsFollow, At
<1> QED
  BY <1>1, <1>2, <1>4, <1>5, <1>6, <1>7, <1>8 DEF Walks, WalkInv, IsAtRest, HasSaved, Walking, Planned

(* Inserting a version row preserves the walk.                             *)
LEMMA InsertVersionWalk ==
    ASSUME TypeInv, NEW w \in Writer, NEW x \in todo[w].versions, InsertsVersion(w, x), WalkInv(w)
    PROVE  WalkInv(w)'
<1>1. /\ pc[w] = "saving" /\ pc'[w] = "saving" /\ Script(w)' = Script(w)
      /\ cur'[w] = cur[w] /\ cursor'[w] = cursor[w] /\ Walks(w) /\ IsSane(request[w])
      /\ \A p \in todo[w].memories : p.uuid # x.memory
      /\ Rows(w)' = <<tx[w].flips, tx[w].memories, tx[w].versions \cup {x},
                      todo[w].flips, todo[w].memories, todo[w].versions \ {x}>>
  BY InsertVersionEffect DEF TypeInv, At, WalkInv, Walking, Planned
<1>2. /\ request'[w] = request[w] /\ plan'[w] = plan[w] /\ Base(w)' = Base(w)
      /\ tx'[w].flips = tx[w].flips /\ todo'[w].flips = todo[w].flips
      /\ tx'[w].versions = tx[w].versions \cup {x} /\ todo'[w].versions = todo[w].versions \ {x}
      /\ tx'[w].memories = tx[w].memories
      /\ Pending(w)' = Pending(w) /\ Made(w)' = Made(w) /\ ItemAt(w)' = ItemAt(w)
  BY <1>1 DEF Rows, Pending, Made, Script, Base, ItemAt
<1>3. \A m : Superseding(w, m)' <=> Superseding(w, m)
  BY <1>1, <1>2 DEF Superseding, At
<1>4. RowsAreNumbered(w)'
  <2>1. \A u \in tx'[w].versions, v \in todo'[w].versions : KeyOf(u) # KeyOf(v)
    BY <1>1, <1>2 DEF Walks, RowsAreNumbered, Pending
  <2>2. RowsAreNumbered(w) /\ Pending(w)' = Pending(w) /\ request'[w] = request[w]
        /\ Base(w)' = Base(w) /\ cur'[w] = cur[w]
    BY <1>1, <1>2 DEF Walks
  <2> QED BY <2>1, <2>2 DEF RowsAreNumbered
<1>5. RowsAreMade(w)'
  BY <1>1, <1>2 DEF Walks, RowsAreMade, Pending, Made
<1>6. MarksAreRight(w)'
  <2>1. x \in todo[w].versions /\ x \in Pending(w)
    BY DEF Pending
  <2> QED BY <1>1, <1>2, <1>3, <2>1 DEF Walks, MarksAreRight
<1>7. FlipsAreOurs(w)'
  BY <1>1, <1>2, <1>3 DEF Walks, FlipsAreOurs
<1>8. ClaimsFollow(w)'
  BY <1>1, <1>2 DEF Walks, ClaimsFollow, At
<1> QED
  BY <1>1, <1>2, <1>4, <1>5, <1>6, <1>7, <1>8 DEF Walks, WalkInv, IsAtRest, HasSaved, Walking, Planned

(* What the flip of one row does to the rows of its transaction.           *)
LEMMA FlipRows ==
    ASSUME TypeOK, NEW w \in Writer, NEW k \in todo[w].flips, Flips(w, k)
    PROVE  /\ \/ /\ \E v \in tx[w].versions : KeyOf(v) = k
                 /\ tx'[w].flips = tx[w].flips /\ tx'[w].versions = Flipped(tx[w].versions, {k})
              \/ /\ ~ \E v \in tx[w].versions : KeyOf(v) = k
                 /\ tx'[w].flips = tx[w].flips \cup {k} /\ tx'[w].versions = tx[w].versions
           /\ todo'[w].versions = todo[w].versions /\ versions' = versions
           /\ tx'[w].memories = tx[w].memories /\ todo'[w].memories = todo[w].memories
           /\ FlipWaitsFor(w, k) = {}
<1> DEFINE Mine == \E v \in tx[w].versions : KeyOf(v) = k
           Y == Flipped(tx[w].versions, {k})
<1>1. /\ UNCHANGED dbVars /\ FlipWaitsFor(w, k) = {}
      /\ Rows(w)' = IF Mine
           THEN <<tx[w].flips, tx[w].memories, Y, todo[w].flips \ {k}, todo[w].memories, todo[w].versions>>
           ELSE <<tx[w].flips \cup {k}, tx[w].memories, tx[w].versions,
                  todo[w].flips \ {k}, todo[w].memories, todo[w].versions>>
  BY FlipEffect
<1> HIDE DEF Mine, Y
<1>2. CASE Mine
  BY <1>1, <1>2 DEF Rows, Mine, Y, dbVars
<1>3. CASE ~Mine
  BY <1>1, <1>3 DEF Rows, Mine, dbVars
<1> QED BY <1>2, <1>3

(* Clearing a flag by UPDATE preserves the walk.                           *)
LEMMA FlipWalk ==
    ASSUME TypeInv, NEW w \in Writer, NEW k \in todo[w].flips, Flips(w, k), WalkInv(w)
    PROVE  WalkInv(w)'
<1> DEFINE Mine == \E v \in tx[w].versions : KeyOf(v) = k
           m == k[1]
<1>1. /\ pc[w] = "saving" /\ pc'[w] = "saving" /\ Script(w)' = Script(w)
      /\ cur'[w] = cur[w] /\ cursor'[w] = cursor[w] /\ Walks(w) /\ IsSane(request[w])
      /\ Rows(w)' = IF Mine
           THEN <<tx[w].flips, tx[w].memories, Flipped(tx[w].versions, {k}),
                  todo[w].flips \ {k}, todo[w].memories, todo[w].versions>>
           ELSE <<tx[w].flips \cup {k}, tx[w].memories, tx[w].versions,
                  todo[w].flips \ {k}, todo[w].memories, todo[w].versions>>
  BY FlipEffect DEF TypeInv, At, WalkInv, Walking, Planned
<1>2. /\ request'[w] = request[w] /\ plan'[w] = plan[w] /\ Base(w)' = Base(w)
      /\ tx'[w].memories = tx[w].memories /\ Made(w)' = Made(w) /\ ItemAt(w)' = ItemAt(w)
      /\ todo'[w].flips = todo[w].flips \ {k} /\ todo'[w].versions = todo[w].versions
      /\ IF Mine THEN tx'[w].flips = tx[w].flips /\ tx'[w].versions = Flipped(tx[w].versions, {k})
                 ELSE tx'[w].flips = tx[w].flips \cup {k} /\ tx'[w].versions = tx[w].versions
  BY <1>1 DEF Rows, Made, Script, Base, ItemAt
<1>3. \A n : Superseding(w, n)' <=> Superseding(w, n)
  BY <1>1, <1>2 DEF Superseding, At
<1>4. Superseding(w, m) /\ k[2] = cur[w][m]
  BY <1>1 DEF Walks, FlipsAreOurs
<1>5. m \in Targets(request[w]) /\ \A n : Superseding(w, n) => n = m
  BY <1>4, SupersedingIsTheItem
<1>6. /\ k = <<m, cur[w][m]>> /\ Targets(request[w]) \subseteq Memory
      /\ tx[w].versions \subseteq VersionRow /\ todo[w].versions \subseteq VersionRow
      /\ \A n \in Memory : cur[w][n] \in Nat /\ Base(w)[n] \in Nat
  <2>1. k \in Memory \X Nat
    BY DEF TypeInv, TypeOK, RowSets, Key
  <2>2. k = <<m, cur[w][m]>>
    BY <1>4, <2>1
  <2>3. Targets(request[w]) \subseteq Memory
    BY RequestFacts DEF TypeInv, TypeOK
  <2>4. tx[w].versions \subseteq VersionRow /\ todo[w].versions \subseteq VersionRow
    BY DEF TypeInv, TypeOK, RowSets, Overlay
  <2>5. \A n \in Memory : cur[w][n] \in Nat /\ Base(w)[n] \in Nat
    BY DEF TypeInv, TypeOK, Plan, Base
  <2> HIDE DEF m
  <2> QED BY <2>2, <2>3, <2>4, <2>5
<1>7. CASE Mine
  <2> DEFINE f(v) == Marked(v, {k})
  <2>1. PICK v0 \in tx[w].versions : v0.memory = m /\ v0.version = cur[w][m]
    BY <1>6, <1>7 DEF KeyOf
  <2>2. Base(w)[m] < cur[w][m]
    BY <1>1, <1>5, <2>1 DEF Walks, RowsAreNumbered, Pending
  <2>3. /\ tx'[w].versions = {f(u) : u \in tx[w].versions}
        /\ \A u \in tx[w].versions :
             Resembles(f(u), u) /\ (f(u).current <=> u.current /\ KeyOf(u) # k)
    <3>1. tx'[w].versions = Flipped(tx[w].versions, {k}) /\ tx[w].versions \in SUBSET VersionRow
      BY <1>2, <1>6, <1>7
    <3>2. /\ \A v \in Flipped(tx[w].versions, {k}) : \E u \in tx[w].versions : v = Marked(u, {k})
          /\ \A u \in tx[w].versions :
               Marked(u, {k}) \in Flipped(tx[w].versions, {k}) /\ Resembles(Marked(u, {k}), u) /\ (Marked(u, {k}).current <=> u.current /\ KeyOf(u) \notin {k})
      BY <3>1, FlippedFacts
    <3> QED BY <3>1, <3>2
  <2>4. Pending(w)' = {f(u) : u \in tx[w].versions} \cup todo[w].versions
    BY <1>2, <2>3 DEF Pending
  <2> HIDE DEF f, Mine, m
  <2>5. \A v \in Pending(w)' : \E u \in Pending(w) : Resembles(v, u)
    BY <2>3, <2>4 DEF Pending, Resembles
  <2>6. \A u \in Pending(w) : \E v \in Pending(w)' : Resembles(v, u)
    BY <2>3, <2>4 DEF Pending, Resembles
  <2>7. RowsAreNumbered(w)'
    <3>1. ASSUME NEW u \in Pending(w)', NEW v \in Pending(w)', KeyOf(u) = KeyOf(v) PROVE u = v
      BY <1>1, <2>3, <2>4, <3>1 DEF Walks, RowsAreNumbered, Resembles, Pending
    <3>2. \A u \in tx'[w].versions, v \in todo'[w].versions : KeyOf(u) # KeyOf(v)
      BY <1>1, <1>2, <2>3 DEF Walks, RowsAreNumbered, Resembles
    <3>3. ASSUME NEW n \in Targets(request[w]), NEW i \in Nat, Base(w)[n] < i, i <= cur[w][n]
          PROVE  \E v \in Pending(w)' : v.memory = n /\ v.version = i
      <4>1. PICK u \in Pending(w) : u.memory = n /\ u.version = i
        BY <1>1, <3>3 DEF Walks, RowsAreNumbered
      <4> QED BY <2>6, <4>1 DEF Resembles
    <3>4. ASSUME NEW v \in Pending(w)', v.memory \in Targets(request[w])
          PROVE  Base(w)[v.memory] < v.version /\ v.version <= cur[w][v.memory]
      <4>1. PICK u \in Pending(w) : Resembles(v, u)
        BY <2>5
      <4> QED BY <1>1, <3>4, <4>1 DEF Walks, RowsAreNumbered, Resembles
    <3>5. \A n \in Targets(request[w]) : Base(w)[n] <= cur[w][n]
      BY <1>1 DEF Walks, RowsAreNumbered
    <3> QED BY <1>1, <1>2, <3>1, <3>2, <3>3, <3>4, <3>5 DEF RowsAreNumbered
  <2>8. RowsAreMade(w)'
    <3>1. ASSUME NEW v \in Pending(w)', v.memory \notin Targets(request[w])
          PROVE  v.version = 1 /\ v.current /\ \E p \in Made(w) : p.uuid = v.memory
      <4>1. CASE v \in todo[w].versions
        BY <1>1, <3>1, <4>1 DEF Walks, RowsAreMade, Pending
      <4>2. CASE v \in {f(u) : u \in tx[w].versions}
        <5>1. PICK u \in tx[w].versions : v = f(u)
          BY <4>2
        <5>2. KeyOf(u) # k /\ u.memory \notin Targets(request[w])
          BY <1>5, <1>6, <2>3, <3>1, <5>1 DEF Resembles, KeyOf
        <5>3. u.version = 1 /\ u.current /\ \E p \in Made(w) : p.uuid = u.memory
          BY <1>1, <5>2 DEF Walks, RowsAreMade, Pending
        <5>4. v.version = u.version /\ v.memory = u.memory /\ v.current
          BY <2>3, <5>1, <5>2, <5>3 DEF Resembles
        <5> QED BY <5>3, <5>4
      <4> QED BY <2>4, <4>1, <4>2
    <3>2. \A v \in tx'[w].versions : v.memory \notin Targets(request[w])
            => \E p \in tx[w].memories : p.uuid = v.memory
      BY <1>1, <2>3 DEF Walks, RowsAreMade, Resembles
    <3>3. \A p \in Made(w) :
            p.uuid \notin Targets(request[w]) /\ \E v \in Pending(w)' : v.memory = p.uuid
      BY <1>1, <2>6 DEF Walks, RowsAreMade, Resembles
    <3> QED BY <1>1, <1>2, <3>1, <3>2, <3>3 DEF Walks, RowsAreMade
  <2>9. MarksAreRight(w)'
    <3> SUFFICES ASSUME NEW v \in Pending(w)', v.memory \in Targets(request[w])
                 PROVE  /\ v.version < cur[w][v.memory] => ~v.current
                        /\ v.version = cur[w][v.memory] /\ ~Superseding(w, v.memory) => v.current
                        /\ v.version = cur[w][v.memory] /\ Superseding(w, v.memory) =>
                             /\ v \in todo[w].versions => ~v.current /\ KeyOf(v) \notin todo'[w].flips
                             /\ v \in tx'[w].versions => (v.current <=> KeyOf(v) \in todo'[w].flips)
      BY <1>1, <1>2, <1>3 DEF MarksAreRight
    <3>1. CASE v \in todo[w].versions /\ v \notin tx'[w].versions
      BY <1>1, <1>2, <3>1 DEF Walks, MarksAreRight, Pending
    <3>2. CASE v \in tx'[w].versions
      <4>1. PICK u \in tx[w].versions : v = f(u)
        BY <2>3, <3>2
      <4>2. v \notin todo[w].versions
        BY <1>1, <2>3, <4>1 DEF Walks, RowsAreNumbered, Resembles
      <4>3. /\ v.memory = u.memory /\ v.version = u.version /\ KeyOf(v) = KeyOf(u)
            /\ v.current <=> u.current /\ KeyOf(u) # k
        BY <2>3, <4>1 DEF Resembles
      <4>4. v.version = cur[w][v.memory] /\ Superseding(w, v.memory) => KeyOf(v) = k
        BY <1>5, <1>6 DEF KeyOf
      <4>5. ~Superseding(w, v.memory) => KeyOf(v) # k
        BY <1>4, <1>6 DEF KeyOf
      <4> QED BY <1>1, <1>2, <4>1, <4>2, <4>3, <4>4, <4>5 DEF Walks, MarksAreRight, Pending
    <3> QED BY <1>2, <3>1, <3>2 DEF Pending
  <2>10. FlipsAreOurs(w)'
    <3>1. \A n : Base(w)[n] = cur[w][n] /\ n \in Targets(request[w]) => n # m
      BY <1>6, <2>2
    <3> QED BY <1>1, <1>2, <1>3, <1>5, <1>7, <3>1 DEF Walks, FlipsAreOurs
  <2>11. ClaimsFollow(w)'
    <3>1. \A n \in Targets(request[w]) : Base(w)[n] = cur[w][n]
             => ClaimBefore(request[w], plan[w], n, cursor[w]) = plan[w].claim[n]
      BY <1>1 DEF Walks, ClaimsFollow
    <3>2. ASSUME NEW v \in Pending(w)', v.memory \in Targets(request[w])
          PROVE  /\ v.version = cur[w][v.memory]
                      => v.claim = ClaimBefore(request[w], plan[w], v.memory, cursor[w])
                 /\ v.version = Base(w)[v.memory] + 1 => v.claim # plan[w].claim[v.memory]
      <4>1. PICK u \in Pending(w) : Resembles(v, u)
        BY <2>5
      <4> QED BY <1>1, <3>2, <4>1 DEF Walks, ClaimsFollow, Resembles
    <3>3. ASSUME NEW u \in Pending(w)', NEW v \in Pending(w)',
                 u.memory \in Targets(request[w]), u.memory = v.memory, v.version = u.version + 1
          PROVE  u.claim # v.claim
      <4>1. PICK x \in Pending(w) : Resembles(u, x)
        BY <2>5
      <4>2. PICK y \in Pending(w) : Resembles(v, y)
        BY <2>5
      <4>3. /\ x.memory = u.memory /\ x.version = u.version /\ x.claim = u.claim
            /\ y.memory = v.memory /\ y.version = v.version /\ y.claim = v.claim
        BY <4>1, <4>2 DEF Resembles
      <4>4. ClaimsFollow(w)
        BY <1>1 DEF Walks
      <4> QED BY <3>3, <4>3, <4>4 DEF ClaimsFollow
    <3> QED BY <1>1, <1>2, <3>1, <3>2, <3>3 DEF Walks, ClaimsFollow, At
  <2> QED
    BY <1>1, <1>2, <2>7, <2>8, <2>9, <2>10, <2>11
       DEF Walks, WalkInv, IsAtRest, HasSaved, Walking, Planned
<1>8. CASE ~Mine
  <2>1. Pending(w)' = Pending(w) /\ tx'[w].versions = tx[w].versions /\ tx'[w].flips = tx[w].flips \cup {k}
    BY <1>2, <1>8 DEF Pending
  <2>2. Base(w)[m] = cur[w][m]
    <3> SUFFICES ASSUME Base(w)[m] < cur[w][m] PROVE FALSE
      BY <1>1, <1>5, <1>6 DEF Walks, RowsAreNumbered
    <3>1. PICK v \in Pending(w) : v.memory = m /\ v.version = cur[w][m]
      BY <1>1, <1>5, <1>6 DEF Walks, RowsAreNumbered
    <3>2. KeyOf(v) = k
      BY <1>6, <3>1 DEF KeyOf
    <3>3. v \in todo[w].versions
      BY <1>8, <3>1, <3>2 DEF Pending
    <3> QED BY <1>1, <1>4, <1>5, <3>1, <3>2, <3>3 DEF Walks, MarksAreRight
  <2>3. \A v \in Pending(w) : ~(v.memory = m /\ v.version = cur[w][m])
    BY <1>1, <1>5, <1>6, <2>2 DEF Walks, RowsAreNumbered
  <2> HIDE DEF Mine, m
  <2>4. RowsAreNumbered(w)'
    BY <1>1, <1>2, <2>1 DEF Walks, RowsAreNumbered
  <2>5. RowsAreMade(w)'
    BY <1>1, <1>2, <2>1 DEF Walks, RowsAreMade
  <2>6. MarksAreRight(w)'
    BY <1>1, <1>2, <1>3, <1>5, <2>1, <2>3 DEF Walks, MarksAreRight
  <2>7. FlipsAreOurs(w)'
    <3>1. k[1] = m /\ k = <<m, Base(w)[m]>> /\ k[2] = Base(w)[m]
      BY <1>6, <2>2 DEF m
    <3> QED BY <1>1, <1>2, <1>3, <1>4, <1>5, <2>1, <2>2, <3>1 DEF Walks, FlipsAreOurs
  <2>8. ClaimsFollow(w)'
    BY <1>1, <1>2, <2>1 DEF Walks, ClaimsFollow, At
  <2> QED
    BY <1>1, <1>2, <2>4, <2>5, <2>6, <2>7, <2>8
       DEF Walks, WalkInv, IsAtRest, HasSaved, Walking, Planned
<1> QED BY <1>7, <1>8

(* Adding the next version preserves the walk.                             *)
LEMMA SavedItemWalk ==
    ASSUME TypeInv, NEW w \in Writer, SavedItem(w), WalkInv(w)
    PROVE  WalkInv(w)'
<1> DEFINE r == request[w]
           m == ItemAt(w).uuid
           x == NextVersionRow(w)
<1>1. /\ pc[w] = "saving" /\ pc'[w] = "items" /\ request'[w] = r /\ plan'[w] = plan[w]
      /\ cur'[w] = [cur[w] EXCEPT ![m] = cur[w][m] + 1] /\ cursor'[w] = cursor[w] + 1
      /\ cursor[w] \in Versioned(r) /\ m \in Memory /\ m \in Targets(r)
      /\ todo[w] = NoRows /\ Walks(w) /\ IsSane(r)
      /\ Rows(w)' = <<tx[w].flips, tx[w].memories, tx[w].versions, {}, {}, {x}>>
  BY SavedItemEffect DEF TypeInv, At, Script, WalkInv, Walking, Planned
<1>2. /\ tx'[w].flips = tx[w].flips /\ tx'[w].memories = tx[w].memories
      /\ tx'[w].versions = tx[w].versions /\ todo'[w].flips = {} /\ todo'[w].versions = {x}
      /\ Pending(w) = tx[w].versions /\ Made(w) = tx[w].memories
      /\ Pending(w)' = Pending(w) \cup {x} /\ Made(w)' = Made(w) /\ Base(w)' = Base(w)
      /\ todo[w].flips = {} /\ todo[w].versions = {}
  BY <1>1 DEF Rows, Pending, Made, Base, NoRows
<1>3. /\ x.memory = m /\ x.version = cur[w][m] + 1 /\ x.current /\ x.claim = ItemAt(w).claim
      /\ KeyOf(x) = <<m, cur[w][m] + 1>>
  BY DEF NextVersionRow, KeyOf
<1>4. /\ \A n \in Memory : cur[w][n] \in Nat /\ Base(w)[n] \in Nat /\ (n # m => cur'[w][n] = cur[w][n])
      /\ cur'[w][m] = cur[w][m] + 1 /\ Targets(r) \subseteq Memory
      /\ \A v \in Pending(w) : v.version \in Nat
      /\ r \in Request \cup {NoRequest} /\ cursor[w] \in Nat
      /\ DOMAIN r.items = 1 .. Len(r.items) /\ Len(r.items) \in Nat
  <2>1. cur[w] \in [Memory -> Nat] /\ Base(w) \in [Memory -> Nat] /\ cursor[w] \in Nat
    BY DEF TypeInv, TypeOK, Plan, Base
  <2>2. \A v \in Pending(w) : v.version \in Nat
    BY DEF TypeInv, TypeOK, RowSets, Overlay, VersionRow, Pending
  <2>3. r \in Request \cup {NoRequest} /\ Targets(r) \subseteq Memory /\ r.items \in Seq(Item)
    BY RequestFacts DEF TypeInv, TypeOK
  <2>4. DOMAIN r.items = 1 .. Len(r.items) /\ Len(r.items) \in Nat
    BY <2>3
  <2>5. \A n \in Memory : n # m => cur'[w][n] = cur[w][n]
    BY <1>1, <2>1
  <2>6. cur'[w][m] = cur[w][m] + 1
    BY <1>1, <2>1
  <2> HIDE DEF r, m
  <2> QED BY <2>1, <2>2, <2>3, <2>4, <2>5, <2>6
<1>5. \A n : (Superseding(w, n) <=> n = m) /\ ~Superseding(w, n)'
  BY <1>1 DEF Superseding, At, ItemAt
<1>6. /\ ClaimBefore(r, plan[w], m, cursor[w] + 1) = x.claim
      /\ \A n : n # m => ClaimBefore(r, plan[w], n, cursor[w] + 1) = ClaimBefore(r, plan[w], n, cursor[w])
      /\ x.claim # ClaimBefore(r, plan[w], m, cursor[w])
  <2>1. m = r.items[cursor[w]].uuid /\ ItemAt(w).claim = r.items[cursor[w]].claim
    BY DEF ItemAt
  <2>2. x.claim # ClaimBefore(r, plan[w], m, cursor[w])
    BY <1>1, <1>3 DEF Walks, ClaimsFollow, At
  <2>3. ClaimBefore(r, plan[w], m, cursor[w] + 1) = x.claim
    <3>1. /\ r \in Request \cup {NoRequest} /\ cursor[w] \in Versioned(r)
          /\ r.items[cursor[w]].uuid = m /\ r.items[cursor[w]].claim = x.claim
      BY <1>1, <1>3, <1>4, <2>1
    <3> HIDE DEF r, m, x
    <3> QED BY <3>1, ItemClaim
  <2>4. ASSUME NEW n, n # m
        PROVE  ClaimBefore(r, plan[w], n, cursor[w] + 1) = ClaimBefore(r, plan[w], n, cursor[w])
    <3> HIDE DEF m
    <3>1. r.items[cursor[w]].uuid # n
      BY <2>1, <2>4
    <3> QED BY <1>4, <3>1, OtherClaim
  <2> QED BY <2>2, <2>3, <2>4
<1>7. \A v \in Pending(w) : v.memory = m => v.version <= cur[w][m] /\ ~v.current
  <2> SUFFICES ASSUME NEW v \in Pending(w), v.memory = m
               PROVE  v.version <= cur[w][m] /\ ~v.current
    OBVIOUS
  <2>1. v.version <= cur[w][m] /\ v.version \in Nat /\ cur[w][m] \in Nat
    BY <1>1, <1>4 DEF Walks, RowsAreNumbered
  <2>2. CASE v.version < cur[w][m]
    BY <1>1, <2>1, <2>2 DEF Walks, MarksAreRight
  <2>3. CASE v.version = cur[w][m]
    BY <1>1, <1>2, <1>5, <2>1, <2>3 DEF Walks, MarksAreRight
  <2> QED BY <2>1, <2>2, <2>3
<1> HIDE DEF r, m, x
<1>8. RowsAreNumbered(w)'
  <2>1. ASSUME NEW v \in Pending(w), KeyOf(v) = KeyOf(x) PROVE FALSE
    <3>1. v.memory = m /\ v.version = cur[w][m] + 1
      BY <1>3, <2>1 DEF KeyOf
    <3>2. v.version <= cur[w][m] /\ cur[w][m] \in Nat
      BY <1>1, <1>4, <1>7, <3>1
    <3> QED BY <3>1, <3>2
  <2>2. \A u, v \in Pending(w)' : KeyOf(u) = KeyOf(v) => u = v
    BY <1>1, <1>2, <2>1 DEF Walks, RowsAreNumbered
  <2>3. \A u \in tx'[w].versions, v \in todo'[w].versions : KeyOf(u) # KeyOf(v)
    BY <1>2, <2>1
  <2>4. ASSUME NEW n \in Targets(r)
        PROVE  /\ Base(w)[n] <= cur'[w][n]
               /\ \A i \in Nat : Base(w)[n] < i /\ i <= cur'[w][n]
                    => \E v \in Pending(w)' : v.memory = n /\ v.version = i
    <3>1. /\ Base(w)[n] <= cur[w][n]
          /\ \A i \in Nat : Base(w)[n] < i /\ i <= cur[w][n]
               => \E v \in Pending(w) : v.memory = n /\ v.version = i
      BY <1>1 DEF Walks, RowsAreNumbered, r
    <3>2. CASE n # m
      BY <1>2, <1>4, <3>1, <3>2
    <3>3. CASE n = m
      <4>1. Base(w)[n] <= cur[w][n] + 1
        BY <1>4, <3>1
      <4>2. ASSUME NEW i \in Nat, Base(w)[n] < i, i <= cur[w][n] + 1
            PROVE  \E v \in Pending(w)' : v.memory = n /\ v.version = i
        <5>1. CASE i = cur[w][n] + 1
          BY <1>2, <1>3, <3>3, <5>1
        <5>2. CASE i <= cur[w][n]
          BY <1>2, <3>1, <4>2, <5>2
        <5> QED BY <1>4, <4>2, <5>1, <5>2
      <4> QED BY <1>4, <3>3, <4>1, <4>2
    <3> QED BY <3>2, <3>3
  <2>5. ASSUME NEW v \in Pending(w)', v.memory \in Targets(r)
        PROVE  Base(w)[v.memory] < v.version /\ v.version <= cur'[w][v.memory]
    <3>1. CASE v = x
      <4>1. Base(w)[m] <= cur[w][m]
        BY <1>1 DEF Walks, RowsAreNumbered, r
      <4> QED BY <1>1, <1>3, <1>4, <3>1, <4>1
    <3>2. CASE v \in Pending(w)
      <4>1. Base(w)[v.memory] < v.version /\ v.version <= cur[w][v.memory]
        BY <1>1, <2>5, <3>2 DEF Walks, RowsAreNumbered, r
      <4>2. cur[w][v.memory] <= cur'[w][v.memory] /\ cur[w][v.memory] \in Nat /\ cur'[w][v.memory] \in Nat
        BY <1>1, <1>4, <2>5
      <4>3. v.version \in Nat
        BY <1>4, <3>2
      <4> QED BY <4>1, <4>2, <4>3
    <3> QED BY <1>2, <3>1, <3>2
  <2> QED BY <1>1, <1>2, <2>2, <2>3, <2>4, <2>5 DEF RowsAreNumbered
<1>9. RowsAreMade(w)'
  <2>1. \A j \in Created(r) : j < cursor[w] => j < cursor[w] + 1
    BY <1>4 DEF Created
  <2>2. \A p \in Made(w)' : \E j \in Created(r) :
          /\ j < cursor[w] + 1 /\ p.slug = r.items[j].slug
          /\ \/ p.uuid = r.items[j].uuid
             \/ r.items[j].uuid = Nobody /\ p.uuid \notin BatchUuids(r)
    BY <1>1, <1>2, <2>1 DEF Walks, RowsAreMade, r
  <2>3. \A v \in Pending(w)' : v.memory \notin Targets(r)
          => v.version = 1 /\ v.current /\ \E p \in Made(w)' : p.uuid = v.memory
    BY <1>1, <1>2, <1>3 DEF Walks, RowsAreMade, r
  <2> QED BY <1>1, <1>2, <2>2, <2>3 DEF Walks, RowsAreMade, r
<1>10. MarksAreRight(w)'
  <2> SUFFICES ASSUME NEW v \in Pending(w)', v.memory \in Targets(r)
               PROVE  /\ v.version < cur'[w][v.memory] => ~v.current
                      /\ v.version = cur'[w][v.memory] => v.current
    BY <1>1, <1>2, <1>5 DEF MarksAreRight
  <2>1. CASE v = x
    BY <1>3, <1>4, <2>1
  <2>2. CASE v \in Pending(w) /\ v.memory = m
    <3>1. ~v.current /\ v.version <= cur[w][m] /\ v.version \in Nat /\ cur[w][m] \in Nat
      BY <1>1, <1>4, <1>7, <2>2
    <3> QED BY <1>4, <2>2, <3>1
  <2>3. CASE v \in Pending(w) /\ v.memory # m
    <3>1. cur'[w][v.memory] = cur[w][v.memory] /\ ~Superseding(w, v.memory)
      BY <1>4, <1>5, <2>3
    <3> QED BY <1>1, <2>3, <3>1 DEF Walks, MarksAreRight, r
  <2> QED BY <1>2, <2>1, <2>2, <2>3
<1>11. FlipsAreOurs(w)'
  <2>1. Base(w)[m] <= cur[w][m] /\ cur[w][m] \in Nat /\ Base(w)[m] \in Nat
    BY <1>1, <1>4 DEF Walks, RowsAreNumbered, r
  <2>2. <<m, Base(w)[m]>> \in tx[w].flips
    <3>1. Base(w)[m] < cur[w][m] \/ Base(w)[m] = cur[w][m]
      BY <2>1
    <3> QED BY <1>1, <1>2, <1>5, <3>1 DEF Walks, FlipsAreOurs, r
  <2>3. ASSUME NEW k \in tx[w].flips
        PROVE  k[1] \in Targets(r) /\ k[2] = Base(w)[k[1]] /\ Base(w)[k[1]] < cur'[w][k[1]]
    <3>1. k[1] \in Targets(r) /\ k[2] = Base(w)[k[1]] /\ (Base(w)[k[1]] < cur[w][k[1]] \/ k[1] = m)
      BY <1>1, <1>5 DEF Walks, FlipsAreOurs, r
    <3>2. CASE k[1] = m
      BY <1>4, <2>1, <3>1, <3>2
    <3>3. CASE k[1] # m
      BY <1>4, <3>1, <3>3
    <3> QED BY <3>2, <3>3
  <2>4. ASSUME NEW n \in Targets(r), Base(w)[n] < cur'[w][n] PROVE <<n, Base(w)[n]>> \in tx[w].flips
    <3>1. CASE n = m
      BY <2>2, <3>1
    <3>2. CASE n # m
      BY <1>1, <1>4, <2>4, <3>2 DEF Walks, FlipsAreOurs, r
    <3> QED BY <3>1, <3>2
  <2> QED BY <1>1, <1>2, <1>5, <2>3, <2>4 DEF FlipsAreOurs
<1>12. ClaimsFollow(w)'
  <2>1. ASSUME NEW n \in Targets(r), Base(w)[n] = cur'[w][n]
        PROVE  ClaimBefore(r, plan[w], n, cursor[w] + 1) = plan[w].claim[n]
    <3>1. n # m
      <4>1. Base(w)[m] <= cur[w][m] /\ cur[w][m] \in Nat /\ Base(w)[m] \in Nat
        BY <1>1, <1>4 DEF Walks, RowsAreNumbered, r
      <4> QED BY <1>4, <2>1, <4>1
    <3>2. Base(w)[n] = cur[w][n]
      BY <1>4, <2>1, <3>1
    <3> QED BY <1>1, <1>6, <3>1, <3>2 DEF Walks, ClaimsFollow, r
  <2>2. ASSUME NEW v \in Pending(w)', v.memory \in Targets(r), v.version = cur'[w][v.memory]
        PROVE  v.claim = ClaimBefore(r, plan[w], v.memory, cursor[w] + 1)
    <3>1. CASE v = x
      BY <1>3, <1>6, <3>1
    <3>2. CASE v \in Pending(w)
      <4>1. v.memory # m
        BY <1>1, <1>4, <1>7, <2>2, <3>2
      <4>2. v.version = cur[w][v.memory]
        BY <1>4, <2>2, <4>1
      <4> QED BY <1>1, <1>6, <2>2, <3>2, <4>1, <4>2 DEF Walks, ClaimsFollow, r
    <3> QED BY <1>2, <3>1, <3>2
  <2>3. ASSUME NEW u \in Pending(w)', NEW v \in Pending(w)',
               u.memory \in Targets(r), u.memory = v.memory, v.version = u.version + 1
        PROVE  u.claim # v.claim
    <3>0. u # x /\ (v = x => u.version = cur[w][m])
      BY <1>1, <1>2, <1>3, <1>4, <1>7, <2>3
    <3>1. CASE v = x
      <4>1. u \in Pending(w) /\ u.version = cur[w][u.memory] /\ u.memory = m
        BY <1>2, <1>3, <2>3, <3>0, <3>1
      <4>2. u.claim = ClaimBefore(r, plan[w], m, cursor[w])
        BY <1>1, <4>1 DEF Walks, ClaimsFollow, r
      <4> QED BY <1>6, <3>1, <4>2
    <3>2. CASE v # x
      BY <1>1, <1>2, <2>3, <3>0, <3>2 DEF Walks, ClaimsFollow, r
    <3> QED BY <3>1, <3>2
  <2>4. ASSUME NEW v \in Pending(w)', v.memory \in Targets(r), v.version = Base(w)[v.memory] + 1
        PROVE  v.claim # plan[w].claim[v.memory]
    <3>1. CASE v = x
      <4>1. Base(w)[m] = cur[w][m]
        BY <1>1, <1>3, <1>4, <2>4, <3>1
      <4>2. ClaimBefore(r, plan[w], m, cursor[w]) = plan[w].claim[m]
        BY <1>1, <4>1 DEF Walks, ClaimsFollow, r
      <4> QED BY <1>3, <1>6, <3>1, <4>2
    <3>2. CASE v \in Pending(w)
      BY <1>1, <2>4, <3>2 DEF Walks, ClaimsFollow, r
    <3> QED BY <1>2, <3>1, <3>2
  <2> QED BY <1>1, <1>2, <2>1, <2>2, <2>3, <2>4 DEF ClaimsFollow, At
<1>13. cursor'[w] <= Len(r.items) + 1
  <2>1. cursor[w] \in DOMAIN r.items
    BY <1>1 DEF Versioned
  <2> QED BY <1>1, <1>4, <2>1
<1> QED
  BY <1>1, <1>8, <1>9, <1>10, <1>11, <1>12, <1>13
     DEF Walks, WalkInv, IsAtRest, HasSaved, Walking, Planned

(* Planning has checked the batch against itself and against the store.    *)
LEMMA PlansFacts ==
    ASSUME NEW r, ItemErrors(r) = {}
    PROVE  /\ IsSane(r)
           /\ \A m \in Targets(r) :
                /\ CurrentOf(m) \in versions /\ CurrentOf(m).memory = m /\ CurrentOf(m).current
                /\ \E p \in memories : p.uuid = m /\ p.group = r.group
           /\ \A i \in Created(r) : \A p \in memories : p.uuid # r.items[i].uuid
<1>1. \A i \in DOMAIN r.items : ItemError(r, i) = "none"
  BY DEF ItemErrors
<1>2. ASSUME NEW m \in Targets(r)
      PROVE  /\ \E v \in versions : v.memory = m /\ v.current
             /\ \E p \in memories : p.uuid = m /\ p.group = r.group
  <2>1. PICK i \in Versioned(r) : r.items[i].uuid = m
    BY DEF Targets
  <2>2. ItemError(r, i) = "none"
    BY <1>1 DEF Versioned
  <2> QED BY <2>1, <2>2 DEF ItemError
<1>3. \A m \in Targets(r) :
        CurrentOf(m) \in versions /\ CurrentOf(m).memory = m /\ CurrentOf(m).current
  BY <1>2 DEF CurrentOf
<1>4. ASSUME NEW i \in Created(r)
      PROVE  /\ \A j \in Created(r) : j < i =>
                  /\ r.items[j].slug # r.items[i].slug
                  /\ r.items[i].uuid # Nobody => r.items[j].uuid # r.items[i].uuid
             /\ \A p \in memories : p.uuid # r.items[i].uuid
  <2>1. ItemError(r, i) = "none" /\ i \notin Versioned(r)
    BY <1>1 DEF Created
  <2> QED BY <2>1 DEF ItemError
<1> QED BY <1>2, <1>3, <1>4 DEF IsSane

(* What planning the items leaves behind.                                  *)
LEMMA PlansEffect ==
    ASSUME TypeOK, NEW w \in Writer, Plans(w)
    PROVE  /\ pc[w] = "received" /\ pc'[w] = "planned" /\ request'[w] = request[w]
           /\ cursor'[w] = cursor[w] /\ tx'[w] = tx[w] /\ todo'[w] = todo[w] /\ locks'[w] = locks[w]
           /\ UNCHANGED <<dbVars, blobs>> /\ ItemErrors(request[w]) = {}
           /\ cur'[w] = plan'[w].base
           /\ plan'[w].links = {} /\ plan'[w].labels = {}
           /\ plan'[w].base = [m \in Memory |-> IF m \in Targets(request[w]) THEN CurrentOf(m).version ELSE 0]
           /\ plan'[w].claim = [m \in Memory |-> IF m \in Targets(request[w]) THEN CurrentOf(m).claim ELSE Nobody]
<1> DEFINE base == [m \in Memory |-> IF m \in Targets(request[w]) THEN CurrentOf(m).version ELSE 0]
           claim == [m \in Memory |-> IF m \in Targets(request[w]) THEN CurrentOf(m).claim ELSE Nobody]
<1>1. /\ plan' = [plan EXCEPT ![w] = [NoPlan EXCEPT !.base = base, !.claim = claim]]
      /\ cur' = [cur EXCEPT ![w] = base] /\ At(w, "received") /\ Goto(w, "planned")
      /\ UNCHANGED <<dbVars, blobs, request, cursor, todo, tx, locks, answer, attempts>>
      /\ ItemErrors(request[w]) = {}
  BY DEF Plans, PlanItems
<1> HIDE DEF base, claim
<1>2. plan'[w] = [NoPlan EXCEPT !.base = base, !.claim = claim] /\ cur'[w] = base
  BY <1>1 DEF TypeOK
<1>3. /\ plan'[w].base = base /\ plan'[w].claim = claim
      /\ plan'[w].links = {} /\ plan'[w].labels = {}
  BY <1>2 DEF NoPlan
<1> QED BY <1>1, <1>2, <1>3 DEF base, claim, At, Goto, TypeOK

(* What planning the rest leaves behind.                                   *)
LEMMA ResolvesEffect ==
    ASSUME TypeOK, NEW w \in Writer, Resolves(w)
    PROVE  /\ pc[w] = "planned" /\ pc'[w] = "resolved" /\ request'[w] = request[w]
           /\ cursor'[w] = cursor[w] /\ cur'[w] = cur[w] /\ tx'[w] = tx[w] /\ todo'[w] = todo[w]
           /\ UNCHANGED <<dbVars, blobs>> /\ locks'[w] = locks[w]
           /\ plan'[w].base = plan[w].base /\ plan'[w].claim = plan[w].claim
           /\ plan'[w].links = {l \in request[w].links : ~ExistsLink(l)}
           /\ plan'[w].labels = {n \in request[w].labels : ~ \E q \in labels : q.name = n}
<1> DEFINE ls == {l \in request[w].links : ~ExistsLink(l)}
           ns == {n \in request[w].labels : ~ \E q \in labels : q.name = n}
<1>1. /\ plan' = [plan EXCEPT ![w] = [@ EXCEPT !.links = ls, !.labels = ns]]
      /\ At(w, "planned") /\ Goto(w, "resolved")
      /\ UNCHANGED <<dbVars, blobs, request, cursor, cur, todo, tx, locks, answer, attempts>>
  BY DEF Resolves, PlanRest
<1> HIDE DEF ls, ns
<1>2. plan'[w] = [plan[w] EXCEPT !.links = ls, !.labels = ns] /\ plan[w] \in Plan
  BY <1>1 DEF TypeOK
<1>3. /\ plan'[w].base = plan[w].base /\ plan'[w].claim = plan[w].claim
      /\ plan'[w].links = ls /\ plan'[w].labels = ns
  BY <1>2 DEF Plan
<1> QED BY <1>1, <1>3 DEF ls, ns, At, Goto, TypeOK

(* The end of a request leaves nothing of it behind.                       *)
LEMMA FinishEffect ==
    ASSUME TypeOK, NEW w \in Writer, NEW a, Finish(w, a)
    PROVE  /\ pc'[w] = "done" /\ answer'[w] = a /\ plan'[w] = NoPlan /\ cursor'[w] = 1
           /\ cur'[w] = [m \in Memory |-> 0] /\ todo'[w] = NoRows /\ tx'[w] = NoTx /\ locks'[w] = {}
           /\ request'[w] = request[w]
BY DEF Finish, Goto, TypeOK

(* The client's steps touch neither plan nor tables.                       *)
LEMMA ClientEffect ==
    ASSUME TypeOK, NEW w \in Writer, Submit(w) \/ LoseAnswer(w) \/ Retry(w)
    PROVE  /\ UNCHANGED <<dbVars, blobs, plan, cursor, cur, todo, tx, locks>>
           /\ pc[w] \in {"idle", "done"} /\ pc'[w] \in {"done", "received"}
           /\ pc[w] = "done" => request' = request
           /\ pc'[w] = "done" => answer'[w] = "lost" /\ answer[w] = "ok"
BY DEF Submit, LoseAnswer, Retry, At, Goto, TypeOK

(* Every step of a request preserves its own invariant.                    *)
LEMMA WalkStep ==
    ASSUME TypeInv, NEW w \in Writer, WriterStep(w), WalkInv(w)
    PROVE  WalkInv(w)'
<1>0. TypeOK
  BY DEF TypeInv
<1>1. CASE Submit(w) \/ LoseAnswer(w) \/ Retry(w)
  BY <1>0, <1>1, ClientEffect DEF WalkInv, IsAtRest, HasSaved, Walking, Planned
<1>2. CASE RollsBack(w) \/ Commit(w)
  BY <1>0, <1>2, FinishEffect DEF RollsBack, Commit, WalkInv, IsAtRest, HasSaved, Walking, Planned
<1>3. CASE Plans(w)
  <2>1. IsSane(request[w])
    BY <1>3, PlansFacts DEF Plans
  <2> QED BY <1>0, <1>3, <2>1, PlansEffect DEF WalkInv, IsAtRest, HasSaved, Walking, Planned, Base
<1>4. CASE Resolves(w)
  BY <1>0, <1>4, ResolvesEffect DEF WalkInv, IsAtRest, HasSaved, Walking, Planned, Base
<1>5. CASE QuietStep(w)
  BY <1>5, QuietWalk
<1>6. CASE SavedItem(w)
  BY <1>6, SavedItemWalk
<1> QED
  BY <1>1, <1>2, <1>3, <1>4, <1>5, <1>6, StartWalk, CreateNewWalk, KeepUnchangedWalk,
     VersionExistingWalk, FlipWalk, InsertMemoryWalk, InsertVersionWalk
     DEF WriterStep, WorkStep, QuietStep, SavedItem

(* A request that does not move keeps its invariant.                       *)
LEMMA WalkFrame ==
    ASSUME NEW u \in Writer, UNCHANGED Own(u), WalkInv(u)
    PROVE  WalkInv(u)'
<1>1. /\ pc'[u] = pc[u] /\ request'[u] = request[u] /\ plan'[u] = plan[u] /\ cursor'[u] = cursor[u]
      /\ cur'[u] = cur[u] /\ todo'[u] = todo[u] /\ tx'[u] = tx[u]
  BY DEF Own
<1>2. Walks(u) => Walks(u)'
  BY <1>1, WalkKept DEF Script, Rows, Superseding, At, ItemAt
<1> QED BY <1>1, <1>2 DEF WalkInv, IsAtRest, HasSaved, Base

(* What is known of every request on its way.                              *)
AllWalk == \A w \in Writer : WalkInv(w)

(* Whatever the other requests do in the meantime, a request that is       *)
(* walking its items has written, or is about to write, exactly the rows   *)
(* its batch asks for: numbered on from what was read, one current row for *)
(* each target, no claim repeated, and flags cleared only on the versions  *)
(* it planned on.                                                          *)
THEOREM WalkInvHolds == Spec => []AllWalk
<1>1. Init => AllWalk
  BY DEF Init, AllWalk, WalkInv, IsAtRest, HasSaved, Walking, Planned
<1>2. TypeInv /\ AllWalk /\ [Next]_vars => AllWalk'
  <2> SUFFICES ASSUME TypeInv, AllWalk, [Next]_vars, NEW u \in Writer PROVE WalkInv(u)'
    BY DEF AllWalk
  <2>1. CASE UNCHANGED vars
    BY <2>1, WalkFrame DEF AllWalk, vars, Own
  <2>2. ASSUME NEW w \in Writer, WriterStep(w) PROVE WalkInv(u)'
    BY <2>2, WalkStep, WalkFrame, OthersKeep DEF AllWalk, Others, TypeInv
  <2> QED BY <2>1, <2>2, WriterSteps
<1> QED BY <1>1, <1>2, TypeInvHolds, PTL DEF Spec

=============================================================================
