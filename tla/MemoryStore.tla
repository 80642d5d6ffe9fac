---------------------------- MODULE MemoryStore ----------------------------
(***************************************************************************)
(* The write path of the memory service: SetMemories over PostgreSQL, the  *)
(* AGE graph that lives in the same database, and the content-addressed    *)
(* blob store.  Writers are concurrent requests.  A request is planned by  *)
(* plain reads of committed state, its blobs are stored, and one READ      *)
(* COMMITTED transaction then applies the plan, row by row, against the    *)
(* unique indexes and the append-only trigger that back the plan up.       *)
(*                                                                         *)
(* A transaction is an overlay tx[w] on the committed tables: the rows it  *)
(* has inserted and the version rows whose is_current flag it has cleared. *)
(* A statement that meets an uncommitted row of another transaction waits  *)
(* for it; one that meets a committed row is refused.                      *)
(***************************************************************************)
EXTENDS Integers, Sequences, FiniteSets

CONSTANTS
    Writer,       \* concurrent POST /memories requests
    Group, Memory, Slug, Claim, Relation, Label, Ticket, Product, Initiative,
    Nobody,       \* author of the rows that were there before, and "no value"
    BlobOf,       \* BlobOf[c]: the address of the body of claim c, or Nobody
    OwnerOf,      \* OwnerOf[t]: the group that owns ticket t, or Nobody
    InitiativeOf, \* InitiativeOf[g]: the initiative of group g, or Nobody
    Registered,   \* the products that are registered
    Request,      \* the requests a client may send
    Seed,         \* the memory rows already stored, as [uuid, group, slug]
    SeedClaim,    \* the claim of their version 1
    MaxAttempts   \* bound: how often one client sends one request

Blob == {BlobOf[c] : c \in Claim} \ {Nobody}

Item == [kind : {"version", "create", "mint"},
         uuid : Memory \cup {Nobody}, slug : Slug, claim : Claim]
Triple == [source : Memory, target : Memory, relation : Relation]

ASSUME ConstantsAreTyped ==
    /\ Nobody \notin Writer \cup Memory \cup Group \cup Claim
    /\ OwnerOf \in [Ticket -> Group \cup {Nobody}]
    /\ InitiativeOf \in [Group -> Initiative \cup {Nobody}]
    /\ Registered \subseteq Product
    /\ SeedClaim \in Claim
    /\ DOMAIN BlobOf = Claim
    /\ MaxAttempts \in Nat \ {0}

(* What the request validator lets through, and the store it starts from.  *)
ASSUME RequestsAreValid ==
    /\ \A r \in Request :
         /\ r.group \in Group /\ r.items \in Seq(Item)
         /\ r.links \subseteq Triple /\ r.labels \subseteq Label
         /\ r.refs \subseteq Ticket /\ r.product \in Product \cup {Nobody}
         /\ r.dryRun \in BOOLEAN
         /\ \A l \in r.links : l.source # l.target
         /\ \A i \in DOMAIN r.items :
              (r.items[i].kind = "mint") <=> (r.items[i].uuid = Nobody)

ASSUME SeedIsAStore ==
    /\ Seed \subseteq [uuid : Memory, group : Group, slug : Slug]
    /\ \A p, q \in Seed :
         (p.uuid = q.uuid \/ (p.group = q.group /\ p.slug = q.slug)) => p = q

VARIABLES
    (* committed state *)
    memories,     \* the memory table
    versions,     \* the memory_version table
    labels, links, abouts, productLinks,
    blobs,        \* the objects of the blob store
    (* per request *)
    pc, request, plan, cursor, cur, todo, tx, locks, answer, attempts

dbVars == <<memories, versions, labels, links, abouts, productLinks>>
vars == <<memories, versions, labels, links, abouts, productLinks, blobs,
          pc, request, plan, cursor, cur, todo, tx, locks, answer, attempts>>

Author == Writer \cup {Nobody}
MemoryRow == [uuid : Memory, group : Group, slug : Slug, by : Author]
VersionRow == [memory : Memory, version : Nat \ {0}, claim : Claim,
               current : BOOLEAN, by : Author]
LabelRow == [name : Label, by : Author]
LinkRow == [source : Memory, target : Memory, relation : Relation, by : Author]
AboutRow == [memory : Memory, ticket : Ticket, by : Author]
Key == Memory \X Nat

NoRequest == [group |-> Nobody, items |-> <<>>, links |-> {}, labels |-> {},
              refs |-> {}, product |-> Nobody, dryRun |-> FALSE]
NoPlan == [base |-> [m \in Memory |-> 0], claim |-> [m \in Memory |-> Nobody],
           links |-> {}, labels |-> {}]
NoRows == [flips |-> {}, memories |-> {}, versions |-> {}, labels |-> {}]
NoTx == [flips |-> {}, memories |-> {}, versions |-> {}, labels |-> {},
         links |-> {}, abouts |-> {}, products |-> {}]

Init ==
    /\ memories = {[uuid |-> s.uuid, group |-> s.group, slug |-> s.slug, by |-> Nobody] : s \in Seed}
    /\ versions = {[memory |-> s.uuid, version |-> 1, claim |-> SeedClaim,
                    current |-> TRUE, by |-> Nobody] : s \in Seed}
    /\ labels = {} /\ links = {} /\ abouts = {} /\ productLinks = {}
    /\ blobs = {BlobOf[SeedClaim]} \ {Nobody}
    /\ pc = [w \in Writer |-> "idle"]
    /\ request = [w \in Writer |-> NoRequest]
    /\ plan = [w \in Writer |-> NoPlan]
    /\ cursor = [w \in Writer |-> 1]
    /\ cur = [w \in Writer |-> [m \in Memory |-> 0]]
    /\ todo = [w \in Writer |-> NoRows]
    /\ tx = [w \in Writer |-> NoTx]
    /\ locks = [w \in Writer |-> {}]
    /\ answer = [w \in Writer |-> "none"]
    /\ attempts = [w \in Writer |-> 0]

-----------------------------------------------------------------------------
(***************************************************************************)
(* Rows: what a transaction sees, and when two rows are the same key.      *)
(***************************************************************************)

KeyOf(v) == <<v.memory, v.version>>

(* The committed version rows with the flags in `flips' cleared.           *)
Flipped(rows, flips) ==
    {[v EXCEPT !.current = v.current /\ KeyOf(v) \notin flips] : v \in rows}

VisibleVersions(w) == Flipped(versions, tx[w].flips) \cup tx[w].versions

(* The unique indexes of memory and memory_version.                        *)
SameMemoryKey(p, q) == p.uuid = q.uuid \/ (p.group = q.group /\ p.slug = q.slug)

SameVersionKey(u, v) ==
    u.memory = v.memory /\ (u.version = v.version \/ (u.current /\ v.current))

Others(w) == Writer \ {w}

(* Whom a statement of w waits for: the transactions holding an            *)
(* uncommitted row, or row lock, on the same key.                          *)
FlipWaitsFor(w, k) == {u \in Others(w) : k \in tx[u].flips}

MemoryWaitsFor(w, p) == {u \in Others(w) : \E q \in tx[u].memories : SameMemoryKey(p, q)}

VersionWaitsFor(w, v) ==
    {u \in Others(w) :
        \/ \E q \in tx[u].versions : SameVersionKey(v, q)
        \/ v.current /\ \E k \in tx[u].flips : k[1] = v.memory}

LabelWaitsFor(w, n) == {u \in Others(w) : \E q \in tx[u].labels : q.name = n.name}

(* Which statements the database refuses.  The append-only trigger admits  *)
(* an UPDATE of a version row only when is_current really changes.         *)
FlipIsRefused(w, k) == ~ \E v \in VisibleVersions(w) : KeyOf(v) = k /\ v.current

(* Fault: no unique index on (group_id, subject_slug).                     *)
OnlyUuidIsRefused(w, p) == \E q \in memories \cup tx[w].memories : p.uuid = q.uuid

MemoryIsRefused(w, p) == \E q \in memories \cup tx[w].memories : SameMemoryKey(p, q)

VersionIsRefused(w, v) == \E q \in VisibleVersions(w) : SameVersionKey(v, q)

LabelIsRefused(w, n) == \E q \in labels \cup tx[w].labels : q.name = n.name

-----------------------------------------------------------------------------
(***************************************************************************)
(* Planning: reads of committed state, before any transaction.             *)
(***************************************************************************)

Versioned(r) == {i \in DOMAIN r.items : r.items[i].kind = "version"}
Created(r) == DOMAIN r.items \ Versioned(r)
Targets(r) == {r.items[i].uuid : i \in Versioned(r)}
BatchUuids(r) == {r.items[i].uuid : i \in DOMAIN r.items} \ {Nobody}

CurrentOf(m) == CHOOSE v \in versions : v.memory = m /\ v.current

(* Fault: a version target is looked for in every group.                   *)
ItemErrorAnyGroup(r, i) ==
    LET item == r.items[i] IN
    IF (i \in Versioned(r) /\ ~ \E p \in memories : p.uuid = item.uuid) THEN "notFound"
    ELSE IF i \in Created(r) /\ \E p \in memories :
              p.uuid = item.uuid \/ (p.group = r.group /\ p.slug = item.slug)
         THEN "conflict" ELSE "none"

(* Why item i of request r cannot be planned, or "none".                   *)
ItemError(r, i) ==
    LET item == r.items[i] IN
    IF i \in Versioned(r)
    THEN IF ~ \E p \in memories : p.uuid = item.uuid /\ p.group = r.group
         THEN "notFound"
         ELSE IF ~ \E v \in versions : v.memory = item.uuid /\ v.current
              THEN "conflict" ELSE "none"
    ELSE IF \/ \E j \in Created(r) :
                 j < i /\ \/ r.items[j].slug = item.slug
                          \/ item.uuid # Nobody /\ r.items[j].uuid = item.uuid
            \/ \E p \in memories :
                 p.uuid = item.uuid \/ (p.group = r.group /\ p.slug = item.slug)
         THEN "conflict" ELSE "none"

ItemErrors(r) == {i \in DOMAIN r.items : ItemError(r, i) # "none"}

(* Fault: every item is compared with the stored claim, not with the batch.*)
StoredClaim(w, i) == plan[w].claim[request[w].items[i].uuid]

(* The claim item i is compared with: that of the latest earlier item of   *)
(* the batch with the same target, or the claim that was read as current.  *)
LastClaim(w, i) ==
    LET items == request[w].items
        earlier == {j \in Versioned(request[w]) : j < i /\ items[j].uuid = items[i].uuid}
    IN IF earlier = {} THEN plan[w].claim[items[i].uuid]
       ELSE items[CHOOSE j \in earlier : \A k \in earlier : k <= j].claim

IsUnchanged(w, i) ==
    i \in Versioned(request[w]) /\ request[w].items[i].claim = LastClaim(w, i)

(* An item that stores a version: a create, or a claim that changed.       *)
Stores(w) == {i \in DOMAIN request[w].items : ~IsUnchanged(w, i)}

(* Fault: only the bodies of new memories are stored.                      *)
BlobsOfCreates(w) == {BlobOf[request[w].items[i].claim] : i \in Created(request[w])} \ {Nobody}

BlobsOf(w) == {BlobOf[request[w].items[i].claim] : i \in Stores(w)} \ {Nobody}

ExistsLink(l) ==
    \E k \in links : k.source = l.source /\ k.target = l.target /\ k.relation = l.relation

(* Fault: only the source of a link is looked up.                          *)
RestErrorsSourceOnly(r) ==
    IF \E l \in r.links : l.source \notin BatchUuids(r) \cup {p.uuid : p \in memories}
    THEN {"notFound"} ELSE {}

(* Why the rest of request r cannot be planned: links first, then the      *)
(* ticket references in whatever order they were sent, then the product.   *)
RestErrors(r) ==
    LET known == BatchUuids(r) \cup {p.uuid : p \in memories}
        unknown == {t \in r.refs : OwnerOf[t] = Nobody}
        own == {t \in r.refs : OwnerOf[t] = r.group}
    IN IF \E l \in r.links : {l.source, l.target} \ known # {} THEN {"notFound"}
       ELSE IF unknown \cup own # {}
       THEN (IF unknown # {} THEN {"notFound"} ELSE {}) \cup (IF own # {} THEN {"conflict"} ELSE {})
       ELSE IF r.product # Nobody /\ r.product \notin Registered THEN {"notFound"} ELSE {}

-----------------------------------------------------------------------------
(***************************************************************************)
(* The request as a process.                                               *)
(***************************************************************************)

At(w, place) == pc[w] = place
Goto(w, place) == pc' = [pc EXCEPT ![w] = place]

(* Fault: advisory locks taken for the session, not for the transaction.   *)
FinishKeepingLocks(w, a) ==
    /\ Goto(w, "done")
    /\ answer' = [answer EXCEPT ![w] = a]
    /\ plan' = [plan EXCEPT ![w] = NoPlan]
    /\ cursor' = [cursor EXCEPT ![w] = 1]
    /\ cur' = [cur EXCEPT ![w] = [m \in Memory |-> 0]]
    /\ todo' = [todo EXCEPT ![w] = NoRows]
    /\ tx' = [tx EXCEPT ![w] = NoTx]
    /\ UNCHANGED <<request, attempts, locks>>

(* The request ends: its transaction, if any, is rolled back and with it   *)
(* go its row locks and its transaction-scoped advisory locks.             *)
Finish(w, a) ==
    /\ Goto(w, "done")
    /\ answer' = [answer EXCEPT ![w] = a]
    /\ plan' = [plan EXCEPT ![w] = NoPlan]
    /\ cursor' = [cursor EXCEPT ![w] = 1]
    /\ cur' = [cur EXCEPT ![w] = [m \in Memory |-> 0]]
    /\ todo' = [todo EXCEPT ![w] = NoRows]
    /\ tx' = [tx EXCEPT ![w] = NoTx]
    /\ locks' = [locks EXCEPT ![w] = {}]
    /\ UNCHANGED <<request, attempts>>

Abort(w, a) == Finish(w, a) /\ UNCHANGED <<dbVars, blobs>>

Submit(w) ==
    /\ At(w, "idle")
    /\ \E r \in Request : request' = [request EXCEPT ![w] = r]
    /\ Goto(w, "received")
    /\ attempts' = [attempts EXCEPT ![w] = 1]
    /\ UNCHANGED <<dbVars, blobs, plan, cursor, cur, todo, tx, locks, answer>>

(* The batched reads of memories, current versions, uuids and subjects, as *)
(* one read: the first and the last two only ask for rows, which are never *)
(* removed, so only the read of the current versions has a moment.         *)
PlanItems(w) ==
    LET r == request[w] IN
    /\ At(w, "received")
    /\ IF ItemErrors(r) # {}
       THEN Abort(w, ItemError(r, CHOOSE i \in ItemErrors(r) : \A j \in ItemErrors(r) : i <= j))
       ELSE LET base == [m \in Memory |-> IF m \in Targets(r) THEN CurrentOf(m).version ELSE 0]
                claim == [m \in Memory |-> IF m \in Targets(r) THEN CurrentOf(m).claim ELSE Nobody]
            IN /\ plan' = [plan EXCEPT ![w] = [NoPlan EXCEPT !.base = base, !.claim = claim]]
               /\ cur' = [cur EXCEPT ![w] = base]
               /\ Goto(w, "planned")
               /\ UNCHANGED <<dbVars, blobs, request, cursor, todo, tx, locks, answer, attempts>>

(* Links, labels, ticket references and product, read after the items.  A  *)
(* dry run answers here, from the same plan.                               *)
PlanRest(w) ==
    LET r == request[w] IN
    /\ At(w, "planned")
    /\ IF RestErrors(r) # {} THEN \E e \in RestErrors(r) : Abort(w, e)
       ELSE IF r.dryRun THEN Abort(w, "predicted")
       ELSE /\ plan' = [plan EXCEPT ![w] =
                    [@ EXCEPT !.links = {l \in r.links : ~ExistsLink(l)},
                              !.labels = {n \in r.labels : ~ \E q \in labels : q.name = n}]]
            /\ Goto(w, "resolved")
            /\ UNCHANGED <<dbVars, blobs, request, cursor, cur, todo, tx, locks, answer, attempts>>

(* Fault: the graph's lock is taken when the transaction opens.            *)
StoreBlobsLockingFirst(w) ==
    /\ At(w, "resolved")
    /\ blobs' = blobs \cup BlobsOf(w)
    /\ IF plan[w].links = {} THEN UNCHANGED locks
       ELSE /\ \A u \in Writer \ {w} : "graph" \notin locks[u]
            /\ locks' = [locks EXCEPT ![w] = {"graph"}]
    /\ Goto(w, "items")
    /\ UNCHANGED <<dbVars, request, plan, cursor, cur, todo, tx, answer, attempts>>

(* Bodies are stored before the transaction opens, and never deleted.      *)
StoreBlobs(w) ==
    /\ At(w, "resolved")
    /\ blobs' = blobs \cup BlobsOf(w)
    /\ Goto(w, "items")
    /\ UNCHANGED <<dbVars, request, plan, cursor, cur, todo, tx, locks, answer, attempts>>

(* The object store fails part way: some bodies are stored, unreferenced.  *)
StoreBlobsFails(w) ==
    /\ At(w, "resolved")
    /\ BlobsOf(w) # {}
    /\ \E S \in SUBSET BlobsOf(w) : S # BlobsOf(w) /\ blobs' = blobs \cup S
    /\ Finish(w, "error")
    /\ UNCHANGED dbVars

-----------------------------------------------------------------------------
(***************************************************************************)
(* The transaction.  Items are walked in order; what they add waits in     *)
(* todo[w] until the next SaveChanges, which every version bump forces.    *)
(***************************************************************************)

ItemAt(w) == request[w].items[cursor[w]]
InItems(w) == At(w, "items") /\ cursor[w] \in DOMAIN request[w].items

(* A uuid nobody has: Guid.NewGuid().                                      *)
Fresh(m) ==
    /\ \A p \in memories : p.uuid # m
    /\ \A r \in Request : m \notin BatchUuids(r)
    /\ \A u \in Writer : \A p \in tx[u].memories \cup todo[u].memories : p.uuid # m

NewMemoryRow(w, m) ==
    [uuid |-> m, group |-> request[w].group, slug |-> ItemAt(w).slug, by |-> w]

FirstVersionRow(w, m) ==
    [memory |-> m, version |-> 1, claim |-> ItemAt(w).claim, current |-> TRUE, by |-> w]

CreateNew(w) ==
    /\ InItems(w)
    /\ cursor[w] \in Created(request[w])
    /\ \E m \in Memory :
         /\ IF ItemAt(w).kind = "mint" THEN Fresh(m) ELSE m = ItemAt(w).uuid
         /\ todo' = [todo EXCEPT ![w] =
              [@ EXCEPT !.memories = todo[w].memories \cup {NewMemoryRow(w, m)},
                        !.versions = todo[w].versions \cup {FirstVersionRow(w, m)}]]
    /\ cursor' = [cursor EXCEPT ![w] = @ + 1]
    /\ UNCHANGED <<dbVars, blobs, pc, request, plan, cur, tx, locks, answer, attempts>>

KeepUnchanged(w) ==
    /\ InItems(w)
    /\ IsUnchanged(w, cursor[w])
    /\ cursor' = [cursor EXCEPT ![w] = @ + 1]
    /\ UNCHANGED <<dbVars, blobs, pc, request, plan, cur, todo, tx, locks, answer, attempts>>

(* Fault: the version to supersede is read again when it is written.       *)
VersionExistingFresh(w) ==
    LET m == ItemAt(w).uuid
        unsaved == {v \in todo[w].versions : v.memory = m /\ v.current}
        now == (CHOOSE v \in VisibleVersions(w) : v.memory = m /\ v.current).version
    IN /\ InItems(w)
       /\ cursor[w] \in Versioned(request[w]) /\ ~IsUnchanged(w, cursor[w])
       /\ IF unsaved # {}
          THEN /\ todo' = [todo EXCEPT ![w].versions =
                          (@ \ unsaved) \cup {[v EXCEPT !.current = FALSE] : v \in unsaved}]
               /\ UNCHANGED cur
          ELSE /\ todo' = [todo EXCEPT ![w].flips = @ \cup {<<m, now>>}]
               /\ cur' = [cur EXCEPT ![w][m] = now]
       /\ Goto(w, "saving")
       /\ UNCHANGED <<dbVars, blobs, request, plan, cursor, tx, locks, answer, attempts>>

(* Clear is_current on the version the batch sees as current: a row still  *)
(* to be inserted is changed in place, any other row needs an UPDATE.      *)
VersionExisting(w) ==
    LET m == ItemAt(w).uuid
        unsaved == {v \in todo[w].versions : v.memory = m /\ v.version = cur[w][m]}
    IN /\ InItems(w)
       /\ cursor[w] \in Versioned(request[w]) /\ ~IsUnchanged(w, cursor[w])
       /\ todo' = IF unsaved = {}
                  THEN [todo EXCEPT ![w].flips = @ \cup {<<m, cur[w][m]>>}]
                  ELSE [todo EXCEPT ![w].versions =
                          (@ \ unsaved) \cup {[v EXCEPT !.current = FALSE] : v \in unsaved}]
       /\ Goto(w, "saving")
       /\ UNCHANGED <<dbVars, blobs, request, plan, cursor, cur, tx, locks, answer, attempts>>

(* After the last item the proposed labels join the final SaveChanges.     *)
SaveLabels(w) ==
    /\ At(w, "items") /\ cursor[w] \notin DOMAIN request[w].items
    /\ todo' = [todo EXCEPT ![w].labels = {[name |-> n, by |-> w] : n \in plan[w].labels}]
    /\ Goto(w, "saving")
    /\ UNCHANGED <<dbVars, blobs, request, plan, cursor, cur, tx, locks, answer, attempts>>

(* One statement of SaveChanges, in whatever order EF sends them.  A       *)
(* refusal is mapped to a conflict and rolls the transaction back.         *)
FlipCurrent(w, k) ==
    /\ At(w, "saving") /\ k \in todo[w].flips
    /\ FlipWaitsFor(w, k) = {}
    /\ IF FlipIsRefused(w, k) THEN Abort(w, "conflict")
       ELSE /\ todo' = [todo EXCEPT ![w].flips = @ \ {k}]
            /\ tx' = IF \E v \in tx[w].versions : KeyOf(v) = k
                     THEN [tx EXCEPT ![w].versions = Flipped(@, {k})]
                     ELSE [tx EXCEPT ![w].flips = @ \cup {k}]
            /\ UNCHANGED <<dbVars, blobs, pc, request, plan, cursor, cur, locks, answer, attempts>>

InsertMemory(w, p) ==
    /\ At(w, "saving") /\ p \in todo[w].memories
    /\ MemoryWaitsFor(w, p) = {}
    /\ IF MemoryIsRefused(w, p) THEN Abort(w, "conflict")
       ELSE /\ todo' = [todo EXCEPT ![w].memories = @ \ {p}]
            /\ tx' = [tx EXCEPT ![w].memories = @ \cup {p}]
            /\ UNCHANGED <<dbVars, blobs, pc, request, plan, cursor, cur, locks, answer, attempts>>

(* The foreign key orders a version row after its memory row.              *)
InsertVersion(w, v) ==
    /\ At(w, "saving") /\ v \in todo[w].versions
    /\ \A p \in todo[w].memories : p.uuid # v.memory
    /\ VersionWaitsFor(w, v) = {}
    /\ IF VersionIsRefused(w, v) THEN Abort(w, "conflict")
       ELSE /\ todo' = [todo EXCEPT ![w].versions = @ \ {v}]
            /\ tx' = [tx EXCEPT ![w].versions = @ \cup {v}]
            /\ UNCHANGED <<dbVars, blobs, pc, request, plan, cursor, cur, locks, answer, attempts>>

(* Fault: a label is saved on a connection of its own.                     *)
InsertLabelAtOnce(w, n) ==
    /\ At(w, "saving") /\ n \in todo[w].labels
    /\ LabelWaitsFor(w, n) = {} /\ ~LabelIsRefused(w, n)
    /\ todo' = [todo EXCEPT ![w].labels = @ \ {n}]
    /\ labels' = labels \cup {n}
    /\ UNCHANGED <<memories, versions, links, abouts, productLinks, blobs, pc, request, plan,
                   cursor, cur, tx, locks, answer, attempts>>

InsertLabel(w, n) ==
    /\ At(w, "saving") /\ n \in todo[w].labels
    /\ LabelWaitsFor(w, n) = {}
    /\ IF LabelIsRefused(w, n) THEN Abort(w, "conflict")
       ELSE /\ todo' = [todo EXCEPT ![w].labels = @ \ {n}]
            /\ tx' = [tx EXCEPT ![w].labels = @ \cup {n}]
            /\ UNCHANGED <<dbVars, blobs, pc, request, plan, cursor, cur, locks, answer, attempts>>

(* SaveChanges is over.  Inside the walk it was the flip of this item, and *)
(* the next version is now added; after the walk it was the final save.    *)
(* Fault: the version number counts the items of the batch, not the bumps. *)
NextVersionByIndex(w) ==
    [memory |-> ItemAt(w).uuid, version |-> plan[w].base[ItemAt(w).uuid] + cursor[w],
     claim |-> ItemAt(w).claim, current |-> TRUE, by |-> w]

(* Fault: the new version takes the number before the current one.         *)
NextVersionBackwards(w) ==
    [memory |-> ItemAt(w).uuid, version |-> cur[w][ItemAt(w).uuid] - 1,
     claim |-> ItemAt(w).claim, current |-> TRUE, by |-> w]

NextVersionRow(w) ==
    [memory |-> ItemAt(w).uuid, version |-> cur[w][ItemAt(w).uuid] + 1,
     claim |-> ItemAt(w).claim, current |-> TRUE, by |-> w]

Saved(w) ==
    /\ At(w, "saving") /\ todo[w] = NoRows
    /\ IF cursor[w] \in DOMAIN request[w].items
       THEN /\ todo' = [todo EXCEPT ![w].versions = {NextVersionRow(w)}]
            /\ cur' = [cur EXCEPT ![w][ItemAt(w).uuid] = @ + 1]
            /\ cursor' = [cursor EXCEPT ![w] = @ + 1]
            /\ Goto(w, "items")
       ELSE Goto(w, "graph") /\ UNCHANGED <<todo, cur, cursor>>
    /\ UNCHANGED <<dbVars, blobs, request, plan, tx, locks, answer, attempts>>

(* The memories of the batch, in the transaction or before it.             *)
ResultUuids(w) == Targets(request[w]) \cup {p.uuid : p \in tx[w].memories}

NeedsGraph(w) == plan[w].links # {} \/ (request[w].refs # {} /\ request[w].items # <<>>)

LockHolders(w, name) == {u \in Others(w) : name \in locks[u]}

(* Link and ABOUT edges, under the graph's advisory lock (734921, 2), which *)
(* is held to the end of the transaction.  Each edge is looked for again   *)
(* under the lock and created only when it is absent.                      *)
(* Fault: the planned links are created without a second look.             *)
PlannedLinks(w) == plan[w].links

NewLinks(w) == {l \in plan[w].links : ~ExistsLink(l)}

NewAbouts(w) ==
    {a \in ResultUuids(w) \X request[w].refs :
        ~ \E b \in abouts : b.memory = a[1] /\ b.ticket = a[2]}

LinkRows(w) ==
    {[source |-> l.source, target |-> l.target, relation |-> l.relation, by |-> w] : l \in NewLinks(w)}

AboutRows(w) == {[memory |-> a[1], ticket |-> a[2], by |-> w] : a \in NewAbouts(w)}

GraphWrites(w) ==
    /\ At(w, "graph")
    /\ IF NeedsGraph(w)
       THEN /\ LockHolders(w, "graph") = {}
            /\ locks' = [locks EXCEPT ![w] = @ \cup {"graph"}]
            /\ tx' = [tx EXCEPT ![w] = [@ EXCEPT !.links = LinkRows(w), !.abouts = AboutRows(w)]]
       ELSE UNCHANGED <<locks, tx>>
    /\ Goto(w, "product")
    /\ UNCHANGED <<dbVars, blobs, request, plan, cursor, cur, todo, answer, attempts>>

(* Product -> initiative, under the product lock (734921, 3).              *)
BoundInitiative(w) == InitiativeOf[request[w].group]
NeedsProduct(w) == request[w].product # Nobody /\ BoundInitiative(w) # Nobody

ProductWrites(w) ==
    /\ At(w, "product")
    /\ IF NeedsProduct(w)
       THEN /\ LockHolders(w, "product") = {}
            /\ locks' = [locks EXCEPT ![w] = @ \cup {"product"}]
            /\ tx' = [tx EXCEPT ![w].products =
                        {<<request[w].product, BoundInitiative(w)>>} \ productLinks]
       ELSE UNCHANGED <<locks, tx>>
    /\ Goto(w, "commit")
    /\ UNCHANGED <<dbVars, blobs, request, plan, cursor, cur, todo, answer, attempts>>

(* COMMIT: the overlay becomes the store, and every lock is released.      *)
Commit(w) ==
    /\ At(w, "commit")
    /\ memories' = memories \cup tx[w].memories
    /\ versions' = Flipped(versions, tx[w].flips) \cup tx[w].versions
    /\ labels' = labels \cup tx[w].labels
    /\ links' = links \cup tx[w].links
    /\ abouts' = abouts \cup tx[w].abouts
    /\ productLinks' = productLinks \cup tx[w].products
    /\ Finish(w, "ok")
    /\ UNCHANGED blobs

-----------------------------------------------------------------------------
(***************************************************************************)
(* What can go wrong around a request.                                     *)
(***************************************************************************)

(* Whom w is waiting for.  PostgreSQL aborts a transaction that finds      *)
(* itself on a cycle of waits.                                             *)
Waits(w) ==
    CASE At(w, "saving") ->
            UNION ({FlipWaitsFor(w, k) : k \in todo[w].flips}
              \cup {MemoryWaitsFor(w, p) : p \in todo[w].memories}
              \cup {VersionWaitsFor(w, v) : v \in todo[w].versions}
              \cup {LabelWaitsFor(w, n) : n \in todo[w].labels})
      [] At(w, "graph") /\ NeedsGraph(w) -> LockHolders(w, "graph")
      [] At(w, "product") /\ NeedsProduct(w) -> LockHolders(w, "product")
      [] OTHER -> {}

InDeadlock(w) ==
    /\ Waits(w) # {}
    /\ \A S \in SUBSET Writer :
         (Waits(w) \subseteq S /\ \A u \in S : Waits(u) \subseteq S) => w \in S

DeadlockVictim(w) == InDeadlock(w) /\ Abort(w, "deadlock")

InFlight(w) == pc[w] \notin {"idle", "done"}

(* The client goes away, or the service is restarted: the transaction is   *)
(* rolled back and nobody is told.                                         *)
Interrupt(w) == InFlight(w) /\ Abort(w, "lost")

(* The answer of a committed request does not reach the client.            *)
LoseAnswer(w) ==
    /\ At(w, "done") /\ answer[w] = "ok"
    /\ answer' = [answer EXCEPT ![w] = "lost"]
    /\ UNCHANGED <<dbVars, blobs, pc, request, plan, cursor, cur, todo, tx, locks, attempts>>

(* A client with no answer, or a server error, sends the same again.       *)
Retry(w) ==
    /\ At(w, "done") /\ answer[w] \in {"lost", "error", "deadlock"} /\ attempts[w] < MaxAttempts
    /\ Goto(w, "received")
    /\ attempts' = [attempts EXCEPT ![w] = @ + 1]
    /\ answer' = [answer EXCEPT ![w] = "none"]
    /\ UNCHANGED <<dbVars, blobs, request, plan, cursor, cur, todo, tx, locks>>

Save(w) ==
    \/ \E k \in todo[w].flips : FlipCurrent(w, k)
    \/ \E p \in todo[w].memories : InsertMemory(w, p)
    \/ \E v \in todo[w].versions : InsertVersion(w, v)
    \/ \E n \in todo[w].labels : InsertLabel(w, n)
    \/ Saved(w)

(* What the service does by itself once a request has arrived.             *)
Serve(w) ==
    \/ PlanItems(w) \/ PlanRest(w) \/ StoreBlobs(w)
    \/ CreateNew(w) \/ KeepUnchanged(w) \/ VersionExisting(w) \/ SaveLabels(w)
    \/ Save(w) \/ GraphWrites(w) \/ ProductWrites(w) \/ Commit(w)
    \/ DeadlockVictim(w)

(* Every client has its answer: nothing is left to do.                     *)
AllAnswered == (\A w \in Writer : At(w, "done")) /\ UNCHANGED vars

Next ==
    \/ \E w \in Writer :
         \/ Submit(w) \/ Serve(w) \/ StoreBlobsFails(w)
         \/ Interrupt(w) \/ LoseAnswer(w) \/ Retry(w)
    \/ AllAnswered

Spec == Init /\ [][Next]_vars
FairSpec == Spec /\ \A w \in Writer : WF_vars(Serve(w))

-----------------------------------------------------------------------------
(***************************************************************************)
(* Properties.                                                             *)
(***************************************************************************)

Plan == [base : [Memory -> Nat], claim : [Memory -> Claim \cup {Nobody}],
         links : SUBSET Triple, labels : SUBSET Label]
Places == {"idle", "received", "planned", "resolved", "items", "saving", "graph",
           "product", "commit", "done"}
Answers == {"none", "ok", "predicted", "notFound", "conflict", "error", "deadlock", "lost"}
RowSets == [flips : SUBSET Key, memories : SUBSET MemoryRow,
            versions : SUBSET VersionRow, labels : SUBSET LabelRow]
Overlay == [flips : SUBSET Key, memories : SUBSET MemoryRow,
            versions : SUBSET VersionRow, labels : SUBSET LabelRow,
            links : SUBSET LinkRow, abouts : SUBSET AboutRow,
            products : SUBSET (Product \X Initiative)]

(* Every variable holds a value of its kind.                               *)
TypeOK ==
    /\ memories \subseteq MemoryRow /\ versions \subseteq VersionRow
    /\ labels \subseteq LabelRow /\ links \subseteq LinkRow /\ abouts \subseteq AboutRow
    /\ productLinks \subseteq Product \X Initiative
    /\ blobs \subseteq Blob
    /\ pc \in [Writer -> Places]
    /\ request \in [Writer -> Request \cup {NoRequest}]
    /\ plan \in [Writer -> Plan]
    /\ cursor \in [Writer -> Nat \ {0}]
    /\ cur \in [Writer -> [Memory -> Nat]]
    /\ todo \in [Writer -> RowSets]
    /\ tx \in [Writer -> Overlay]
    /\ locks \in [Writer -> SUBSET {"graph", "product"}]
    /\ answer \in [Writer -> Answers]
    /\ attempts \in [Writer -> 0 .. MaxAttempts]

VersionsOf(m) == {v \in versions : v.memory = m}

(* SetMemories "owns is_current": at every committed state a stored memory *)
(* has versions 1..n without a gap or a duplicate, and exactly the newest  *)
(* is current - although the database forbids two currents but not none.   *)
NewestIsCurrent ==
    \A p \in memories :
        LET own == VersionsOf(p.uuid) IN
        /\ \E n \in {v.version : v \in own} :
             /\ {v.version : v \in own} = 1 .. n
             /\ \A v \in own : v.current <=> v.version = n
        /\ \A u, v \in own : u.version = v.version => u = v

(* A version is stored only for a changed claim: two successive versions   *)
(* of a memory never assert the same thing, whatever raced or was retried. *)
NoEmptyVersion ==
    \A u, v \in versions : u.memory = v.memory /\ v.version = u.version + 1 => u.claim # v.claim

(* A subject names one memory of its group, and a uuid one memory, although*)
(* both are only checked by reads outside the transaction.                 *)
SubjectsAreUnique == \A p, q \in memories : SameMemoryKey(p, q) => p = q

(* A link triple and an ABOUT pair are stored once, whoever writes them    *)
(* (the graph has no unique constraint: only the lock and the re-check).   *)
EdgesAreUnique ==
    /\ \A k, l \in links :
         k.source = l.source /\ k.target = l.target /\ k.relation = l.relation => k = l
    /\ \A a, b \in abouts : a.memory = b.memory /\ a.ticket = b.ticket => a = b

(* No edge hangs from a memory that was never committed: MERGE would       *)
(* silently invent the vertex.                                             *)
EdgesJoinMemories ==
    LET stored == {p.uuid : p \in memories} IN
    /\ \A l \in links : {l.source, l.target} \subseteq stored
    /\ \A a \in abouts : a.memory \in stored

(* A memory never refers to a ticket of its own group, by whatever batch   *)
(* the reference came.                                                     *)
NoAboutOwnTicket ==
    \A a \in abouts : \A p \in memories : p.uuid = a.memory => OwnerOf[a.ticket] # p.group

(* A committed version never cites a body that is not in the blob store.   *)
CitedBlobsAreStored == \A v \in versions : BlobOf[v.claim] \in blobs \cup {Nobody}

(* All of a request or nothing: when any row of a request is visible, or   *)
(* its answer was "ok", everything it asked for is in the store.           *)
HasEffect(w) ==
    \/ answer[w] = "ok"
    \/ \E row \in memories \cup versions \cup labels \cup links \cup abouts : row.by = w

WholeRequestStored(w) ==
    LET r == request[w] IN
    /\ \A i \in Versioned(r) : \E v \in VersionsOf(r.items[i].uuid) : v.claim = r.items[i].claim
    /\ \A i \in Created(r) : \E p \in memories :
         /\ p.group = r.group /\ p.slug = r.items[i].slug
         /\ \E v \in VersionsOf(p.uuid) : v.version = 1 /\ v.claim = r.items[i].claim
         /\ \A t \in r.refs : \E a \in abouts : a.memory = p.uuid /\ a.ticket = t
    /\ \A l \in r.links : ExistsLink(l)
    /\ \A n \in r.labels : \E q \in labels : q.name = n
    /\ \A t \in r.refs, i \in Versioned(r) :
         \E a \in abouts : a.memory = r.items[i].uuid /\ a.ticket = t
    /\ r.product # Nobody /\ InitiativeOf[r.group] # Nobody
         => <<r.product, InitiativeOf[r.group]>> \in productLinks

AllOrNothing == \A w \in Writer : HasEffect(w) => WholeRequestStored(w)

(* The advisory locks come last and in one order: a transaction that holds *)
(* one is never part of a deadlock, so only row locks can cause one.       *)
LockHoldersNeverDeadlock == \A w \in Writer : InDeadlock(w) => locks[w] = {}

(* The history is append-only: a step may add version rows and clear the   *)
(* is_current of one, and never removes a row or rewrites what it says.    *)
KeepsHistory ==
    /\ memories \subseteq memories'
    /\ \A v \in versions : v \in versions' \/ (v.current /\ [v EXCEPT !.current = FALSE] \in versions')

HistoryIsAppendOnly == [][KeepsHistory]_<<memories, versions>>

(* Of several items of one batch for the same memory, the last one speaks: *)
(* once a batch that bumps m is committed, m's current claim is the last   *)
(* that the batch sent for it.                                             *)
LastOfBatch(r, m) ==
    LET mine == {i \in Versioned(r) : r.items[i].uuid = m}
    IN r.items[CHOOSE i \in mine : \A j \in mine : j <= i].claim

LastItemSpeaks ==
    [][\A w \in Writer : Commit(w) =>
         \A v \in versions' \ versions :
            (v.memory \in Targets(request[w]) /\ v.current)
               => v.claim = LastOfBatch(request[w], v.memory)
      ]_vars

(* Every request that arrives is answered: no lock is leaked, and a cycle  *)
(* of row locks is broken.                                                 *)
EveryRequestIsAnswered == \A w \in Writer : At(w, "received") ~> At(w, "done")

(* The store implements the versioned store: concurrent batches behave as  *)
(* atomic compare-and-set writes on what each had read.                    *)
HistoryOf(m) ==
    [n \in 1 .. Cardinality(VersionsOf(m)) |->
        (CHOOSE v \in versions : v.memory = m /\ v.version = n).claim]

Abstract == INSTANCE VersionedStore WITH
    history <- [m \in Memory |-> HistoryOf(m)],
    seen <- [w \in Writer |-> plan[w].base]

WritesAreCompareAndSet == Abstract!Spec

=============================================================================
