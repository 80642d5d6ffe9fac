---------------------------- MODULE Composition ----------------------------
(***************************************************************************)
(* The rules by which dossier_composer.py turns a bundle and the caller's  *)
(* judgements into a dossier: what it refuses, in which order items read,  *)
(* what may be consolidated, the lifecycle of a claim, the findings, the   *)
(* lens of a focus and the reconciliation.                                 *)
(*                                                                         *)
(* A bundle is [items, edges, omitted, count]: items a sequence of         *)
(* records, edges a set of [source, target, relation] between memories,    *)
(* omitted a sequence of [key, reason], count the manifest's.  A memory is *)
(* a number, so that memories sort; an item is one version of a memory.    *)
(* Judgements are [groups, findings]: groups a sequence of [uuids,         *)
(* meaning], findings a set of [category, ground, memories].               *)
(***************************************************************************)
EXTENDS Naturals, FiniteSets, Sequences, SequencesExt

CONSTANTS Affinity, \* of a focus, the kinds it surfaces; {} surfaces everything
          AsOf      \* the day lifecycles and staleness are judged on

Key(item) == <<item.uuid, item.version>>
Items(b) == ToSet(b.items)
Keys(b) == {Key(i) : i \in Items(b)}
ItemOf(b, key) == CHOOSE i \in Items(b) : Key(i) = key
(* A bundle is a record; times and numbers are naturals. *)
IsItem(i) == {i.uuid, i.version, i.validFrom, i.createdOn} \subseteq Nat
IsBundle(b) ==
  /\ b = [items |-> b.items, edges |-> b.edges, omitted |-> b.omitted, count |-> b.count]
  /\ b.items \in Seq(Items(b)) /\ \A i \in Items(b) : IsItem(i)
  /\ b.omitted \in Seq(ToSet(b.omitted))
OmittedKeys(omitted) == {o.key : o \in ToSet(omitted)}
OmissionReasons == {"cap reached", "depth reached", "unreadable body",
                    "collapsed into another claim", "hidden by scope", "outside-focus"}
(* validate_bundle *)
ValidBundle(b) ==
  /\ \A o \in ToSet(b.omitted) : o.reason \in OmissionReasons
  /\ Cardinality(Keys(b)) = Len(b.items)
  /\ Cardinality(OmittedKeys(b.omitted)) = Len(b.omitted)
  /\ Keys(b) \cap OmittedKeys(b.omitted) = {}
  /\ b.count = Len(b.items) + Len(b.omitted)

-----------------------------------------------------------------------------
(* _business_key: validity first (an item without one is 0), then the      *)
(* capture, the memory and the version.                                    *)
BusinessKey(item) == <<item.validFrom, item.createdOn, item.uuid, item.version>>
Earlier(i, j) ==
  \E n \in 1..4 : /\ BusinessKey(i)[n] < BusinessKey(j)[n]
                  /\ \A m \in 1..(n - 1) : BusinessKey(i)[m] = BusinessKey(j)[m]
Earliest(b, keys) ==
  CHOOSE k \in keys : \A l \in keys \ {k} : Earlier(ItemOf(b, k), ItemOf(b, l))

OrderingRelations == {"supersedes", "depends_on", "implements"}
(* The precedences of topological_order: an edge orders every version of   *)
(* its target before every version of its source, and the versions of one  *)
(* memory read oldest first.                                               *)
Precedes(b) ==
  {p \in Keys(b) \X Keys(b) :
     \/ \E e \in b.edges : /\ e.relation \in OrderingRelations
                           /\ e.target = p[1][1] /\ e.source = p[2][1]
     \/ /\ p[1][1] = p[2][1] /\ p[1][2] < p[2][2]
        /\ ~\E k \in Keys(b) : k[1] = p[1][1] /\ p[1][2] < k[2] /\ k[2] < p[2][2]}
(* Which keys lead to which, along some precedences: a key leads to what   *)
(* every set has that is closed under them and has its successors.         *)
Nodes(pairs) == {p[1] : p \in pairs} \cup {p[2] : p \in pairs}
IsClosed(S, pairs) == \A p \in pairs : p[1] \in S => p[2] \in S
Successors(k, pairs) == {p[2] : p \in {q \in pairs : q[1] = k}}
Closure(pairs) ==
  {q \in Nodes(pairs) \X Nodes(pairs) :
     \A S \in SUBSET Nodes(pairs) : IsClosed(S, pairs) /\ Successors(q[1], pairs) \subseteq S => q[2] \in S}
(* _strongly_connected: the component of a key, and the keys of components *)
(* that no other component leads into, where a cycle is broken.            *)
Component(key, reach) ==
  {key} \cup {p[2] : p \in {q \in reach : q[1] = key /\ <<q[2], key>> \in reach}}
(* A mutant: any item left over may break a cycle. *)
UnfedOrNot(keys, reach) == keys \cup {p[1] : p \in reach}
(* The keys that nothing outside their own component leads to. *)
Unfed(keys, reach) == {k \in keys : \A p \in reach : p[2] = k => p[1] \in Component(k, reach)}
Cycles(keys, reach) == {Component(k, reach) : k \in {l \in keys : <<l, l>> \in reach}}
(* A mutant: what was emitted is offered again. *)
ReadyAgain(keys, precedes, ordered) ==
  {k \in keys : \A p \in precedes : p[2] = k => p[1] \in ToSet(ordered)}
(* The keys left over whose predecessors were all emitted. *)
Ready(keys, precedes, ordered) ==
  {k \in keys \ ToSet(ordered) : \A p \in precedes : p[2] = k => p[1] \in ToSet(ordered)}

-----------------------------------------------------------------------------
SupersededBy(item, edges) == \E e \in edges : e.relation = "supersedes" /\ e.target = item.uuid
(* _expired; an item without an end is 0. *)
Expired(item) == item.validUntil > 0 /\ item.validUntil < AsOf
MarkLifecycle(item, edges) ==
  CASE item.status = "proposed" -> "proposed"
    [] item.status # "proposed" /\ (item.status = "retired" \/ SupersededBy(item, edges))
         -> "superseded"
    [] OTHER -> IF item.status = "stale" \/ Expired(item) THEN "no-longer-true"
                ELSE IF item.status = "" THEN "unknown" ELSE "current"
Superseded(item, edges) == item.status = "retired" \/ SupersededBy(item, edges)

(* consolidate: a group names memories, so every selected version of them; *)
(* it holds when all share applicability and lifecycle.                    *)
Members(b, group) == {k \in Keys(b) : k[1] \in ToSet(group.uuids)}
GateHolds(b, keys) ==
  /\ Cardinality({ItemOf(b, k).scope : k \in keys}) = 1
  /\ Cardinality({MarkLifecycle(ItemOf(b, k), b.edges) : k \in keys}) = 1
Accepted(b, groups) == {g \in DOMAIN groups : GateHolds(b, Members(b, groups[g]))}
GroupsAreRefused(b, groups) ==
  \E g \in DOMAIN groups :
     \/ Len(groups[g].uuids) < 2
     \/ Cardinality(ToSet(groups[g].uuids)) # Len(groups[g].uuids)
     \/ ~(ToSet(groups[g].uuids) \subseteq {k[1] : k \in Keys(b)})
     \/ \E h \in Accepted(b, groups) :
          h < g /\ Members(b, groups[h]) \cap Members(b, groups[g]) # {}
(* The claims to render, each with the origins it stands for. *)
Claims(b, groups) ==
  LET merged == {Members(b, groups[g]) : g \in Accepted(b, groups)}
  IN  merged \cup {{k} : k \in Keys(b) \ UNION merged}

-----------------------------------------------------------------------------
Finding(category, keys) == [category |-> category, memories |-> keys]
(* derive_findings: those the composer sees for itself. *)
ObservedFindings(b) ==
  LET of(i) ==
        {c \in {"no-links-in-slice", "unattributed", "stale", "superseded-still-referenced",
                "weak-summary"} :
           CASE c = "no-links-in-slice" -> ~\E e \in b.edges : i.uuid \in {e.source, e.target}
             [] c = "unattributed" -> i.sources = {}
             [] c = "stale" -> Expired(i) /\ ~Superseded(i, b.edges)
             [] c = "superseded-still-referenced" ->
                  /\ Superseded(i, b.edges)
                  /\ \E e \in b.edges : e.target = i.uuid /\ e.relation \in {"depends_on", "implements"}
             [] c = "weak-summary" -> i.weak}
  IN  UNION {{Finding(c, {Key(i)}) : c \in of(i)} : i \in Items(b)}
UncertainFindings(b, groups) ==
  {Finding("equivalence-uncertain", Members(b, groups[g])) :
     g \in DOMAIN groups \ Accepted(b, groups)}
(* ... and those of the caller, each behind a gate of its own. *)
ContradictionHolds(b, keys) == Cardinality({k[1] : k \in keys}) >= 2 /\ GateHolds(b, keys)
FindingIsRefused(b, f) ==
  \/ f.category \notin {"contradiction", "gap", "near-miss-tag"}
  \/ ~(f.memories \subseteq Keys(b))
  \/ f.category = "contradiction" /\ ~ContradictionHolds(b, f.memories)
  \/ f.category = "gap" /\ f.ground \notin {"task", "included-claim", "expectation"}
  \/ f.category = "gap" /\ f.ground = "included-claim" /\ f.memories = {}
  \/ f.category = "near-miss-tag" /\ f.memories = {}
(* near_miss_tags.build_report: of approved records that were examined,    *)
(* those found relevant that the tags of the query do not match.           *)
NearMisses(e) ==
  {Finding("near-miss-tag", {a.key}) :
     a \in {x \in e.analyses :
              /\ x.relevant
              /\ IF e.mode = "any" THEN e.tags \cap e.records[x.key] = {}
                 ELSE ~(e.tags \subseteq e.records[x.key])}}
EvidenceIsRefused(e) ==
  \/ e.tags = {}
  \/ ~(DOMAIN e.records \subseteq e.approved)
  \/ \E a \in e.analyses : a.key \notin DOMAIN e.records \/ ~a.quoted
AsCallerFinding(f) == [category |-> f.category, ground |-> "", memories |-> f.memories]

-----------------------------------------------------------------------------
(* _focus_relevance: a claim is surfaced when any of its origins is. *)
FocusRelevance(item, focus) == Affinity[focus] = {} \/ item.kind \in Affinity[focus]
Surfaced(b, claims, focus) ==
  {c \in claims : \E k \in c : FocusRelevance(ItemOf(b, k), focus)}
(* The bundle's own omissions, and those of the lens. *)
Omissions(b, claims, focus) ==
  {[key |-> o.key, reason |-> o.reason] : o \in ToSet(b.omitted)}
    \cup {[key |-> k, reason |-> "outside-focus"] : k \in UNION (claims \ Surfaced(b, claims, focus))}
(* reconcile *)
Reconciles(b, surfaced, omissions) ==
  LET present == {Earliest(b, c) : c \in surfaced}
      consolidated == UNION {c \ {Earliest(b, c)} : c \in surfaced}
  IN  Cardinality(present) + Cardinality(consolidated)
        + Cardinality({o.key : o \in omissions}) = b.count

(* render: the claims in the order of their earliest origin; a claim cites *)
(* its primary and every other origin, and shows the conditions of each.   *)
IsFirst(n, ordered, claim) == ordered[n] \in claim /\ \A m \in 1..(n - 1) : ordered[m] \notin claim
Position(ordered, claim) == CHOOSE n \in DOMAIN ordered : IsFirst(n, ordered, claim)
Rank(ordered, claims, claim) ==
  Cardinality({c \in claims : Position(ordered, c) <= Position(ordered, claim)})
OrderedClaims(ordered, claims) ==
  [n \in 1..Cardinality(claims) |-> CHOOSE c \in claims : Rank(ordered, claims, c) = n]
(* A mutant: a claim cites its primary origin only. *)
PrimaryOnly(b, claim) ==
  LET primary == ItemOf(b, Earliest(b, claim))
  IN  [primary |-> Key(primary), cited |-> {Key(primary)},
       lifecycle |-> MarkLifecycle(primary, b.edges),
       conditions |-> UNION {ItemOf(b, k).conditions : k \in claim}]
(* What the document says of one claim. *)
Paragraph(b, claim) ==
  LET primary == ItemOf(b, Earliest(b, claim))
  IN  [primary |-> Key(primary),
       cited |-> {Key(primary)} \cup (claim \ {Key(primary)}),
       lifecycle |-> MarkLifecycle(primary, b.edges),
       conditions |-> UNION {ItemOf(b, k).conditions : k \in claim}]
Rendered(b, ordered, surfaced) ==
  LET inOrder == OrderedClaims(ordered, surfaced)
  IN  [n \in DOMAIN inOrder |-> Paragraph(b, inOrder[n])]
=============================================================================
