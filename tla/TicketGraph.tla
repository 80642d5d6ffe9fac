---------------------------- MODULE TicketGraph ----------------------------
(***************************************************************************)
(* Groups, the tickets they own, and the ticket graph: ResolveGroup,       *)
(* UpdateGroup, AppendGroupDescription, SetTicketParent, AddTicketReferen- *)
(* ces, and the release of tickets by an operator, which the membership    *)
(* trigger turns into changes of the graph.                                *)
(*                                                                         *)
(* What writes group membership or the hierarchy runs in one transaction   *)
(* under the advisory lock (734921, 1), here "tickets"; ABOUT references   *)
(* are written under (734921, 2), "graph".  A transaction that has its     *)
(* lock reads and writes in one step, and commits in a later one: until    *)
(* then its effect is in draft[c], and nobody else sees it.                *)
(***************************************************************************)
EXTENDS Integers, FiniteSets

CONSTANTS
    Client,       \* concurrent requests, and the operator's session
    Group,        \* group uuids
    Ticket, Memory,
    Reason,       \* the metadata of a parent declaration
    Initiative,   \* names a request may give
    Registered,   \* the initiatives that exist
    Nobody,       \* "no value": null, absent, free
    HomeOf,       \* HomeOf[m]: the group of memory m
    Seed,         \* Seed[g]: the tickets of the groups that exist at first
    Request,      \* the requests a client may send
    MaxRequests   \* bound: how many requests one client sends

Dimension == {"product", "customer"}
Identifier == {"blank", "named"}

ASSUME ConstantsAreTyped ==
    /\ Nobody \notin Client \cup Group \cup Ticket \cup Dimension \cup Identifier
    /\ Nobody \notin Request
    /\ HomeOf \in [Memory -> DOMAIN Seed]
    /\ DOMAIN Seed \subseteq Group /\ \A g \in DOMAIN Seed : Seed[g] \subseteq Ticket
    /\ \A g, h \in DOMAIN Seed : Seed[g] \cap Seed[h] # {} => g = h
    /\ MaxRequests \in Nat

(* The fields of every request; the validators' rules for two of them.     *)
ASSUME RequestsAreValid ==
    \A r \in Request :
        /\ r.op \in {"resolve", "update", "describe", "parent", "refer", "release"}
        /\ r.group \in Group \cup {Nobody} /\ r.tickets \subseteq Ticket
        /\ r.dimension \in Dimension \cup {Nobody}
        /\ r.identifier \in Identifier \cup {Nobody}
        /\ r.initiative \in Initiative \cup {Nobody} /\ r.named \in BOOLEAN
        /\ r.child \in Ticket \cup {Nobody} /\ r.parent \in Ticket \cup {Nobody}
        /\ r.expected \in Ticket \cup {Nobody} /\ r.reason \in Reason
        /\ r.memories \subseteq Memory
        /\ r.op \in {"update", "describe", "release"} => r.group # Nobody
        /\ r.op = "parent" => r.child # Nobody /\ r.parent # r.child
        /\ r.op = "resolve" /\ r.dimension = "customer" => r.identifier = "named"

VARIABLES
    groups,        \* the groups that exist
    owned,         \* owned[g]: the ticket array of group g
    dimension, identifier,   \* the scope columns
    descriptions,  \* the group_description table
    vertices,      \* the Ticket vertices of the graph
    births,        \* bound on vertex ids: how often vertices were created
    parents,       \* the TICKET_PARENT edges
    abouts,        \* the ABOUT edges
    pc, request, draft, answer, sent,
    holder         \* holder[l]: who holds advisory lock l

tables == <<groups, owned, dimension, identifier, descriptions>>
graph == <<vertices, births, parents, abouts>>
vars == <<tables, graph, pc, request, draft, answer, sent, holder>>

Lock == {"tickets", "graph"}
Vertex == [ticket : Ticket, id : Nat]
ParentEdge == [parent : Ticket, child : Ticket, reason : Reason]
AboutEdge == [memory : Memory, to : Vertex]
Description == [group : Group, version : Nat \ {0}, by : Client]

NoDraft == [group |-> Nobody, writes |-> {}, tickets |-> {}, dimension |-> Nobody,
            identifier |-> Nobody, descriptions |-> {}, born |-> {}, gone |-> {},
            cut |-> {}, joined |-> {}, abouts |-> {}]

Init ==
    /\ groups = DOMAIN Seed
    /\ owned = [g \in Group |-> IF g \in DOMAIN Seed THEN Seed[g] ELSE {}]
    /\ dimension = [g \in Group |-> "product"]
    /\ identifier = [g \in Group |-> "blank"]
    /\ descriptions = {}
    /\ vertices = {[ticket |-> t, id |-> 0] : t \in UNION {Seed[g] : g \in DOMAIN Seed}}
    /\ births = 0 /\ parents = {} /\ abouts = {}
    /\ pc = [c \in Client |-> "idle"]
    /\ request \in [Client -> {Nobody}]
    /\ draft = [c \in Client |-> NoDraft]
    /\ answer = [c \in Client |-> "none"]
    /\ sent = [c \in Client |-> 0]
    /\ holder = [l \in Lock |-> Nobody]

-----------------------------------------------------------------------------
(***************************************************************************)
(* Reads.                                                                  *)
(***************************************************************************)

OwnersOf(t) == {g \in groups : t \in owned[g]}
VerticesOf(t) == {v \in vertices : v.ticket = t}
ParentEdgesOf(t) == {e \in parents : e.child = t}
CommittedAbouts(t) == {a \in abouts : a.to \in VerticesOf(t)}

(* A set of tickets that has the children of its members.                  *)
IsClosed(S, edges) == \A e \in edges : e.parent \in S => e.child \in S

(* t and every ticket below it.                                            *)
Reachable(t, edges) ==
    {x \in Ticket : \A S \in SUBSET Ticket : t \in S /\ IsClosed(S, edges) => x \in S}

(* Fault: the cycle check looks at the children only.                      *)
IsChildOf(child, parent) == \E e \in parents : e.parent = child /\ e.child = parent

WouldCycle(child, parent) == parent \in Reachable(child, parents)

-----------------------------------------------------------------------------
(***************************************************************************)
(* A request as a process.                                                 *)
(***************************************************************************)

At(c, place) == pc[c] = place
Asks(c, op) == At(c, "received") /\ request[c].op = op

(* Fault: the lock is taken without waiting for its holder.                *)
TakeLockAtOnce(c, l) == holder' = [holder EXCEPT ![l] = c]

(* pg_advisory_xact_lock: wait, then hold it to the end of the transaction.*)
TakeLock(c, l) == holder[l] = Nobody /\ holder' = [holder EXCEPT ![l] = c]

Finish(c, a) ==
    /\ pc' = [pc EXCEPT ![c] = "idle"]
    /\ answer' = [answer EXCEPT ![c] = a]
    /\ request' = [request EXCEPT ![c] = Nobody]
    /\ draft' = [draft EXCEPT ![c] = NoDraft]
    /\ UNCHANGED sent

(* Answered with a, nothing written: the transaction, if one was open,     *)
(* ends with the step that took its lock.                                  *)
Refuse(c, a) == Finish(c, a) /\ UNCHANGED <<tables, graph, holder>>

Submit(c) ==
    /\ At(c, "idle") /\ sent[c] < MaxRequests
    /\ \E r \in Request : request' = [request EXCEPT ![c] = r]
    /\ pc' = [pc EXCEPT ![c] = "received"]
    /\ answer' = [answer EXCEPT ![c] = "none"]
    /\ sent' = [sent EXCEPT ![c] = @ + 1]
    /\ UNCHANGED <<tables, graph, draft, holder>>

(* The statements of a transaction under lock l, not committed yet.        *)
Write(c, l, d) ==
    /\ TakeLock(c, l)
    /\ draft' = [draft EXCEPT ![c] = d]
    /\ pc' = [pc EXCEPT ![c] = "written"]
    /\ UNCHANGED <<tables, graph, request, answer, sent>>

(* A transaction that finds nothing to write, or an error, under lock l.   *)
TurnBack(c, l, a) == holder[l] = Nobody /\ Refuse(c, a)

-----------------------------------------------------------------------------
(***************************************************************************)
(* The membership trigger, for group g and its new ticket array.           *)
(***************************************************************************)

OwnershipConflicts(g, tickets) == \E h \in groups \ {g} : owned[h] \cap tickets # {}

(* MERGE: a vertex for every ticket that has none.                         *)
BornVertices(tickets) ==
    {[ticket |-> t, id |-> births + 1] : t \in {u \in tickets : VerticesOf(u) = {}}}

Released(g, tickets) ==
    {t \in owned[g] \ tickets : OwnersOf(t) \ {g} = {}}

ReleaseIsRefused(g, tickets) == \E t \in Released(g, tickets) : CommittedAbouts(t) # {}

(* Fault: a released ticket keeps its vertex.                              *)
KeptVertices(g, tickets) == {}

GoneVertices(g, tickets) == {v \in vertices : v.ticket \in Released(g, tickets)}

-----------------------------------------------------------------------------
(***************************************************************************)
(* Resolve or create.                                                      *)
(***************************************************************************)

Unused(t) ==
    /\ \A g \in Group : t \notin owned[g]
    /\ \A r \in Request : t \notin r.tickets \cup {r.child, r.parent, r.expected}
    /\ \A u \in Client : t \notin draft[u].tickets

FreshGroup(g) == g \notin groups /\ \A u \in Client : draft[u].group # g

(* The tickets of a new group: those asked for, or a local one of its own. *)
TicketsToCreate(r) ==
    IF r.tickets # {} THEN {r.tickets} ELSE {{t} : t \in {u \in Ticket : Unused(u)}}

ResolveGroup(c) ==
    LET r == request[c]
        found == UNION {OwnersOf(t) : t \in r.tickets}
    IN /\ Asks(c, "resolve")
       /\ \/ Cardinality(found) > 1 /\ TurnBack(c, "tickets", "conflict")
          \/ Cardinality(found) = 1 /\ TurnBack(c, "tickets", "existing")
          \/ found = {} /\ r.initiative \notin Registered \cup {Nobody}
               /\ TurnBack(c, "tickets", "notFound")
          \/ /\ found = {} /\ r.initiative \in Registered \cup {Nobody}
             /\ \E g \in {h \in Group : FreshGroup(h)}, tickets \in TicketsToCreate(r) :
                  IF OwnershipConflicts(g, tickets) THEN TurnBack(c, "tickets", "conflict")
                  ELSE Write(c, "tickets",
                    [NoDraft EXCEPT
                       !.group = g, !.writes = {"tickets", "dimension", "identifier"},
                       !.tickets = tickets, !.born = BornVertices(tickets),
                       !.dimension = IF r.dimension = Nobody THEN "product" ELSE r.dimension,
                       !.identifier = IF r.identifier = Nobody THEN "blank" ELSE r.identifier,
                       !.descriptions = IF r.named THEN {[group |-> g, version |-> 1, by |-> c]} ELSE {}])

(***************************************************************************)
(* Update: only the columns that change are written, the ticket array as a *)
(* whole.                                                                  *)
(***************************************************************************)

NewDimension(r) == IF r.dimension = Nobody THEN dimension[r.group] ELSE r.dimension
NewIdentifier(r) == IF r.identifier = Nobody THEN identifier[r.group] ELSE r.identifier

UpdateError(r) ==
    IF r.group \notin groups THEN "notFound"
    ELSE IF NewDimension(r) = "customer" /\ NewIdentifier(r) = "blank" THEN "invalid"
    ELSE IF r.initiative \notin Registered \cup {Nobody} THEN "notFound"
    ELSE IF OwnershipConflicts(r.group, r.tickets) THEN "invalid" ELSE "none"

UpdateGroup(c) ==
    LET r == request[c]
        tickets == owned[r.group] \cup r.tickets
    IN /\ Asks(c, "update")
       /\ IF UpdateError(r) # "none" THEN TurnBack(c, "tickets", UpdateError(r))
          ELSE Write(c, "tickets",
            [NoDraft EXCEPT
               !.group = r.group, !.tickets = tickets, !.born = BornVertices(tickets),
               !.dimension = NewDimension(r), !.identifier = NewIdentifier(r),
               !.writes = (IF tickets # owned[r.group] THEN {"tickets"} ELSE {})
                     \cup (IF NewDimension(r) # dimension[r.group] THEN {"dimension"} ELSE {})
                     \cup (IF NewIdentifier(r) # identifier[r.group] THEN {"identifier"} ELSE {})])

(* An operator takes tickets away from a group: the trigger refuses when   *)
(* one would lose its last owner and memories refer to it.                 *)
Release(c) ==
    LET r == request[c]
        tickets == owned[r.group] \ r.tickets
    IN /\ Asks(c, "release")
       /\ IF r.group \notin groups \/ tickets = owned[r.group] THEN TurnBack(c, "tickets", "ok")
          ELSE IF ReleaseIsRefused(r.group, tickets) THEN TurnBack(c, "tickets", "conflict")
          ELSE Write(c, "tickets",
            [NoDraft EXCEPT !.group = r.group, !.writes = {"tickets"}, !.tickets = tickets,
                            !.gone = GoneVertices(r.group, tickets)])

(***************************************************************************)
(* Set, move or remove a parent, as a compare-and-set.                     *)
(***************************************************************************)

OwnerError(t) ==
    IF t = Nobody THEN "none"
    ELSE IF OwnersOf(t) = {} THEN "notFound"
    ELSE IF Cardinality(OwnersOf(t)) # 1 \/ Cardinality(VerticesOf(t)) # 1 THEN "conflict"
    ELSE "none"

ChangeError(r) ==
    IF OwnerError(r.child) # "none" THEN OwnerError(r.child)
    ELSE IF OwnerError(r.parent) # "none" THEN OwnerError(r.parent)
    ELSE OwnerError(r.expected)

ParentOf(t) ==
    IF ParentEdgesOf(t) = {} THEN Nobody ELSE (CHOOSE e \in ParentEdgesOf(t) : TRUE).parent

NewParentEdges(r) ==
    IF r.parent = Nobody THEN {}
    ELSE {[parent |-> r.parent, child |-> r.child, reason |-> r.reason]}

ChangeParent(c) ==
    LET r == request[c]
        joined == NewParentEdges(r)
    IN /\ Asks(c, "parent")
       /\ IF ChangeError(r) # "none" THEN TurnBack(c, "tickets", ChangeError(r))
          ELSE IF Cardinality(ParentEdgesOf(r.child)) > 1 \/ ParentOf(r.child) # r.expected
          THEN TurnBack(c, "tickets", "conflict")
          ELSE IF ParentEdgesOf(r.child) = joined THEN TurnBack(c, "tickets", "unchanged")
          ELSE IF r.parent # Nobody /\ WouldCycle(r.child, r.parent)
          THEN TurnBack(c, "tickets", "conflict")
          ELSE Write(c, "tickets",
                 [NoDraft EXCEPT !.cut = ParentEdgesOf(r.child), !.joined = joined])

(***************************************************************************)
(* Descriptions: numbered by a read, inserted by an autonomous statement.  *)
(***************************************************************************)

(* Fault: a group without descriptions is taken to have version -1.        *)
NewestVersionOrMinusOne(g) ==
    LET numbers == {-1} \cup {d.version : d \in {e \in descriptions : e.group = g}}
    IN CHOOSE n \in numbers : \A k \in numbers : k <= n

NewestVersion(g) ==
    LET numbers == {0} \cup {d.version : d \in {e \in descriptions : e.group = g}}
    IN CHOOSE n \in numbers : \A k \in numbers : k <= n

(* Fault: no unique index on (group_id, version).                          *)
NeverRefused(d) == FALSE

DescriptionIsRefused(d) ==
    \E e \in descriptions : e.group = d.group /\ e.version = d.version

AppendDescription(c) ==
    LET g == request[c].group IN
    /\ Asks(c, "describe")
    /\ IF g \notin groups THEN Refuse(c, "notFound")
       ELSE /\ draft' = [draft EXCEPT ![c].descriptions =
                            {[group |-> g, version |-> NewestVersion(g) + 1, by |-> c]}]
            /\ pc' = [pc EXCEPT ![c] = "numbered"]
            /\ UNCHANGED <<tables, graph, request, answer, sent, holder>>

InsertDescription(c) ==
    /\ At(c, "numbered")
    /\ IF \E d \in draft[c].descriptions : DescriptionIsRefused(d) THEN Refuse(c, "conflict")
       ELSE /\ descriptions' = descriptions \cup draft[c].descriptions
            /\ Finish(c, "ok")
            /\ UNCHANGED <<groups, owned, dimension, identifier, graph, holder>>

(***************************************************************************)
(* References from memories to tickets that another group owns.            *)
(***************************************************************************)

(* Fault: the group of only one of the memories is compared.               *)
ReferenceErrorOfOne(r) ==
    LET m == CHOOSE m \in r.memories : TRUE IN
    IF \E t \in r.tickets : OwnersOf(t) = {} THEN "notFound"
    ELSE IF \E t \in r.tickets : OwnersOf(t) = {HomeOf[m]} THEN "conflict" ELSE "none"

ReferenceError(r) ==
    IF \E t \in r.tickets : OwnersOf(t) = {} THEN "notFound"
    ELSE IF \E t \in r.tickets : Cardinality(OwnersOf(t)) > 1 THEN "conflict"
    ELSE IF \E t \in r.tickets, m \in r.memories : HomeOf[m] \in OwnersOf(t) THEN "conflict"
    ELSE "none"

(* Owners are read before the transaction opens.                           *)
PlanReferences(c) ==
    LET error == ReferenceError(request[c]) IN
    /\ Asks(c, "refer")
    /\ IF error # "none" THEN Refuse(c, error)
       ELSE /\ pc' = [pc EXCEPT ![c] = "planned"]
            /\ UNCHANGED <<tables, graph, request, draft, answer, sent, holder>>

MissingPairs(r) ==
    {p \in r.memories \X r.tickets :
        ~ \E a \in CommittedAbouts(p[2]) : a.memory = p[1]}

(* MATCH on the ticket, MERGE of the memory, CREATE of the edge; a ticket  *)
(* without a vertex fails the whole request.                               *)
WriteReferences(c) ==
    LET missing == MissingPairs(request[c]) IN
    /\ At(c, "planned")
    /\ IF \E p \in missing : VerticesOf(p[2]) = {} THEN TurnBack(c, "graph", "conflict")
       ELSE Write(c, "graph",
              [NoDraft EXCEPT !.abouts =
                 UNION {{[memory |-> p[1], to |-> v] : v \in VerticesOf(p[2])} : p \in missing}])

-----------------------------------------------------------------------------
(* COMMIT: what the transaction wrote becomes visible, its lock is free.   *)
Commit(c) ==
    LET d == draft[c]
        gone == {v.ticket : v \in d.gone}
    IN /\ At(c, "written")
       /\ groups' = groups \cup ({d.group} \ {Nobody})
       /\ owned' = IF "tickets" \in d.writes THEN [owned EXCEPT ![d.group] = d.tickets] ELSE owned
       /\ dimension' = IF "dimension" \in d.writes
                       THEN [dimension EXCEPT ![d.group] = d.dimension] ELSE dimension
       /\ identifier' = IF "identifier" \in d.writes
                        THEN [identifier EXCEPT ![d.group] = d.identifier] ELSE identifier
       /\ descriptions' = descriptions \cup d.descriptions
       /\ vertices' = (vertices \ d.gone) \cup d.born
       /\ births' = IF d.born = {} THEN births ELSE births + 1
       /\ parents' = {e \in parents \ d.cut : {e.parent, e.child} \cap gone = {}} \cup d.joined
       /\ abouts' = abouts \cup d.abouts
       /\ holder' = [l \in Lock |-> IF holder[l] = c THEN Nobody ELSE holder[l]]
       /\ Finish(c, "ok")

(* The client goes away or the service restarts: rolled back.              *)
Interrupt(c) ==
    /\ ~At(c, "idle")
    /\ holder' = [l \in Lock |-> IF holder[l] = c THEN Nobody ELSE holder[l]]
    /\ Finish(c, "lost")
    /\ UNCHANGED <<tables, graph>>

Serve(c) ==
    \/ ResolveGroup(c) \/ UpdateGroup(c) \/ Release(c) \/ ChangeParent(c)
    \/ AppendDescription(c) \/ InsertDescription(c)
    \/ PlanReferences(c) \/ WriteReferences(c) \/ Commit(c)

AllSent == (\A c \in Client : At(c, "idle") /\ sent[c] = MaxRequests) /\ UNCHANGED vars

Next ==
    \/ \E c \in Client : Submit(c) \/ Serve(c) \/ Interrupt(c)
    \/ AllSent

Spec == Init /\ [][Next]_vars

-----------------------------------------------------------------------------
(***************************************************************************)
(* Properties.                                                             *)
(***************************************************************************)

Draft == [group : Group \cup {Nobody}, writes : SUBSET {"tickets", "dimension", "identifier"},
          tickets : SUBSET Ticket, dimension : Dimension \cup {Nobody},
          identifier : Identifier \cup {Nobody}, descriptions : SUBSET Description,
          born : SUBSET Vertex, gone : SUBSET Vertex, cut : SUBSET ParentEdge,
          joined : SUBSET ParentEdge, abouts : SUBSET AboutEdge]

(* Every variable holds a value of its kind.                               *)
TypeOK ==
    /\ groups \subseteq Group
    /\ owned \in [Group -> SUBSET Ticket]
    /\ dimension \in [Group -> Dimension] /\ identifier \in [Group -> Identifier]
    /\ descriptions \subseteq Description
    /\ vertices \subseteq Vertex /\ births \in Nat
    /\ parents \subseteq ParentEdge /\ abouts \subseteq AboutEdge
    /\ pc \in [Client -> {"idle", "received", "planned", "numbered", "written"}]
    /\ request \in [Client -> Request \cup {Nobody}]
    /\ draft \in [Client -> Draft]
    /\ answer \in [Client -> {"none", "ok", "existing", "unchanged", "notFound", "invalid",
                              "conflict", "lost"}]
    /\ sent \in [Client -> 0 .. MaxRequests]
    /\ holder \in [Lock -> Client \cup {Nobody}]

(* A ticket has one owning group, whoever resolves, creates or merges it   *)
(* at the same time.                                                       *)
TicketsHaveOneOwner == \A g, h \in groups : owned[g] \cap owned[h] # {} => g = h

(* The graph has one vertex for each owned ticket and none for any other:  *)
(* "a Ticket without exactly one live JSONB-owning group is a defect".     *)
VerticesMirrorOwnership ==
    /\ {v.ticket : v \in vertices} = UNION {owned[g] : g \in groups}
    /\ \A u, v \in vertices : u.ticket = v.ticket => u = v

(* "A child has at most one parent; self-parenting and cycles are          *)
(* rejected, including under concurrent writes", and a release leaves no   *)
(* edge behind.                                                            *)
HierarchyIsAForest ==
    /\ \A d, e \in parents : d.child = e.child => d = e
    /\ \A e \in parents : e.parent \notin Reachable(e.child, parents)
    /\ \A e \in parents : {e.parent, e.child} \subseteq {v.ticket : v \in vertices}

(* A parent never changes under somebody who expected another one: it      *)
(* changes by a request that named the parent it replaces, or because one  *)
(* of the two tickets is released.                                         *)
ParentChangesAreExpected ==
    [][\A t \in Ticket : ParentOf(t)' # ParentOf(t) =>
          \/ \E c \in Client : /\ request[c] # Nobody /\ request[c].op = "parent"
                               /\ request[c].child = t
                               /\ request[c].expected = ParentOf(t)
                               /\ request[c].parent = ParentOf(t)'
          \/ \E v \in vertices \ vertices' : v.ticket \in {t, ParentOf(t)}]_vars

(* A ticket that a group has, it keeps until an operator releases it: the  *)
(* array is written as a whole, and no concurrent merge is lost.           *)
TicketsOnlyAccumulate ==
    [][\A g \in Group : \A t \in owned[g] \ owned'[g] :
          \E c \in Client : /\ request[c] # Nobody /\ request[c].op = "release"
                            /\ request[c].group = g /\ t \in request[c].tickets]_vars

(* A customer or program scope always names whom it is for, although the   *)
(* two columns are written by requests that each change only one.          *)
ScopesAreIdentified ==
    \A g \in groups : dimension[g] = "customer" => identifier[g] = "named"

(* The descriptions of a group are numbered 1 to n, although the number is *)
(* read without any lock.                                                  *)
DescriptionsAreAChain ==
    \A g \in Group :
        LET own == {d \in descriptions : d.group = g} IN
        /\ \E n \in {0} \cup {d.version : d \in own} : {d.version : d \in own} = 1 .. n
        /\ \A d, e \in own : d.version = e.version => d = e

(* As long as no ticket is released, no memory refers to a ticket of its   *)
(* own group, however ownership changed between check and write.           *)
ReferencesStayForeign == \A a \in abouts : HomeOf[a.memory] \notin OwnersOf(a.to.ticket)

(* "A Ticket that still has incoming ABOUT edges is never released by its  *)
(* last owner, so a memory->ticket reference is never lost silently."      *)
ReferencesAreNeverLost == \A a \in abouts : a.to \in vertices

=============================================================================
