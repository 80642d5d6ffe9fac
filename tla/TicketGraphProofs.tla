------------------------- MODULE TicketGraphProofs -------------------------
(***************************************************************************)
(* Theorems about TicketGraph, for any set of clients and any requests:    *)
(* type correctness, the chain of descriptions, one owner and one vertex   *)
(* for each owned ticket, and a hierarchy that stays a forest.             *)
(***************************************************************************)
EXTENDS TicketGraph, FiniteSetTheorems, TLAPS

-----------------------------------------------------------------------------
(***************************************************************************)
(* The discipline of a transaction.                                        *)
(***************************************************************************)

Others(c) == Client \ {c}
LockOf(op) == IF op = "refer" THEN "graph" ELSE "tickets"

(* A draft that touches neither groups nor the hierarchy.                  *)
TouchesNoTicket(d) ==
    d.group = Nobody /\ d.writes = {} /\ d.born = {} /\ d.gone = {} /\ d.cut = {} /\ d.joined = {}

(* Who has written holds the lock of its operation, and a writer of        *)
(* references leaves groups and hierarchy alone.                           *)
IsDisciplined ==
    \A c \in Client :
        /\ pc[c] # "idle" => request[c] \in Request
        /\ pc[c] = "planned" => request[c].op = "refer"
        /\ pc[c] = "written" =>
             /\ holder[LockOf(request[c].op)] = c
             /\ request[c].op = "refer" => TouchesNoTicket(draft[c])

(* A step of c that leaves nothing to commit, and changes no group and no  *)
(* edge.                                                                   *)
Passes(c) ==
    /\ UNCHANGED <<groups, owned, dimension, identifier, graph>>
    /\ pc'[c] # "written" /\ (pc'[c] # "idle" => request'[c] \in Request)
    /\ pc'[c] = "planned" => request'[c].op = "refer"
    /\ \A u \in Others(c) : pc'[u] = pc[u] /\ request'[u] = request[u] /\ draft'[u] = draft[u]
    /\ \A l \in Lock, u \in Others(c) : holder[l] = u => holder'[l] = u

(* A step with which c has written, under the lock it takes.               *)
Writes(c) ==
    /\ UNCHANGED <<tables, graph, request>>
    /\ pc[c] # "idle" /\ pc'[c] = "written"
    /\ \A u \in Others(c) : pc'[u] = pc[u] /\ draft'[u] = draft[u]
    /\ LET l == LockOf(request[c].op) IN
         holder[l] = Nobody /\ holder' = [holder EXCEPT ![l] = c]
    /\ request[c].op = "refer" => TouchesNoTicket(draft'[c]) /\ draft'[c].descriptions = {}
    /\ request[c].op # "refer" =>
          ResolveGroup(c) \/ UpdateGroup(c) \/ Release(c) \/ ChangeParent(c)

(***************************************************************************)
(* The numbers of descriptions.                                            *)
(***************************************************************************)

Versions(g) == {d.version : d \in {e \in descriptions : e.group = g}}

(* The versions of a group are a chain, only groups that exist have some,  *)
(* and what is about to be inserted continues or starts a chain.           *)
Chained ==
    /\ \A g \in Group : \E n \in Nat : Versions(g) = 1 .. n
    /\ \A d, e \in descriptions : d.group = e.group /\ d.version = e.version => d = e
    /\ \A d \in descriptions : d.group \in groups
    /\ \A c \in Client : pc[c] = "numbered" =>
         \E g \in groups, v \in Nat \ {0} :
            /\ draft[c].descriptions = {[group |-> g, version |-> v, by |-> c]}
            /\ 1 .. (v - 1) \subseteq Versions(g)
    /\ \A c \in Client : pc[c] = "written" /\ draft[c].descriptions # {} =>
         \E g \in Group \ groups : /\ draft[c].group = g
            /\ draft[c].descriptions = {[group |-> g, version |-> 1, by |-> c]}

(* The columns a draft writes are those of a group, with values of theirs. *)
Columns ==
    \A c \in Client : pc[c] = "written" =>
        /\ draft[c].writes # {} => draft[c].group \in Group
        /\ "dimension" \in draft[c].writes => draft[c].dimension \in Dimension
        /\ "identifier" \in draft[c].writes => draft[c].identifier \in Identifier

Numbered == TypeOK /\ IsDisciplined /\ Columns /\ Chained

(***************************************************************************)
(* Type correctness.                                                       *)
(***************************************************************************)

LEMMA NoDraftType == NoDraft \in Draft
BY DEF NoDraft, Draft, Dimension, Identifier

(* A request that has been received has typed fields.                      *)
LEMMA RequestTypes ==
    ASSUME NEW r \in Request
    PROVE  /\ r.op \in {"resolve", "update", "describe", "parent", "refer", "release"}
           /\ r.group \in Group \cup {Nobody} /\ r.tickets \subseteq Ticket
           /\ r.op \in {"update", "describe", "release"} => r.group \in Group
           /\ r.dimension \in Dimension \cup {Nobody}
           /\ r.identifier \in Identifier \cup {Nobody}
           /\ r.child \in Ticket \cup {Nobody} /\ r.parent \in Ticket \cup {Nobody}
           /\ r.op = "parent" => r.child \in Ticket /\ r.parent # r.child
           /\ r.reason \in Reason /\ r.memories \subseteq Memory
BY RequestsAreValid

LEMMA FinishTypes ==
    ASSUME TypeOK, NEW c \in Client, Finish(c, "ok") \/ (\E a \in {"ok", "existing",
                "unchanged", "notFound", "invalid", "conflict", "lost"} : Finish(c, a))
    PROVE  /\ pc' \in [Client -> {"idle", "received", "planned", "numbered", "written"}]
           /\ request' \in [Client -> Request \cup {Nobody}]
           /\ draft' \in [Client -> Draft]
           /\ answer' \in [Client -> {"none", "ok", "existing", "unchanged", "notFound",
                                      "invalid", "conflict", "lost"}]
           /\ sent' \in [Client -> 0 .. MaxRequests]
BY NoDraftType DEF TypeOK, Finish

LEMMA RefuseTypes ==
    ASSUME TypeOK, NEW c \in Client, NEW a \in {"ok", "existing",
                "unchanged", "notFound", "invalid", "conflict", "lost"}, Refuse(c, a)
    PROVE  TypeOK'
<1>1. Finish(c, a)
  BY DEF Refuse
<1> QED BY <1>1, FinishTypes DEF Refuse, TypeOK, tables, graph

LEMMA WriteTypes ==
    ASSUME TypeOK, NEW c \in Client, NEW l \in Lock, NEW d \in Draft, Write(c, l, d)
    PROVE  TypeOK'
BY DEF TypeOK, Write, TakeLock, tables, graph

LEMMA VertexTypes ==
    ASSUME TypeOK, NEW tickets \in SUBSET Ticket, NEW g \in Group
    PROVE  /\ BornVertices(tickets) \subseteq Vertex
           /\ GoneVertices(g, tickets) \subseteq Vertex
<1>1. births + 1 \in Nat
  BY DEF TypeOK
<1>2. BornVertices(tickets) \subseteq Vertex
  BY <1>1 DEF BornVertices, Vertex
<1>3. GoneVertices(g, tickets) \subseteq Vertex
  BY DEF GoneVertices, TypeOK
<1> QED BY <1>2, <1>3

LEMMA ResolveTypes ==
    ASSUME TypeOK, IsDisciplined, NEW c \in Client, ResolveGroup(c)
    PROVE  TypeOK'
<1> DEFINE r == request[c]
<1>1. r \in Request
  BY DEF ResolveGroup, Asks, At, IsDisciplined
<1>2. \A g \in Group, tickets \in TicketsToCreate(r) : tickets \subseteq Ticket
  BY <1>1, RequestTypes DEF TicketsToCreate
<1>3. ASSUME NEW g \in Group, NEW tickets \in TicketsToCreate(r),
             Write(c, "tickets",
                [NoDraft EXCEPT
                   !.group = g, !.writes = {"tickets", "dimension", "identifier"},
                   !.tickets = tickets, !.born = BornVertices(tickets),
                   !.dimension = IF r.dimension = Nobody THEN "product" ELSE r.dimension,
                   !.identifier = IF r.identifier = Nobody THEN "blank" ELSE r.identifier,
                   !.descriptions = IF r.named THEN {[group |-> g, version |-> 1, by |-> c]} ELSE {}])
      PROVE  TypeOK'
  <2>1. tickets \in SUBSET Ticket /\ BornVertices(tickets) \in SUBSET Vertex
    BY <1>2, VertexTypes
  <2>2. (IF r.named THEN {[group |-> g, version |-> 1, by |-> c]} ELSE {}) \in SUBSET Description
    BY DEF Description
  <2>3. /\ (IF r.dimension = Nobody THEN "product" ELSE r.dimension) \in Dimension
        /\ (IF r.identifier = Nobody THEN "blank" ELSE r.identifier) \in Identifier
    BY <1>1, RequestTypes DEF Dimension, Identifier
  <2> DEFINE D == [NoDraft EXCEPT
                   !.group = g, !.writes = {"tickets", "dimension", "identifier"},
                   !.tickets = tickets, !.born = BornVertices(tickets),
                   !.dimension = IF r.dimension = Nobody THEN "product" ELSE r.dimension,
                   !.identifier = IF r.identifier = Nobody THEN "blank" ELSE r.identifier,
                   !.descriptions = IF r.named THEN {[group |-> g, version |-> 1, by |-> c]} ELSE {}]
  <2>4. D \in Draft
    BY <2>1, <2>2, <2>3, NoDraftType DEF Draft
  <2> HIDE DEF D
  <2>5. Write(c, "tickets", D)
    BY <1>3 DEF D
  <2> QED BY <2>4, <2>5, WriteTypes DEF Lock
<1> QED BY <1>3, RefuseTypes DEF ResolveGroup, TurnBack

LEMMA UpdateTypes ==
    ASSUME TypeOK, IsDisciplined, NEW c \in Client, UpdateGroup(c)
    PROVE  TypeOK'
<1> DEFINE r == request[c]
           tickets == owned[r.group] \cup r.tickets
           columns == (IF tickets # owned[r.group] THEN {"tickets"} ELSE {})
                     \cup (IF NewDimension(r) # dimension[r.group] THEN {"dimension"} ELSE {})
                     \cup (IF NewIdentifier(r) # identifier[r.group] THEN {"identifier"} ELSE {})
           D == [NoDraft EXCEPT
               !.group = r.group, !.tickets = tickets, !.born = BornVertices(tickets),
               !.dimension = NewDimension(r), !.identifier = NewIdentifier(r),
               !.writes = columns]
<1>1. r \in Request /\ r.group \in Group
  BY RequestTypes DEF UpdateGroup, Asks, At, IsDisciplined
<1>2. CASE UpdateError(r) # "none"
  <2>1. UpdateError(r) \in {"notFound", "invalid"}
    BY <1>2 DEF UpdateError
  <2> QED BY <1>2, <2>1, RefuseTypes DEF UpdateGroup, TurnBack
<1>3. CASE UpdateError(r) = "none"
  <2>1. tickets \in SUBSET Ticket /\ BornVertices(tickets) \in SUBSET Vertex
    BY <1>1, RequestTypes, VertexTypes DEF TypeOK
  <2>2. NewDimension(r) \in Dimension /\ NewIdentifier(r) \in Identifier
    BY <1>1, RequestTypes DEF NewDimension, NewIdentifier, TypeOK
  <2>3. columns \in SUBSET {"tickets", "dimension", "identifier"}
    OBVIOUS
  <2> HIDE DEF tickets, columns
  <2>4. D \in Draft
    BY <1>1, <2>1, <2>2, <2>3, NoDraftType DEF Draft
  <2>5. Write(c, "tickets", D)
    BY <1>3 DEF UpdateGroup, tickets, columns
  <2> HIDE DEF D
  <2> QED BY <2>4, <2>5, WriteTypes DEF Lock
<1> QED BY <1>2, <1>3

LEMMA ReleaseTypes ==
    ASSUME TypeOK, IsDisciplined, NEW c \in Client, Release(c)
    PROVE  TypeOK'
<1> DEFINE r == request[c]
           tickets == owned[r.group] \ r.tickets
           D == [NoDraft EXCEPT !.group = r.group, !.writes = {"tickets"}, !.tickets = tickets,
                                !.gone = GoneVertices(r.group, tickets)]
<1>1. r \in Request /\ r.group \in Group
  BY RequestTypes DEF Release, Asks, At, IsDisciplined
<1>2. tickets \in SUBSET Ticket /\ GoneVertices(r.group, tickets) \in SUBSET Vertex
  BY <1>1, VertexTypes DEF TypeOK
<1>3. D \in Draft
  <2> HIDE DEF tickets
  <2> QED BY <1>1, <1>2, NoDraftType DEF Draft
<1>4. \/ TurnBack(c, "tickets", "ok") \/ TurnBack(c, "tickets", "conflict")
      \/ Write(c, "tickets", D)
  BY DEF Release
<1> HIDE DEF D
<1> QED BY <1>3, <1>4, RefuseTypes, WriteTypes DEF TurnBack, Lock

LEMMA ChangeTypes ==
    ASSUME TypeOK, IsDisciplined, NEW c \in Client, ChangeParent(c)
    PROVE  TypeOK'
<1> DEFINE r == request[c]
           D == [NoDraft EXCEPT !.cut = ParentEdgesOf(r.child), !.joined = NewParentEdges(r)]
<1>1. r \in Request /\ r.child \in Ticket
  BY RequestTypes DEF ChangeParent, Asks, At, IsDisciplined
<1>2. ParentEdgesOf(r.child) \in SUBSET ParentEdge /\ NewParentEdges(r) \in SUBSET ParentEdge
  BY <1>1, RequestTypes DEF ParentEdgesOf, NewParentEdges, ParentEdge, TypeOK
<1>3. D \in Draft
  BY <1>2, NoDraftType DEF Draft
<1>4. \/ \E a \in {"notFound", "conflict", "unchanged"} : TurnBack(c, "tickets", a)
      \/ Write(c, "tickets", D)
  BY DEF ChangeParent, ChangeError, OwnerError
<1> HIDE DEF D
<1> QED BY <1>3, <1>4, RefuseTypes, WriteTypes DEF TurnBack, Lock

LEMMA ReferTypes ==
    ASSUME TypeOK, IsDisciplined, NEW c \in Client, WriteReferences(c)
    PROVE  TypeOK'
<1> DEFINE missing == MissingPairs(request[c])
           new == UNION {{[memory |-> p[1], to |-> v] : v \in VerticesOf(p[2])} : p \in missing}
           D == [NoDraft EXCEPT !.abouts = new]
<1>1. request[c] \in Request
  BY DEF WriteReferences, At, IsDisciplined
<1>2. missing \subseteq Memory \X Ticket
  BY <1>1, RequestTypes DEF MissingPairs
<1>3. new \in SUBSET AboutEdge
  BY <1>2 DEF AboutEdge, VerticesOf, TypeOK
<1>4. D \in Draft
  <2> HIDE DEF new
  <2> QED BY <1>3, NoDraftType DEF Draft
<1>5. TurnBack(c, "graph", "conflict") \/ Write(c, "graph", D)
  BY DEF WriteReferences
<1> HIDE DEF D
<1> QED BY <1>4, <1>5, RefuseTypes, WriteTypes DEF TurnBack, Lock

LEMMA NewestVersionIsLast ==
    ASSUME NEW g \in Group, NEW n \in Nat, Versions(g) = 1 .. n
    PROVE  NewestVersion(g) = n
<1> DEFINE numbers == {0} \cup Versions(g)
<1>1. numbers = 0 .. n
  BY SMT
<1>2. \E k \in numbers : \A j \in numbers : j <= k
  BY <1>1
<1>3. NewestVersion(g) = CHOOSE k \in numbers : \A j \in numbers : j <= k
  BY DEF NewestVersion, Versions
<1>4. NewestVersion(g) \in numbers /\ \A j \in numbers : j <= NewestVersion(g)
  BY <1>2, <1>3
<1> HIDE DEF numbers
<1> QED BY <1>1, <1>4

LEMMA AppendTypes ==
    ASSUME Numbered, NEW c \in Client, AppendDescription(c)
    PROVE  TypeOK'
<1> DEFINE g == request[c].group
           v == NewestVersion(g) + 1
<1> USE DEF Numbered
<1>1. CASE g \notin groups
  BY <1>1, RefuseTypes DEF AppendDescription
<1>2. CASE g \in groups
  <2>1. g \in Group
    BY <1>2 DEF TypeOK
  <2>2. v \in Nat \ {0}
    BY <2>1, NewestVersionIsLast DEF Chained
  <2> HIDE DEF v
  <2>3. {[group |-> g, version |-> v, by |-> c]} \in SUBSET Description
    BY <2>1, <2>2 DEF Description
  <2>4. draft' = [draft EXCEPT ![c].descriptions = {[group |-> g, version |-> v, by |-> c]}]
    BY <1>2 DEF AppendDescription, v
  <2>5. draft' \in [Client -> Draft]
    <3>1. draft \in [Client -> Draft]
      BY DEF TypeOK
    <3>2. [draft[c] EXCEPT !.descriptions = {[group |-> g, version |-> v, by |-> c]}] \in Draft
      BY <2>3, <3>1 DEF Draft
    <3> QED BY <2>4, <3>1, <3>2
  <2> QED BY <1>2, <2>5 DEF AppendDescription, TypeOK, tables, graph
<1> QED BY <1>1, <1>2

LEMMA InsertTypes ==
    ASSUME TypeOK, NEW c \in Client, InsertDescription(c)
    PROVE  TypeOK'
<1>1. CASE Refuse(c, "conflict")
  BY <1>1, RefuseTypes
<1>2. CASE /\ descriptions' = descriptions \cup draft[c].descriptions
           /\ Finish(c, "ok")
           /\ UNCHANGED <<groups, owned, dimension, identifier, graph, holder>>
  <2>1. draft[c].descriptions \subseteq Description
    BY DEF TypeOK, Draft
  <2> QED BY <1>2, <2>1, FinishTypes DEF TypeOK, graph
<1> QED BY <1>1, <1>2 DEF InsertDescription

LEMMA PlanTypes ==
    ASSUME TypeOK, NEW c \in Client, PlanReferences(c)
    PROVE  TypeOK'
<1> DEFINE error == ReferenceError(request[c])
<1>1. error # "none" => error \in {"notFound", "conflict"}
  BY DEF ReferenceError
<1> HIDE DEF error
<1>2. CASE error # "none"
  BY <1>1, <1>2, RefuseTypes DEF PlanReferences, error
<1>3. CASE error = "none"
  BY <1>3 DEF PlanReferences, error, TypeOK, tables, graph
<1> QED BY <1>2, <1>3

LEMMA CommitTypes ==
    ASSUME TypeOK, Columns, NEW c \in Client, Commit(c)
    PROVE  TypeOK'
<1> DEFINE d == draft[c]
<1>1. d \in Draft /\ pc[c] = "written"
  BY DEF TypeOK, Commit, At
<1>2. groups' \subseteq Group /\ descriptions' \subseteq Description
  BY <1>1 DEF Commit, Draft, TypeOK
<1>3. owned' \in [Group -> SUBSET Ticket]
  BY <1>1 DEF Commit, Draft, TypeOK, Columns
<1>4. dimension' \in [Group -> Dimension] /\ identifier' \in [Group -> Identifier]
  BY <1>1 DEF Commit, Draft, TypeOK, Columns
<1>5. vertices' \subseteq Vertex /\ births' \in Nat /\ abouts' \subseteq AboutEdge
  BY <1>1 DEF Commit, Draft, TypeOK
<1>6. parents' \subseteq ParentEdge
  BY <1>1 DEF Commit, Draft, TypeOK
<1>7. holder' \in [Lock -> Client \cup {Nobody}]
  BY DEF Commit, TypeOK
<1>8. Finish(c, "ok")
  BY DEF Commit
<1> QED BY <1>2, <1>3, <1>4, <1>5, <1>6, <1>7, <1>8, FinishTypes DEF TypeOK

-----------------------------------------------------------------------------
(***************************************************************************)
(* What each transaction writes.                                           *)
(***************************************************************************)

LEMMA WriteEffect ==
    ASSUME TypeOK, NEW c \in Client, NEW l \in Lock, NEW d, Write(c, l, d)
    PROVE  /\ draft'[c] = d /\ pc'[c] = "written"
           /\ UNCHANGED <<tables, graph, request>>
           /\ \A u \in Others(c) : pc'[u] = pc[u] /\ draft'[u] = draft[u]
           /\ holder[l] = Nobody /\ holder' = [holder EXCEPT ![l] = c]
BY DEF Write, TakeLock, TypeOK, Others

LEMMA RefuseEffect ==
    ASSUME TypeOK, NEW c \in Client, NEW a, Refuse(c, a)
    PROVE  /\ UNCHANGED <<tables, graph, holder>>
           /\ pc'[c] = "idle" /\ draft'[c] = NoDraft
           /\ \A u \in Others(c) : pc'[u] = pc[u] /\ request'[u] = request[u] /\ draft'[u] = draft[u]
BY DEF Refuse, Finish, TypeOK, Others

(* A new group: its columns, its vertices, its first description.          *)
IsCreation(r, d, c) ==
    \E g \in Group \ groups, tickets \in SUBSET Ticket :
        /\ ~OwnershipConflicts(g, tickets)
        /\ d.group = g /\ d.writes = {"tickets", "dimension", "identifier"}
        /\ d.tickets = tickets /\ d.born = BornVertices(tickets)
        /\ d.dimension \in Dimension /\ d.identifier \in Identifier
        /\ d.dimension = "customer" => d.identifier = "named"
        /\ d.descriptions \in {{}, {[group |-> g, version |-> 1, by |-> c]}}
        /\ d.gone = {} /\ d.cut = {} /\ d.joined = {}

IsUpdate(r, d) ==
    LET g == r.group IN
    /\ g \in groups /\ ~OwnershipConflicts(g, r.tickets)
    /\ d.group = g /\ d.writes \subseteq {"tickets", "dimension", "identifier"}
    /\ d.tickets = owned[g] \cup r.tickets /\ d.born = BornVertices(d.tickets)
    /\ "tickets" \notin d.writes => d.tickets = owned[g]
    /\ d.dimension \in Dimension /\ d.identifier \in Identifier
    /\ "dimension" \notin d.writes => d.dimension = dimension[g]
    /\ "identifier" \notin d.writes => d.identifier = identifier[g]
    /\ d.dimension = "customer" => d.identifier = "named"
    /\ d.descriptions = {} /\ d.gone = {} /\ d.cut = {} /\ d.joined = {}

IsRelease(r, d) ==
    LET g == r.group IN
    /\ g \in groups /\ d.group = g /\ d.writes = {"tickets"}
    /\ d.tickets = owned[g] \ r.tickets /\ d.gone = GoneVertices(g, d.tickets)
    /\ d.descriptions = {} /\ d.born = {} /\ d.cut = {} /\ d.joined = {}

IsReparenting(r, d) ==
    /\ d.group = Nobody /\ d.writes = {} /\ d.descriptions = {} /\ d.born = {} /\ d.gone = {}
    /\ d.cut = ParentEdgesOf(r.child) /\ d.joined = NewParentEdges(r)
    /\ ParentOf(r.child) = r.expected
    /\ r.parent # Nobody => /\ ~WouldCycle(r.child, r.parent)
                            /\ VerticesOf(r.child) # {} /\ VerticesOf(r.parent) # {}

LEMMA ResolveWrites ==
    ASSUME Numbered, NEW c \in Client, ResolveGroup(c), pc'[c] = "written"
    PROVE  /\ IsCreation(request[c], draft'[c], c) /\ request[c].op = "resolve"
           /\ \E d \in Draft : Write(c, "tickets", d)
<1> DEFINE r == request[c]
<1> USE DEF Numbered
<1>1. r \in Request /\ r.op = "resolve"
  BY DEF ResolveGroup, Asks, At, IsDisciplined
<1>2. \A tickets \in TicketsToCreate(r) : tickets \in SUBSET Ticket
  BY <1>1, RequestTypes DEF TicketsToCreate
<1>3. \A a : ~TurnBack(c, "tickets", a)
  BY RefuseEffect DEF TurnBack
<1> DEFINE D(g, tickets) == [NoDraft EXCEPT
                   !.group = g, !.writes = {"tickets", "dimension", "identifier"},
                   !.tickets = tickets, !.born = BornVertices(tickets),
                   !.dimension = IF r.dimension = Nobody THEN "product" ELSE r.dimension,
                   !.identifier = IF r.identifier = Nobody THEN "blank" ELSE r.identifier,
                   !.descriptions = IF r.named THEN {[group |-> g, version |-> 1, by |-> c]} ELSE {}]
<1>4. PICK g \in {h \in Group : FreshGroup(h)}, tickets \in TicketsToCreate(r) :
           ~OwnershipConflicts(g, tickets) /\ Write(c, "tickets", D(g, tickets))
  BY <1>3 DEF ResolveGroup
<1>5. tickets \in SUBSET Ticket /\ g \in Group \ groups
  BY <1>2, <1>4 DEF FreshGroup
<1>6. draft'[c] = D(g, tickets)
  BY <1>4, WriteEffect DEF Lock
<1>7. /\ (IF r.dimension = Nobody THEN "product" ELSE r.dimension) \in Dimension
      /\ (IF r.identifier = Nobody THEN "blank" ELSE r.identifier) \in Identifier
      /\ (IF r.dimension = Nobody THEN "product" ELSE r.dimension) = "customer" =>
            (IF r.identifier = Nobody THEN "blank" ELSE r.identifier) = "named"
  <2>1. r.dimension = "customer" => r.identifier = "named"
    BY <1>1, RequestsAreValid
  <2>2. Nobody # "named"
    BY ConstantsAreTyped DEF Identifier
  <2> QED BY <1>1, <2>1, <2>2, RequestTypes DEF Dimension, Identifier
<1>8. IsCreation(r, D(g, tickets), c)
  <2>1. D(g, tickets).tickets = tickets /\ D(g, tickets).group = g
    BY DEF NoDraft
  <2> QED BY <1>4, <1>5, <1>7, <2>1 DEF IsCreation, NoDraft
<1>9. draft' \in [Client -> Draft]
  BY ResolveTypes DEF TypeOK
<1> QED BY <1>1, <1>4, <1>6, <1>8, <1>9

LEMMA UpdateWrites ==
    ASSUME Numbered, NEW c \in Client, UpdateGroup(c), pc'[c] = "written"
    PROVE  /\ IsUpdate(request[c], draft'[c]) /\ request[c].op = "update"
           /\ \E d \in Draft : Write(c, "tickets", d)
<1> DEFINE r == request[c]
           tickets == owned[r.group] \cup r.tickets
           columns == (IF tickets # owned[r.group] THEN {"tickets"} ELSE {})
                     \cup (IF NewDimension(r) # dimension[r.group] THEN {"dimension"} ELSE {})
                     \cup (IF NewIdentifier(r) # identifier[r.group] THEN {"identifier"} ELSE {})
           D == [NoDraft EXCEPT
               !.group = r.group, !.tickets = tickets, !.born = BornVertices(tickets),
               !.dimension = NewDimension(r), !.identifier = NewIdentifier(r),
               !.writes = columns]
<1> USE DEF Numbered
<1>1. r \in Request /\ r.group \in Group /\ r.op = "update"
  BY RequestTypes DEF UpdateGroup, Asks, At, IsDisciplined
<1>2. \A a : ~TurnBack(c, "tickets", a)
  BY RefuseEffect DEF TurnBack
<1>3. UpdateError(r) = "none" /\ Write(c, "tickets", D)
  BY <1>2 DEF UpdateGroup
<1>4. draft'[c] = D
  BY <1>3, WriteEffect DEF Lock
<1>5. /\ r.group \in groups /\ ~OwnershipConflicts(r.group, r.tickets)
      /\ ~(NewDimension(r) = "customer" /\ NewIdentifier(r) = "blank")
  BY <1>3 DEF UpdateError
<1>6. NewDimension(r) \in Dimension /\ NewIdentifier(r) \in Identifier
  BY <1>1, RequestTypes DEF NewDimension, NewIdentifier, TypeOK
<1>7. IsUpdate(r, D)
  <2>1. D.writes = columns /\ D.tickets = tickets /\ D.group = r.group
        /\ D.dimension = NewDimension(r) /\ D.identifier = NewIdentifier(r)
        /\ D.born = BornVertices(tickets)
        /\ D.descriptions = {} /\ D.gone = {} /\ D.cut = {} /\ D.joined = {}
    BY DEF NoDraft
  <2> HIDE DEF D
  <2>2. D.dimension = "customer" => D.identifier = "named"
    BY <1>5, <1>6, <2>1 DEF Identifier
  <2> QED BY <1>5, <1>6, <2>1, <2>2 DEF IsUpdate
<1>8. draft' \in [Client -> Draft]
  BY UpdateTypes DEF TypeOK
<1>9. D \in Draft
  BY <1>4, <1>8
<1> HIDE DEF D
<1> QED BY <1>1, <1>3, <1>4, <1>7, <1>9

LEMMA ReleaseWrites ==
    ASSUME Numbered, NEW c \in Client, Release(c), pc'[c] = "written"
    PROVE  /\ IsRelease(request[c], draft'[c]) /\ request[c].op = "release"
           /\ \E d \in Draft : Write(c, "tickets", d)
<1> DEFINE r == request[c]
           tickets == owned[r.group] \ r.tickets
           D == [NoDraft EXCEPT !.group = r.group, !.writes = {"tickets"}, !.tickets = tickets,
                                !.gone = GoneVertices(r.group, tickets)]
<1> USE DEF Numbered
<1>1. \A a : ~TurnBack(c, "tickets", a)
  BY RefuseEffect DEF TurnBack
<1>2. r.group \in groups /\ Write(c, "tickets", D) /\ r.op = "release"
  BY <1>1 DEF Release, Asks
<1>3. draft'[c] = D
  BY <1>2, WriteEffect DEF Lock
<1>4. IsRelease(r, D)
  BY <1>2 DEF IsRelease, NoDraft
<1>5. draft' \in [Client -> Draft]
  BY ReleaseTypes DEF TypeOK
<1> QED BY <1>2, <1>3, <1>4, <1>5

LEMMA ChangeWrites ==
    ASSUME Numbered, NEW c \in Client, ChangeParent(c), pc'[c] = "written"
    PROVE  /\ IsReparenting(request[c], draft'[c]) /\ request[c].op = "parent"
           /\ \E d \in Draft : Write(c, "tickets", d)
<1> DEFINE r == request[c]
           D == [NoDraft EXCEPT !.cut = ParentEdgesOf(r.child), !.joined = NewParentEdges(r)]
<1> USE DEF Numbered
<1>1. \A a : ~TurnBack(c, "tickets", a)
  BY RefuseEffect DEF TurnBack
<1>2. /\ ChangeError(r) = "none" /\ ParentOf(r.child) = r.expected
      /\ r.parent # Nobody => ~WouldCycle(r.child, r.parent)
      /\ Write(c, "tickets", D) /\ r.op = "parent"
  BY <1>1 DEF ChangeParent, Asks
<1>3. draft'[c] = D
  BY <1>2, WriteEffect DEF Lock
<1>4. r \in Request /\ r.child \in Ticket
  BY RequestTypes DEF ChangeParent, Asks, At, IsDisciplined
<1>5. OwnerError(r.child) = "none" /\ OwnerError(r.parent) = "none"
  BY <1>2 DEF ChangeError
<1>6. \A t \in Ticket : OwnerError(t) = "none" /\ t # Nobody => VerticesOf(t) # {}
  <2> SUFFICES ASSUME NEW t \in Ticket, OwnerError(t) = "none", t # Nobody, VerticesOf(t) = {}
               PROVE  FALSE
    OBVIOUS
  <2>1. Cardinality(VerticesOf(t)) = 1
    BY DEF OwnerError
  <2> QED BY <2>1, FS_EmptySet
<1>7. draft' \in [Client -> Draft]
  BY ChangeTypes DEF TypeOK
<1>8. r.parent # Nobody => VerticesOf(r.child) # {} /\ VerticesOf(r.parent) # {}
  BY <1>4, <1>5, <1>6, RequestTypes, ConstantsAreTyped
<1>9. IsReparenting(r, D)
  BY <1>2, <1>8 DEF IsReparenting, NoDraft
<1> HIDE DEF D
<1> QED BY <1>2, <1>3, <1>7, <1>9

LEMMA ReferWrites ==
    ASSUME Numbered, NEW c \in Client, WriteReferences(c), pc'[c] = "written"
    PROVE  /\ TouchesNoTicket(draft'[c]) /\ draft'[c].descriptions = {}
           /\ \E d \in Draft : Write(c, "graph", d)
<1> DEFINE missing == MissingPairs(request[c])
           new == UNION {{[memory |-> p[1], to |-> v] : v \in VerticesOf(p[2])} : p \in missing}
           D == [NoDraft EXCEPT !.abouts = new]
<1> USE DEF Numbered
<1>1. \A a : ~TurnBack(c, "graph", a)
  BY RefuseEffect DEF TurnBack
<1>2. Write(c, "graph", D)
  BY <1>1 DEF WriteReferences
<1>3. draft'[c] = D
  BY <1>2, WriteEffect DEF Lock
<1>4. TouchesNoTicket(D) /\ D.descriptions = {}
  BY DEF TouchesNoTicket, NoDraft
<1>5. draft' \in [Client -> Draft]
  BY ReferTypes DEF TypeOK
<1> QED BY <1>2, <1>3, <1>4, <1>5

-----------------------------------------------------------------------------
(***************************************************************************)
(* Every step is of one of three kinds.                                    *)
(***************************************************************************)

LEMMA RefusePasses ==
    ASSUME TypeOK, NEW c \in Client, NEW a, Refuse(c, a)
    PROVE  Passes(c)
BY RefuseEffect DEF Passes, tables

LEMMA TurnBackPasses ==
    ASSUME TypeOK, NEW c \in Client, NEW l, NEW a, TurnBack(c, l, a)
    PROVE  Passes(c)
BY RefusePasses DEF TurnBack

LEMMA SubmitPasses ==
    ASSUME TypeOK, NEW c \in Client, Submit(c)
    PROVE  Passes(c) /\ TypeOK'
<1>1. PICK r \in Request : request' = [request EXCEPT ![c] = r]
  BY DEF Submit
<1>2. Passes(c)
  BY <1>1 DEF Submit, Passes, TypeOK, tables, Others, Lock
<1>3. sent' \in [Client -> 0 .. MaxRequests]
  BY ConstantsAreTyped DEF Submit, TypeOK
<1>4. TypeOK'
  BY <1>1, <1>3 DEF Submit, TypeOK, tables, graph
<1> QED BY <1>2, <1>4

LEMMA InterruptPasses ==
    ASSUME TypeOK, NEW c \in Client, Interrupt(c)
    PROVE  Passes(c) /\ TypeOK'
<1>1. Finish(c, "lost") /\ UNCHANGED <<tables, graph>>
  BY DEF Interrupt
<1>2. holder' = [l \in Lock |-> IF holder[l] = c THEN Nobody ELSE holder[l]]
  BY DEF Interrupt
<1>3. holder' \in [Lock -> Client \cup {Nobody}]
  BY <1>2 DEF TypeOK
<1>4. TypeOK'
  BY <1>1, <1>3, FinishTypes DEF TypeOK, tables, graph
<1>5. /\ pc'[c] = "idle"
      /\ \A u \in Others(c) : pc'[u] = pc[u] /\ request'[u] = request[u] /\ draft'[u] = draft[u]
  BY <1>1 DEF Finish, TypeOK, Others
<1>6. \A l \in Lock, u \in Others(c) : holder[l] = u => holder'[l] = u
  BY <1>2 DEF Others
<1> QED BY <1>1, <1>4, <1>5, <1>6 DEF Passes, tables

LEMMA StepTypes ==
    ASSUME Numbered, NEW c \in Client, Submit(c) \/ Serve(c) \/ Interrupt(c)
    PROVE  TypeOK'
<1> USE DEF Numbered
<1>1. CASE ResolveGroup(c)
  BY <1>1, ResolveTypes
<1>2. CASE UpdateGroup(c)
  BY <1>2, UpdateTypes
<1>3. CASE Release(c)
  BY <1>3, ReleaseTypes
<1>4. CASE ChangeParent(c)
  BY <1>4, ChangeTypes
<1>5. CASE AppendDescription(c)
  BY <1>5, AppendTypes
<1>6. CASE InsertDescription(c)
  BY <1>6, InsertTypes
<1>7. CASE PlanReferences(c)
  BY <1>7, PlanTypes
<1>8. CASE WriteReferences(c)
  BY <1>8, ReferTypes
<1>9. CASE Commit(c)
  BY <1>9, CommitTypes
<1>10. CASE Submit(c) \/ Interrupt(c)
  BY <1>10, SubmitPasses, InterruptPasses
<1> QED BY <1>1, <1>2, <1>3, <1>4, <1>5, <1>6, <1>7, <1>8, <1>9, <1>10 DEF Serve

LEMMA DescribePasses ==
    ASSUME Numbered, NEW c \in Client,
           AppendDescription(c) \/ InsertDescription(c) \/ PlanReferences(c)
    PROVE  Passes(c)
<1> USE DEF Numbered
<1>1. CASE \E a : Refuse(c, a)
  BY <1>1, RefusePasses
<1>2. CASE AppendDescription(c) /\ ~ \E a : Refuse(c, a)
  <2>1. /\ \E d : draft' = [draft EXCEPT ![c].descriptions = d]
        /\ pc' = [pc EXCEPT ![c] = "numbered"] /\ request[c] \in Request
        /\ UNCHANGED <<tables, graph, request, answer, sent, holder>>
    BY <1>2 DEF AppendDescription, Asks, At, IsDisciplined
  <2> QED BY <2>1 DEF Passes, Others, TypeOK, tables
<1>3. CASE InsertDescription(c) /\ ~ \E a : Refuse(c, a)
  <2>1. Finish(c, "ok") /\ UNCHANGED <<groups, owned, dimension, identifier, graph, holder>>
    BY <1>3 DEF InsertDescription
  <2> QED BY <2>1 DEF Passes, Others, TypeOK, Finish
<1>4. CASE PlanReferences(c) /\ ~ \E a : Refuse(c, a)
  <2>1. /\ pc' = [pc EXCEPT ![c] = "planned"] /\ request[c] \in Request
        /\ request[c].op = "refer"
        /\ UNCHANGED <<tables, graph, request, draft, answer, sent, holder>>
    BY <1>4 DEF PlanReferences, Asks, At, IsDisciplined
  <2> QED BY <2>1 DEF Passes, Others, TypeOK, tables
<1> QED BY <1>1, <1>2, <1>3, <1>4

LEMMA WritesOrPasses ==
    ASSUME Numbered, NEW c \in Client,
           ResolveGroup(c) \/ UpdateGroup(c) \/ Release(c) \/ ChangeParent(c) \/ WriteReferences(c)
    PROVE  (Passes(c) /\ UNCHANGED descriptions /\ pc'[c] = "idle") \/ Writes(c)
<1> USE DEF Numbered
<1>1. CASE \E a, l : TurnBack(c, l, a)
  BY <1>1, TurnBackPasses, RefuseEffect DEF TurnBack, tables
<1>2. CASE ~ \E a, l : TurnBack(c, l, a)
  <2>1. pc[c] # "idle" /\ \E l \in Lock : \E d : Write(c, l, d)
    BY <1>2 DEF ResolveGroup, UpdateGroup, Release, ChangeParent, WriteReferences, Asks, At, Lock
  <2>2. pc'[c] = "written"
    BY <2>1, WriteEffect
  <2>3. CASE WriteReferences(c)
    <3>1. PICK d : Write(c, "graph", d) /\ TouchesNoTicket(draft'[c]) /\ draft'[c].descriptions = {}
      BY <2>2, <2>3, ReferWrites
    <3>2. request[c].op = "refer"
      BY <2>3 DEF WriteReferences, At, IsDisciplined
    <3> QED BY <2>1, <3>1, <3>2, WriteEffect DEF Writes, LockOf, Lock
  <2>4. CASE ResolveGroup(c) \/ UpdateGroup(c) \/ Release(c) \/ ChangeParent(c)
    <3>1. request[c].op # "refer" /\ \E d : Write(c, "tickets", d)
      BY <2>2, <2>4, ResolveWrites, UpdateWrites, ReleaseWrites, ChangeWrites
    <3> QED BY <2>1, <2>4, <3>1, WriteEffect DEF Writes, LockOf, Lock
  <2> QED BY <2>3, <2>4
<1> QED BY <1>1, <1>2

LEMMA StepKinds ==
    ASSUME Numbered, NEW c \in Client, Submit(c) \/ Serve(c) \/ Interrupt(c)
    PROVE  Passes(c) \/ Writes(c) \/ Commit(c)
<1>1. TypeOK
  BY DEF Numbered
<1> QED BY <1>1, SubmitPasses, InterruptPasses, DescribePasses, WritesOrPasses DEF Serve

LEMMA CommitEffect ==
    ASSUME TypeOK, NEW c \in Client, Commit(c)
    PROVE  /\ pc[c] = "written" /\ pc'[c] = "idle"
           /\ \A u \in Others(c) : pc'[u] = pc[u] /\ request'[u] = request[u] /\ draft'[u] = draft[u]
           /\ \A l \in Lock, u \in Others(c) : holder[l] = u => holder'[l] = u
BY DEF Commit, Finish, At, Others, TypeOK

LEMMA DisciplineStep ==
    ASSUME Numbered, NEW c \in Client, Submit(c) \/ Serve(c) \/ Interrupt(c)
    PROVE  IsDisciplined'
<1> USE DEF Numbered
<1>1. \A op : LockOf(op) \in Lock
  BY DEF LockOf, Lock
<1>2. CASE Passes(c)
  BY <1>1, <1>2 DEF IsDisciplined, Passes, Others
<1>3. CASE Writes(c)
  <2>1. \A u \in Others(c) : pc[u] = "written" => holder'[LockOf(request[u].op)] = u
    BY <1>1, <1>3, ConstantsAreTyped DEF IsDisciplined, Writes, Others, TypeOK
  <2>2. holder'[LockOf(request[c].op)] = c
    BY <1>1, <1>3 DEF Writes, TypeOK
  <2> QED BY <1>3, <2>1, <2>2 DEF IsDisciplined, Writes, Others
<1>4. CASE Commit(c)
  BY <1>1, <1>4, CommitEffect DEF IsDisciplined, Others
<1> QED BY <1>2, <1>3, <1>4, StepKinds

(* Two transactions under the same lock are never written at once.         *)
LEMMA LocksExclude ==
    ASSUME Numbered, NEW c \in Client, NEW u \in Client, c # u,
           pc[c] = "written", request[c].op # "refer", pc[u] = "written"
    PROVE  request[u].op = "refer" /\ TouchesNoTicket(draft[u])
BY DEF Numbered, IsDisciplined, LockOf

LEMMA ColumnsStep ==
    ASSUME Numbered, NEW c \in Client, Submit(c) \/ Serve(c) \/ Interrupt(c)
    PROVE  Columns'
<1> USE DEF Numbered
<1>1. CASE Passes(c)
  BY <1>1 DEF Columns, Passes, Others
<1>2. CASE Writes(c)
  <2>1. /\ draft'[c].writes # {} => draft'[c].group \in Group
        /\ "dimension" \in draft'[c].writes => draft'[c].dimension \in Dimension
        /\ "identifier" \in draft'[c].writes => draft'[c].identifier \in Identifier
    <3>1. groups \subseteq Group /\ pc'[c] = "written"
      BY <1>2 DEF Writes, TypeOK
    <3>2. CASE request[c].op = "refer"
      BY <1>2, <3>2 DEF Writes, TouchesNoTicket
    <3>3. CASE ResolveGroup(c)
      BY <3>1, <3>3, ResolveWrites DEF IsCreation
    <3>4. CASE UpdateGroup(c)
      BY <3>1, <3>4, UpdateWrites DEF IsUpdate
    <3>5. CASE Release(c)
      BY <3>1, <3>5, ReleaseWrites DEF IsRelease
    <3>6. CASE ChangeParent(c)
      BY <3>1, <3>6, ChangeWrites DEF IsReparenting
    <3> QED BY <1>2, <3>2, <3>3, <3>4, <3>5, <3>6 DEF Writes
  <2> QED BY <1>2, <2>1 DEF Columns, Writes, Others
<1>3. CASE Commit(c)
  BY <1>3, CommitEffect DEF Columns, Others
<1> QED BY <1>1, <1>2, <1>3, StepKinds

(* A step that adds no description keeps the chains, provided that c has a *)
(* number only if it had it before or has just read it.                    *)
LEMMA ChainedFrame ==
    ASSUME Numbered, NEW c \in Client, UNCHANGED <<groups, descriptions>>,
           \A u \in Others(c) : pc'[u] = pc[u] /\ draft'[u] = draft[u],
           pc'[c] = "numbered" => \E g \in groups, v \in Nat \ {0} :
              /\ draft'[c].descriptions = {[group |-> g, version |-> v, by |-> c]}
              /\ 1 .. (v - 1) \subseteq Versions(g),
           pc'[c] = "written" /\ draft'[c].descriptions # {} => \E g \in Group \ groups :
              /\ draft'[c].group = g
              /\ draft'[c].descriptions = {[group |-> g, version |-> 1, by |-> c]}
    PROVE  Chained'
<1>1. \A g : Versions(g)' = Versions(g)
  BY DEF Versions
<1> QED BY <1>1 DEF Chained, Numbered, Others

(* One description added at the end of its group's chain.                  *)
LEMMA ChainGrows ==
    ASSUME Numbered, NEW c \in Client, NEW g \in Group, NEW v \in Nat \ {0},
           descriptions' = descriptions \cup {[group |-> g, version |-> v, by |-> c]},
           g \in groups', groups \subseteq groups',
           1 .. (v - 1) \subseteq Versions(g), v \notin Versions(g)
    PROVE  /\ \A h \in Group : \E n \in Nat : Versions(h)' = 1 .. n
           /\ \A d, e \in descriptions' : d.group = e.group /\ d.version = e.version => d = e
           /\ \A d \in descriptions' : d.group \in groups'
           /\ \A h \in Group : Versions(h) \subseteq Versions(h)'
<1> DEFINE new == [group |-> g, version |-> v, by |-> c]
<1>1. new.group = g /\ new.version = v
  OBVIOUS
<1>2. Versions(g)' = Versions(g) \cup {v} /\ \A h \in Group \ {g} : Versions(h)' = Versions(h)
  BY <1>1 DEF Versions
<1>3. PICK n \in Nat : Versions(g) = 1 .. n
  BY DEF Numbered, Chained
<1>4. n = v - 1
  BY <1>3
<1>5. Versions(g)' = 1 .. v
  BY <1>2, <1>3, <1>4
<1>6. \A d \in descriptions : ~(d.group = g /\ d.version = v)
  BY DEF Versions
<1> HIDE DEF new
<1>7. \A d, e \in descriptions' : d.group = e.group /\ d.version = e.version => d = e
  BY <1>1, <1>6 DEF Numbered, Chained, new
<1>8. \A d \in descriptions' : d.group \in groups'
  BY <1>1 DEF Numbered, Chained, new
<1> QED BY <1>2, <1>5, <1>7, <1>8 DEF Numbered, Chained

LEMMA ChainedStep ==
    ASSUME Numbered, NEW c \in Client, Submit(c) \/ Serve(c) \/ Interrupt(c)
    PROVE  Chained'
<1> USE DEF Numbered
<1>1. CASE Passes(c) /\ UNCHANGED descriptions /\ pc'[c] # "numbered"
  BY <1>1, ChainedFrame DEF Passes
<1>2. CASE Writes(c)
  <2>1. /\ pc'[c] = "written" /\ UNCHANGED <<groups, descriptions>>
        /\ \A u \in Others(c) : pc'[u] = pc[u] /\ draft'[u] = draft[u]
    BY <1>2 DEF Writes, tables
  <2>2. draft'[c].descriptions = {} \/ (\E g \in Group \ groups :
              /\ draft'[c].group = g
              /\ draft'[c].descriptions = {[group |-> g, version |-> 1, by |-> c]})
    <3>1. CASE request[c].op = "refer"
      BY <1>2, <3>1 DEF Writes
    <3>2. CASE ResolveGroup(c)
      BY <2>1, <3>2, ResolveWrites DEF IsCreation
    <3>3. CASE UpdateGroup(c)
      BY <2>1, <3>3, UpdateWrites DEF IsUpdate
    <3>4. CASE Release(c)
      BY <2>1, <3>4, ReleaseWrites DEF IsRelease
    <3>5. CASE ChangeParent(c)
      BY <2>1, <3>5, ChangeWrites DEF IsReparenting
    <3> QED BY <1>2, <3>1, <3>2, <3>3, <3>4, <3>5 DEF Writes
  <2> QED BY <2>1, <2>2, ChainedFrame
<1>3. CASE AppendDescription(c) /\ pc'[c] = "numbered"
  <2> DEFINE g == request[c].group
             v == NewestVersion(g) + 1
  <2>1. ~ \E a : Refuse(c, a)
    BY <1>3, RefuseEffect
  <2>2. /\ g \in groups /\ UNCHANGED <<tables, graph, request>>
        /\ draft' = [draft EXCEPT ![c].descriptions = {[group |-> g, version |-> v, by |-> c]}]
        /\ pc' = [pc EXCEPT ![c] = "numbered"]
    BY <1>3, <2>1 DEF AppendDescription
  <2>3. PICK n \in Nat : Versions(g) = 1 .. n
    BY <2>2 DEF Chained, TypeOK
  <2>4. v \in Nat \ {0} /\ 1 .. (v - 1) \subseteq Versions(g)
    BY <2>2, <2>3, NewestVersionIsLast DEF TypeOK
  <2> HIDE DEF v
  <2>5. draft'[c].descriptions = {[group |-> g, version |-> v, by |-> c]}
    BY <2>2 DEF TypeOK, Draft
  <2>6. \A u \in Others(c) : pc'[u] = pc[u] /\ draft'[u] = draft[u]
    BY <2>2 DEF TypeOK, Others
  <2> QED BY <1>3, <2>2, <2>4, <2>5, <2>6, ChainedFrame DEF tables
<1>4. CASE InsertDescription(c) /\ descriptions' # descriptions
  <2>1. ~ \E a : Refuse(c, a)
    BY <1>4, RefuseEffect DEF tables
  <2>2. /\ ~ \E d \in draft[c].descriptions : DescriptionIsRefused(d)
        /\ descriptions' = descriptions \cup draft[c].descriptions
        /\ Finish(c, "ok") /\ UNCHANGED groups /\ pc[c] = "numbered"
    BY <1>4, <2>1 DEF InsertDescription, At
  <2>3. PICK g \in groups, v \in Nat \ {0} :
          /\ draft[c].descriptions = {[group |-> g, version |-> v, by |-> c]}
          /\ 1 .. (v - 1) \subseteq Versions(g)
    BY <2>2 DEF Chained
  <2>4. v \notin Versions(g)
    BY <2>2, <2>3 DEF DescriptionIsRefused, Versions
  <2>5. g \in Group
    BY DEF TypeOK
  <2>6. /\ \A h \in Group : \E n \in Nat : Versions(h)' = 1 .. n
        /\ \A d, e \in descriptions' : d.group = e.group /\ d.version = e.version => d = e
        /\ \A d \in descriptions' : d.group \in groups'
        /\ \A h \in Group : Versions(h) \subseteq Versions(h)'
    BY <2>2, <2>3, <2>4, <2>5, ChainGrows
  <2>7. pc'[c] = "idle" /\ \A u \in Others(c) : pc'[u] = pc[u] /\ draft'[u] = draft[u]
    BY <2>2 DEF Finish, TypeOK, Others
  <2>8. \A u \in Client : pc'[u] = "numbered" =>
          \E h \in groups', w \in Nat \ {0} :
            /\ draft'[u].descriptions = {[group |-> h, version |-> w, by |-> u]}
            /\ 1 .. (w - 1) \subseteq Versions(h)'
    BY <2>2, <2>6, <2>7 DEF Chained, Others, TypeOK
  <2>9. \A u \in Client : pc'[u] = "written" /\ draft'[u].descriptions # {} =>
          \E h \in Group \ groups' : /\ draft'[u].group = h
            /\ draft'[u].descriptions = {[group |-> h, version |-> 1, by |-> u]}
    BY <2>2, <2>7 DEF Chained, Others
  <2> QED BY <2>6, <2>8, <2>9 DEF Chained
<1>5. CASE Commit(c)
  <2> DEFINE d == draft[c]
  <2>1. /\ pc[c] = "written" /\ pc'[c] = "idle"
        /\ groups' = groups \cup ({d.group} \ {Nobody})
        /\ descriptions' = descriptions \cup d.descriptions
        /\ \A u \in Others(c) : pc'[u] = pc[u] /\ draft'[u] = draft[u]
    BY <1>5, CommitEffect DEF Commit
  <2>2. /\ \A h \in Group : \E n \in Nat : Versions(h)' = 1 .. n
        /\ \A a, e \in descriptions' : a.group = e.group /\ a.version = e.version => a = e
        /\ \A a \in descriptions' : a.group \in groups'
        /\ \A h \in Group : Versions(h) \subseteq Versions(h)'
    <3>1. CASE d.descriptions = {}
      BY <2>1, <3>1 DEF Chained, Versions
    <3>2. CASE d.descriptions # {}
      <4>1. PICK g \in Group \ groups : /\ d.group = g
                 /\ d.descriptions = {[group |-> g, version |-> 1, by |-> c]}
        BY <2>1, <3>2 DEF Chained
      <4>2. 1 \notin Versions(g) /\ 1 .. (1 - 1) \subseteq Versions(g)
        BY DEF Chained, Versions
      <4>3. g \in groups' /\ groups \subseteq groups'
        BY <2>1, <4>1, ConstantsAreTyped
      <4> QED BY <2>1, <4>1, <4>2, <4>3, ChainGrows
    <3> QED BY <3>1, <3>2
  <2>3. \A u \in Client : pc'[u] = "numbered" =>
          \E h \in groups', w \in Nat \ {0} :
            /\ draft'[u].descriptions = {[group |-> h, version |-> w, by |-> u]}
            /\ 1 .. (w - 1) \subseteq Versions(h)'
    <3> SUFFICES ASSUME NEW u \in Others(c), pc[u] = "numbered"
                 PROVE  \E h \in groups', w \in Nat \ {0} :
                          /\ draft'[u].descriptions = {[group |-> h, version |-> w, by |-> u]}
                          /\ 1 .. (w - 1) \subseteq Versions(h)'
      BY <2>1 DEF Others
    <3>1. PICK h \in groups, w \in Nat \ {0} :
             /\ draft[u].descriptions = {[group |-> h, version |-> w, by |-> u]}
             /\ 1 .. (w - 1) \subseteq Versions(h)
      BY DEF Chained, Others
    <3>2. h \in groups' /\ h \in Group
      BY <2>1 DEF TypeOK
    <3>3. 1 .. (w - 1) \subseteq Versions(h)'
      BY <2>2, <3>1, <3>2
    <3>4. draft'[u].descriptions = {[group |-> h, version |-> w, by |-> u]}
      BY <2>1, <3>1
    <3> QED BY <3>2, <3>3, <3>4
  <2>4. \A u \in Client : pc'[u] = "written" /\ draft'[u].descriptions # {} =>
          \E h \in Group \ groups' : /\ draft'[u].group = h
            /\ draft'[u].descriptions = {[group |-> h, version |-> 1, by |-> u]}
    <3> SUFFICES ASSUME NEW u \in Others(c), pc[u] = "written", draft[u].descriptions # {}
                 PROVE  \E h \in Group \ groups' : /\ draft[u].group = h
                           /\ draft[u].descriptions = {[group |-> h, version |-> 1, by |-> u]}
      BY <2>1 DEF Others
    <3>1. PICK h \in Group \ groups : /\ draft[u].group = h
             /\ draft[u].descriptions = {[group |-> h, version |-> 1, by |-> u]}
      BY DEF Chained, Others
    <3>2. request[u].op # "refer"
      BY <3>1, ConstantsAreTyped DEF IsDisciplined, TouchesNoTicket, Others
    <3>3. request[c].op = "refer" /\ d.group = Nobody
      BY <2>1, <3>2, LocksExclude DEF TouchesNoTicket, Others
    <3> QED BY <2>1, <3>1, <3>3
  <2> QED BY <2>2, <2>3, <2>4 DEF Chained
<1>6. \/ Passes(c) /\ UNCHANGED descriptions /\ pc'[c] # "numbered"
      \/ Writes(c)
      \/ AppendDescription(c) /\ pc'[c] = "numbered"
      \/ InsertDescription(c) /\ descriptions' # descriptions
      \/ Commit(c)
  <2>1. CASE Submit(c) \/ Interrupt(c)
    <3>1. pc'[c] \in {"received", "idle"} /\ UNCHANGED tables
      BY <2>1 DEF Submit, Interrupt, Finish, TypeOK
    <3> QED BY <2>1, <3>1, SubmitPasses, InterruptPasses DEF tables
  <2>2. CASE PlanReferences(c) \/ AppendDescription(c) \/ InsertDescription(c)
    <3>1. Passes(c)
      BY <2>2, DescribePasses
    <3>2. AppendDescription(c) \/ PlanReferences(c) => UNCHANGED descriptions
      BY DEF AppendDescription, PlanReferences, Refuse, tables
    <3>3. InsertDescription(c) \/ PlanReferences(c) => pc'[c] # "numbered"
      BY DEF InsertDescription, PlanReferences, Refuse, Finish, TypeOK
    <3> QED BY <2>2, <3>1, <3>2, <3>3
  <2>3. CASE ResolveGroup(c) \/ UpdateGroup(c) \/ Release(c) \/ ChangeParent(c) \/ WriteReferences(c)
    BY <2>3, WritesOrPasses
  <2> QED BY <2>1, <2>2, <2>3 DEF Serve
<1> QED BY <1>1, <1>2, <1>3, <1>4, <1>5, <1>6

LEMMA InitNumbered == Init => Numbered
<1> SUFFICES ASSUME Init PROVE Numbered
  OBVIOUS
<1>1. owned \in [Group -> SUBSET Ticket] /\ groups \subseteq Group
  BY ConstantsAreTyped DEF Init
<1>2. vertices \subseteq Vertex
  BY ConstantsAreTyped DEF Init, Vertex
<1>3. draft \in [Client -> Draft]
  BY NoDraftType DEF Init
<1>4. sent \in [Client -> 0 .. MaxRequests]
  BY ConstantsAreTyped DEF Init
<1>5. TypeOK
  BY <1>1, <1>2, <1>3, <1>4 DEF Init, TypeOK, Dimension, Identifier
<1>6. IsDisciplined /\ Columns
  BY DEF Init, IsDisciplined, Columns
<1>7. \A g \in Group : Versions(g) = 1 .. 0
  BY DEF Init, Versions
<1>8. Chained
  BY <1>7 DEF Init, Chained
<1> QED BY <1>5, <1>6, <1>8 DEF Numbered

LEMMA NumberedStep == Numbered /\ [Next]_vars => Numbered'
<1> SUFFICES ASSUME Numbered, [Next]_vars PROVE Numbered'
  OBVIOUS
<1>1. CASE UNCHANGED vars
  <2>1. TypeOK'
    BY <1>1 DEF vars, tables, graph, Numbered, TypeOK
  <2>2. IsDisciplined' /\ Columns'
    BY <1>1 DEF vars, tables, graph, Numbered, IsDisciplined, Columns, TouchesNoTicket
  <2>3. Chained'
    BY <1>1 DEF vars, tables, graph, Numbered, Chained, Versions
  <2> QED BY <2>1, <2>2, <2>3 DEF Numbered
<1>2. ASSUME NEW c \in Client, Submit(c) \/ Serve(c) \/ Interrupt(c)
      PROVE  Numbered'
  BY <1>2, StepTypes, DisciplineStep, ColumnsStep, ChainedStep DEF Numbered
<1> QED BY <1>1, <1>2 DEF Next, AllSent

LEMMA AlwaysNumbered == Spec => []Numbered
BY InitNumbered, NumberedStep, PTL DEF Spec

(* Every variable of the ticket graph holds a value of its kind, in every  *)
(* reachable state: the number of a description is one more than a number  *)
(* that exists.                                                            *)
THEOREM TicketTypeCorrect == Spec => []TypeOK
<1>1. Numbered => TypeOK
  BY DEF Numbered
<1> QED BY AlwaysNumbered, <1>1, PTL

(* AppendGroupDescription numbers 1 to n, whoever reads the last number at *)
(* the same time.                                                          *)
THEOREM ChainOfDescriptions == Spec => []DescriptionsAreAChain
<1>1. Numbered => DescriptionsAreAChain
  <2> SUFFICES ASSUME Numbered, NEW g \in Group
               PROVE  /\ \E n \in {0} \cup Versions(g) : Versions(g) = 1 .. n
                      /\ \A d, e \in {a \in descriptions : a.group = g} :
                            d.version = e.version => d = e
    BY DEF DescriptionsAreAChain, Versions
  <2>1. PICK n \in Nat : Versions(g) = 1 .. n
    BY DEF Numbered, Chained
  <2>2. n \in {0} \cup Versions(g)
    BY <2>1
  <2> QED BY <2>1, <2>2 DEF Numbered, Chained
<1> QED BY AlwaysNumbered, <1>1, PTL

-----------------------------------------------------------------------------
(***************************************************************************)
(* Owners, vertices, hierarchy.  A transaction that holds the lock has     *)
(* written what is right for the state it has read; nobody changes that    *)
(* state before it commits.                                                *)
(***************************************************************************)

OneOwner(G, O) == \A g, h \in G : O[g] \cap O[h] # {} => g = h

Mirrors(G, O, V) ==
    /\ \A t \in Ticket : (\E v \in V : v.ticket = t) <=> (\E g \in G : t \in O[g])
    /\ \A u, v \in V : u.ticket = v.ticket => u = v

IsAcyclic(P) == \A e \in P : e.parent \notin Reachable(e.child, P)

Hangs(P, V) ==
    /\ \A d, e \in P : d.child = e.child => d = e
    /\ \A e \in P : \A t \in {e.parent, e.child} : \E v \in V : v.ticket = t

Scoped(G, D, I) == \A g \in G : D[g] = "customer" => I[g] = "named"

(* The state a commit of draft d leaves.                                   *)
GroupsAfter(d) == groups \cup ({d.group} \ {Nobody})
OwnedAfter(d) == IF "tickets" \in d.writes THEN [owned EXCEPT ![d.group] = d.tickets] ELSE owned
DimensionAfter(d) ==
    IF "dimension" \in d.writes THEN [dimension EXCEPT ![d.group] = d.dimension] ELSE dimension
IdentifierAfter(d) ==
    IF "identifier" \in d.writes THEN [identifier EXCEPT ![d.group] = d.identifier] ELSE identifier
VerticesAfter(d) == (vertices \ d.gone) \cup d.born
ParentsAfter(d) ==
    {e \in parents \ d.cut : {e.parent, e.child} \cap {v.ticket : v \in d.gone} = {}} \cup d.joined

(* What the draft d of request r promises.                                 *)
IsSound(d) ==
    /\ OneOwner(GroupsAfter(d), OwnedAfter(d))
    /\ Mirrors(GroupsAfter(d), OwnedAfter(d), VerticesAfter(d))
    /\ IsAcyclic(ParentsAfter(d)) /\ Hangs(ParentsAfter(d), VerticesAfter(d))
    /\ Scoped(GroupsAfter(d), DimensionAfter(d), IdentifierAfter(d))
    /\ \A g \in Group \ GroupsAfter(d) : OwnedAfter(d)[g] = {}

(* Every difference that the commit makes has a reason in the request.     *)
IsJustified(r, d) ==
    /\ "tickets" \in d.writes => owned[d.group] \subseteq
          d.tickets \cup (IF r.op = "release" /\ r.group = d.group THEN r.tickets ELSE {})
    /\ d.gone \subseteq vertices /\ d.gone \cap d.born = {}
    /\ r.op = "parent" =>
          /\ d.gone = {} /\ d.cut = ParentEdgesOf(r.child) /\ d.joined = NewParentEdges(r)
          /\ ParentOf(r.child) = r.expected
    /\ r.op # "parent" => d.cut = {} /\ d.joined = {}

Sound ==
    /\ OneOwner(groups, owned) /\ Mirrors(groups, owned, vertices)
    /\ IsAcyclic(parents) /\ Hangs(parents, vertices)
    /\ Scoped(groups, dimension, identifier)
    /\ \A g \in Group \ groups : owned[g] = {}

Promised ==
    \A c \in Client : pc[c] = "written" /\ request[c].op # "refer" =>
        IsSound(draft[c]) /\ IsJustified(request[c], draft[c])

(***************************************************************************)
(* Reachability.                                                           *)
(***************************************************************************)

LEMMA ReachableIsClosed ==
    ASSUME NEW P \in SUBSET ParentEdge, NEW t \in Ticket
    PROVE  /\ t \in Reachable(t, P) /\ IsClosed(Reachable(t, P), P)
           /\ Reachable(t, P) \in SUBSET Ticket
<1>1. \A e \in P : e.child \in Ticket
  BY DEF ParentEdge
<1> QED BY <1>1 DEF Reachable, IsClosed

LEMMA ReachableIsLeast ==
    ASSUME NEW P, NEW t \in Ticket, NEW S \in SUBSET Ticket, t \in S, IsClosed(S, P)
    PROVE  Reachable(t, P) \subseteq S
BY DEF Reachable

(* Without some edges, nothing new is reached.                             *)
LEMMA FewerEdges ==
    ASSUME NEW P \in SUBSET ParentEdge, NEW Q \in SUBSET P, IsAcyclic(P)
    PROVE  IsAcyclic(Q)
<1> SUFFICES ASSUME NEW e \in Q PROVE e.parent \notin Reachable(e.child, Q)
  BY DEF IsAcyclic
<1>1. e \in P /\ e.child \in Ticket
  BY DEF ParentEdge
<1>2. Reachable(e.child, P) \in SUBSET Ticket /\ e.child \in Reachable(e.child, P)
      /\ IsClosed(Reachable(e.child, P), Q)
  BY <1>1, ReachableIsClosed DEF IsClosed
<1>3. Reachable(e.child, Q) \subseteq Reachable(e.child, P)
  BY <1>1, <1>2, ReachableIsLeast
<1> QED BY <1>1, <1>3 DEF IsAcyclic

(* One more edge, from a parent that its child does not reach.             *)
LEMMA OneMoreEdge ==
    ASSUME NEW P \in SUBSET ParentEdge, IsAcyclic(P), NEW n \in ParentEdge,
           n.parent \notin Reachable(n.child, P)
    PROVE  IsAcyclic(P \cup {n})
<1> DEFINE Q == P \cup {n}
           B == Reachable(n.child, P)
<1>1. n.child \in Ticket /\ n.parent \in Ticket
  BY DEF ParentEdge
<1>2. n.child \in B /\ IsClosed(B, P) /\ B \in SUBSET Ticket /\ n.parent \notin B
  BY <1>1, ReachableIsClosed
<1>3. IsClosed(B, Q)
  BY <1>2 DEF IsClosed
<1>4. Reachable(n.child, Q) \subseteq B
  BY <1>1, <1>2, <1>3, ReachableIsLeast
<1> HIDE DEF B
<1>5. ASSUME NEW e \in P PROVE e.parent \notin Reachable(e.child, Q)
  <2> DEFINE S == Reachable(e.child, P)
  <2>1. e.child \in Ticket /\ e.parent \in Ticket
    BY DEF ParentEdge
  <2>2. e.child \in S /\ IsClosed(S, P) /\ S \in SUBSET Ticket /\ e.parent \notin S
    BY <2>1, ReachableIsClosed DEF IsAcyclic
  <2> HIDE DEF S
  <2>3. CASE e.parent \in B
    <3>1. e.child \in S \cap B /\ IsClosed(S \cap B, Q) /\ S \cap B \in SUBSET Ticket
      BY <1>2, <2>2, <2>3 DEF IsClosed
    <3>2. Reachable(e.child, Q) \subseteq S \cap B
      BY <2>1, <3>1, ReachableIsLeast
    <3> QED BY <2>2, <3>2
  <2>4. CASE e.parent \notin B
    <3>1. e.child \in S \cup B /\ IsClosed(S \cup B, Q) /\ S \cup B \in SUBSET Ticket
      BY <1>2, <2>2 DEF IsClosed
    <3>2. Reachable(e.child, Q) \subseteq S \cup B
      BY <2>1, <3>1, ReachableIsLeast
    <3> QED BY <2>2, <2>4, <3>2
  <2> QED BY <2>3, <2>4
<1> QED BY <1>2, <1>4, <1>5 DEF IsAcyclic

(***************************************************************************)
(* What each transaction writes is sound for the state it reads.           *)
(***************************************************************************)

(* Tickets that no other group owns, given to a group that owns some of    *)
(* them or is new.                                                         *)
LEMMA TicketsJoin ==
    ASSUME Numbered, Sound, NEW g \in Group, NEW tickets \in SUBSET Ticket,
           ~OwnershipConflicts(g, tickets), g \in groups => owned[g] \subseteq tickets
    PROVE  /\ OneOwner(groups \cup {g}, [owned EXCEPT ![g] = tickets])
           /\ Mirrors(groups \cup {g}, [owned EXCEPT ![g] = tickets],
                      vertices \cup BornVertices(tickets))
<1> DEFINE born == BornVertices(tickets)
           G == groups \cup {g}
           O == [owned EXCEPT ![g] = tickets]
<1>1. O[g] = tickets /\ \A h \in groups \ {g} : O[h] = owned[h]
  BY DEF Numbered, TypeOK
<1>2. OneOwner(G, O)
  BY <1>1 DEF OwnershipConflicts, OneOwner, Sound
<1>3. \A v \in born : v.ticket \in tickets /\ \A u \in vertices : u.ticket # v.ticket
  BY DEF BornVertices, VerticesOf
<1>4. \A u, v \in born : u.ticket = v.ticket => u = v
  BY DEF BornVertices
<1>5. ASSUME NEW t \in tickets PROVE \E v \in vertices \cup born : v.ticket = t
  <2>1. CASE VerticesOf(t) = {}
    <3>1. [ticket |-> t, id |-> births + 1] \in born
      BY <2>1 DEF BornVertices
    <3> QED BY <3>1
  <2>2. CASE VerticesOf(t) # {}
    BY <2>2 DEF VerticesOf
  <2> QED BY <2>1, <2>2
<1> HIDE DEF born, O
<1>6. \A t \in Ticket : (\E v \in vertices \cup born : v.ticket = t) <=> (\E h \in G : t \in O[h])
  <2> SUFFICES ASSUME NEW t \in Ticket
               PROVE  (\E v \in vertices \cup born : v.ticket = t) <=> (\E h \in G : t \in O[h])
    OBVIOUS
  <2>1. (\E v \in vertices : v.ticket = t) <=> (\E h \in groups : t \in owned[h])
    BY DEF Sound, Mirrors
  <2>2. (\E v \in vertices \cup born : v.ticket = t) <=> (\E v \in vertices : v.ticket = t) \/ t \in tickets
    BY <1>3, <1>5
  <2>3. (\E h \in G : t \in O[h]) <=> (\E h \in groups : t \in owned[h]) \/ t \in tickets
    BY <1>1
  <2> QED BY <2>1, <2>2, <2>3
<1>7. \A u, v \in vertices \cup born : u.ticket = v.ticket => u = v
  BY <1>3, <1>4 DEF Sound, Mirrors
<1>8. Mirrors(G, O, vertices \cup born)
  BY <1>6, <1>7 DEF Mirrors
<1> QED BY <1>2, <1>8 DEF born, O

(* A hierarchy that loses no vertex stays one.                             *)
LEMMA HierarchyStays ==
    ASSUME Sound, NEW d, d.gone = {}, d.cut = {}, d.joined = {}
    PROVE  ParentsAfter(d) = parents /\ IsAcyclic(ParentsAfter(d))
           /\ Hangs(ParentsAfter(d), VerticesAfter(d))
<1>1. ParentsAfter(d) = parents
  BY DEF ParentsAfter
<1>2. vertices \subseteq VerticesAfter(d)
  BY DEF VerticesAfter
<1> QED BY <1>1, <1>2 DEF Sound, Hangs

LEMMA CreationIsSound ==
    ASSUME Numbered, Sound, NEW c \in Client, NEW r, NEW d, IsCreation(r, d, c), r.op = "resolve"
    PROVE  IsSound(d) /\ IsJustified(r, d)
<1>1. PICK g \in Group \ groups, tickets \in SUBSET Ticket :
        /\ ~OwnershipConflicts(g, tickets)
        /\ d.group = g /\ d.writes = {"tickets", "dimension", "identifier"}
        /\ d.tickets = tickets /\ d.born = BornVertices(tickets)
        /\ d.dimension \in Dimension /\ d.identifier \in Identifier
        /\ d.dimension = "customer" => d.identifier = "named"
        /\ d.gone = {} /\ d.cut = {} /\ d.joined = {}
  BY DEF IsCreation
<1>2. /\ GroupsAfter(d) = groups \cup {g} /\ OwnedAfter(d) = [owned EXCEPT ![g] = tickets]
      /\ DimensionAfter(d) = [dimension EXCEPT ![g] = d.dimension]
      /\ IdentifierAfter(d) = [identifier EXCEPT ![g] = d.identifier]
      /\ VerticesAfter(d) = vertices \cup BornVertices(tickets)
  BY <1>1, ConstantsAreTyped
     DEF GroupsAfter, OwnedAfter, DimensionAfter, IdentifierAfter, VerticesAfter
<1>3. OneOwner(GroupsAfter(d), OwnedAfter(d)) /\ Mirrors(GroupsAfter(d), OwnedAfter(d), VerticesAfter(d))
  <2>1. g \in Group /\ g \notin groups
    OBVIOUS
  <2>2. /\ OneOwner(groups \cup {g}, [owned EXCEPT ![g] = tickets])
        /\ Mirrors(groups \cup {g}, [owned EXCEPT ![g] = tickets],
                   vertices \cup BornVertices(tickets))
    BY <1>1, <2>1, TicketsJoin
  <2> QED BY <1>2, <2>2
<1>4. IsAcyclic(ParentsAfter(d)) /\ Hangs(ParentsAfter(d), VerticesAfter(d))
  BY <1>1, HierarchyStays
<1>5. Scoped(GroupsAfter(d), DimensionAfter(d), IdentifierAfter(d))
  BY <1>1, <1>2 DEF Scoped, Sound, Numbered, TypeOK
<1>6. \A h \in Group \ GroupsAfter(d) : OwnedAfter(d)[h] = {}
  BY <1>1, <1>2 DEF Sound, Numbered, TypeOK
<1>7. owned[g] = {}
  BY <1>1 DEF Sound
<1> QED BY <1>1, <1>3, <1>4, <1>5, <1>6, <1>7 DEF IsSound, IsJustified

LEMMA UpdateIsSound ==
    ASSUME Numbered, Sound, NEW r \in Request, NEW d, IsUpdate(r, d), r.op = "update"
    PROVE  IsSound(d) /\ IsJustified(r, d)
<1> DEFINE g == r.group
<1>1. g \in groups /\ g \in Group /\ d.group = g
  BY DEF IsUpdate, Numbered, TypeOK
<1>2. d.tickets \in SUBSET Ticket /\ owned[g] \subseteq d.tickets /\ ~OwnershipConflicts(g, d.tickets)
  <2>1. ~OwnershipConflicts(g, owned[g])
    BY <1>1 DEF OwnershipConflicts, Sound, OneOwner
  <2> QED BY <1>1, <2>1, RequestTypes DEF IsUpdate, OwnershipConflicts, Numbered, TypeOK
<1>3. /\ GroupsAfter(d) = groups \cup {g} /\ OwnedAfter(d) = [owned EXCEPT ![g] = d.tickets]
      /\ VerticesAfter(d) = vertices \cup BornVertices(d.tickets)
  <2>1. GroupsAfter(d) = groups \cup {g} /\ VerticesAfter(d) = vertices \cup BornVertices(d.tickets)
    BY <1>1, ConstantsAreTyped DEF IsUpdate, GroupsAfter, VerticesAfter
  <2>2. owned = [owned EXCEPT ![g] = owned[g]]
    BY <1>1 DEF Numbered, TypeOK
  <2> QED BY <1>1, <2>1, <2>2 DEF IsUpdate, OwnedAfter
<1>4. OneOwner(GroupsAfter(d), OwnedAfter(d)) /\ Mirrors(GroupsAfter(d), OwnedAfter(d), VerticesAfter(d))
  BY <1>1, <1>2, <1>3, TicketsJoin
<1>5. IsAcyclic(ParentsAfter(d)) /\ Hangs(ParentsAfter(d), VerticesAfter(d))
  BY HierarchyStays DEF IsUpdate
<1>6. /\ DimensionAfter(d) = [dimension EXCEPT ![g] = d.dimension]
      /\ IdentifierAfter(d) = [identifier EXCEPT ![g] = d.identifier]
  <2>1. dimension = [dimension EXCEPT ![g] = dimension[g]]
        /\ identifier = [identifier EXCEPT ![g] = identifier[g]]
    BY <1>1 DEF Numbered, TypeOK
  <2> QED BY <1>1, <2>1 DEF IsUpdate, DimensionAfter, IdentifierAfter
<1>7. Scoped(GroupsAfter(d), DimensionAfter(d), IdentifierAfter(d))
  BY <1>1, <1>3, <1>6 DEF IsUpdate, Scoped, Sound, Numbered, TypeOK
<1>8. \A h \in Group \ GroupsAfter(d) : OwnedAfter(d)[h] = {}
  BY <1>1, <1>3 DEF Sound, Numbered, TypeOK
<1> QED BY <1>1, <1>2, <1>4, <1>5, <1>7, <1>8 DEF IsSound, IsJustified, IsUpdate

LEMMA ReleaseIsSound ==
    ASSUME Numbered, Sound, NEW r \in Request, NEW d, IsRelease(r, d), r.op = "release"
    PROVE  IsSound(d) /\ IsJustified(r, d)
<1> DEFINE g == r.group
           lost == Released(g, d.tickets)
           V == vertices \ d.gone
<1>1. /\ g \in groups /\ g \in Group /\ d.group = g /\ d.tickets \subseteq owned[g]
      /\ d.gone = {v \in vertices : v.ticket \in lost} /\ d.born = {} /\ d.joined = {} /\ d.cut = {}
  BY DEF IsRelease, GoneVertices, Numbered, TypeOK
<1>2. /\ GroupsAfter(d) = groups /\ OwnedAfter(d) = [owned EXCEPT ![g] = d.tickets]
      /\ VerticesAfter(d) = V
      /\ DimensionAfter(d) = dimension /\ IdentifierAfter(d) = identifier
  BY <1>1 DEF IsRelease, GroupsAfter, OwnedAfter, VerticesAfter, DimensionAfter, IdentifierAfter
<1> DEFINE O == [owned EXCEPT ![g] = d.tickets]
<1>3. O[g] = d.tickets /\ \A h \in Group \ {g} : O[h] = owned[h]
  BY <1>1 DEF Numbered, TypeOK
<1>4. lost = {t \in owned[g] \ d.tickets : \A h \in groups \ {g} : t \notin owned[h]}
  BY DEF Released, OwnersOf
<1> HIDE DEF lost, O
<1>5. OneOwner(groups, O)
  BY <1>1, <1>3 DEF OneOwner, Sound, Numbered, TypeOK
<1>6. \A h \in groups : h \in Group
  BY DEF Numbered, TypeOK
<1>7. \A t \in Ticket : (\E v \in V : v.ticket = t) <=> (\E h \in groups : t \in O[h])
  <2> SUFFICES ASSUME NEW t \in Ticket
               PROVE  (\E v \in V : v.ticket = t) <=> (\E h \in groups : t \in O[h])
    OBVIOUS
  <2>1. (\E v \in vertices : v.ticket = t) <=> (\E h \in groups : t \in owned[h])
    BY DEF Sound, Mirrors
  <2>2. (\E v \in V : v.ticket = t) <=> (\E v \in vertices : v.ticket = t) /\ t \notin lost
    BY <1>1
  <2>3. (\E h \in groups : t \in O[h]) <=> (\E h \in groups : t \in owned[h]) /\ t \notin lost
    BY <1>1, <1>3, <1>4, <1>6 DEF Sound, OneOwner
  <2> QED BY <2>1, <2>2, <2>3
<1>8. Mirrors(groups, O, V)
  BY <1>7 DEF Mirrors, Sound
<1>9. ParentsAfter(d) = {e \in parents : {e.parent, e.child} \cap {v.ticket : v \in d.gone} = {}}
  BY <1>1 DEF ParentsAfter
<1>10. IsAcyclic(ParentsAfter(d))
  BY <1>9, FewerEdges DEF Sound, Numbered, TypeOK
<1>11. Hangs(ParentsAfter(d), V)
  <2>1. \A v \in vertices : v \in V \/ v.ticket \in {u.ticket : u \in d.gone}
    OBVIOUS
  <2>2. \A e \in ParentsAfter(d) : e \in parents /\ \A t \in {e.parent, e.child} :
           t \notin {u.ticket : u \in d.gone}
    BY <1>9
  <2> QED BY <2>1, <2>2 DEF Hangs, Sound
<1>12. \A h \in Group \ groups : O[h] = {}
  BY <1>1, <1>3 DEF Sound
<1>13. owned[d.group] \subseteq d.tickets \cup r.tickets
  BY <1>1 DEF IsRelease
<1>14. d.gone \subseteq vertices
  BY <1>1
<1>15. Scoped(groups, dimension, identifier)
  BY DEF Sound
<1>16. IsSound(d)
  BY <1>2, <1>5, <1>8, <1>10, <1>11, <1>12, <1>15 DEF IsSound, O
<1> QED BY <1>1, <1>13, <1>14, <1>16 DEF IsJustified

LEMMA ReparentingIsSound ==
    ASSUME Numbered, Sound, NEW r \in Request, NEW d, IsReparenting(r, d), r.op = "parent"
    PROVE  IsSound(d) /\ IsJustified(r, d)
<1> DEFINE kept == parents \ ParentEdgesOf(r.child)
<1>1. /\ GroupsAfter(d) = groups /\ OwnedAfter(d) = owned /\ VerticesAfter(d) = vertices
      /\ DimensionAfter(d) = dimension /\ IdentifierAfter(d) = identifier
      /\ ParentsAfter(d) = kept \cup NewParentEdges(r)
  BY DEF IsReparenting, GroupsAfter, OwnedAfter, VerticesAfter, DimensionAfter, IdentifierAfter,
         ParentsAfter
<1>2. kept \in SUBSET parents /\ \A e \in kept : e.child # r.child
  BY DEF ParentEdgesOf
<1>3. IsAcyclic(kept) /\ Hangs(kept, vertices)
  BY <1>2, FewerEdges DEF Sound, Hangs, Numbered, TypeOK
<1>4. IsAcyclic(ParentsAfter(d)) /\ Hangs(ParentsAfter(d), vertices)
  <2>1. CASE r.parent = Nobody
    BY <1>1, <1>3, <2>1 DEF NewParentEdges
  <2>2. CASE r.parent # Nobody
    <3> DEFINE n == [parent |-> r.parent, child |-> r.child, reason |-> r.reason]
    <3>1. n \in ParentEdge /\ ParentsAfter(d) = kept \cup {n} /\ r.child \in Ticket
      BY <1>1, <2>2, RequestTypes DEF NewParentEdges, ParentEdge
    <3>2. n.parent = r.parent /\ n.child = r.child
      OBVIOUS
    <3> HIDE DEF n
    <3>3. r.parent \notin Reachable(r.child, parents)
      BY <2>2 DEF IsReparenting, WouldCycle
    <3>4. parents \in SUBSET ParentEdge
      BY DEF Numbered, TypeOK
    <3>5. Reachable(r.child, kept) \subseteq Reachable(r.child, parents)
      <4>1. /\ Reachable(r.child, parents) \in SUBSET Ticket
            /\ r.child \in Reachable(r.child, parents)
            /\ IsClosed(Reachable(r.child, parents), kept)
        BY <1>2, <3>1, <3>4, ReachableIsClosed DEF IsClosed
      <4> QED BY <3>1, <4>1, ReachableIsLeast
    <3>6. IsAcyclic(kept \cup {n})
      BY <1>2, <1>3, <3>1, <3>2, <3>3, <3>4, <3>5, OneMoreEdge
    <3>7. \A t \in {r.parent, r.child} : \E v \in vertices : v.ticket = t
      BY <2>2 DEF IsReparenting, VerticesOf
    <3>8. Hangs(kept \cup {n}, vertices)
      BY <1>2, <1>3, <3>2, <3>7 DEF Hangs
    <3> QED BY <3>1, <3>6, <3>8
  <2> QED BY <2>1, <2>2
<1>5. IsSound(d)
  BY <1>1, <1>4 DEF IsSound, Sound
<1> QED BY <1>5 DEF IsReparenting, IsJustified

-----------------------------------------------------------------------------
(***************************************************************************)
(* The invariant.                                                          *)
(***************************************************************************)

Kept == Numbered /\ Sound /\ Promised

(* What a draft promises is about the state that it is to replace.         *)
LEMMA PromiseFrame ==
    ASSUME NEW c \in Client,
           UNCHANGED <<groups, owned, dimension, identifier, vertices, parents>>
    PROVE  /\ IsSound(draft[c])' <=> IsSound(draft'[c])
           /\ IsJustified(request[c], draft[c])' <=> IsJustified(request'[c], draft'[c])
<1>1. /\ GroupsAfter(draft[c])' = GroupsAfter(draft'[c])
      /\ OwnedAfter(draft[c])' = OwnedAfter(draft'[c])
      /\ DimensionAfter(draft[c])' = DimensionAfter(draft'[c])
      /\ IdentifierAfter(draft[c])' = IdentifierAfter(draft'[c])
      /\ VerticesAfter(draft[c])' = VerticesAfter(draft'[c])
      /\ ParentsAfter(draft[c])' = ParentsAfter(draft'[c])
  BY DEF GroupsAfter, OwnedAfter, DimensionAfter, IdentifierAfter, VerticesAfter, ParentsAfter
<1>2. \A t : ParentEdgesOf(t)' = ParentEdgesOf(t) /\ ParentOf(t)' = ParentOf(t)
  BY DEF ParentEdgesOf, ParentOf
<1>3. IsSound(draft[c])' <=> IsSound(draft'[c])
  BY <1>1 DEF IsSound
<1>4. /\ ParentEdgesOf(request[c].child)' = ParentEdgesOf(request'[c].child)
      /\ ParentOf(request[c].child)' = ParentOf(request'[c].child)
      /\ NewParentEdges(request[c])' = NewParentEdges(request'[c])
  BY DEF ParentEdgesOf, ParentOf, NewParentEdges
<1>5. IsJustified(request[c], draft[c])' <=> IsJustified(request'[c], draft'[c])
  BY <1>4 DEF IsJustified
<1> QED BY <1>3, <1>5

LEMMA WriteKeepsPromises ==
    ASSUME Kept, NEW c \in Client, Writes(c)
    PROVE  (Sound /\ Promised)'
<1> USE DEF Kept
<1>1. UNCHANGED <<groups, owned, dimension, identifier, vertices, parents, request>>
  BY DEF Writes, tables, graph
<1>2. Sound'
  BY <1>1 DEF Sound
<1>3. ASSUME request[c].op # "refer"
      PROVE  IsSound(draft'[c]) /\ IsJustified(request[c], draft'[c])
  <2>1. pc'[c] = "written" /\ request[c] \in Request
    BY DEF Writes, Numbered, IsDisciplined
  <2>2. CASE ResolveGroup(c)
    BY <2>1, <2>2, ResolveWrites, CreationIsSound
  <2>3. CASE UpdateGroup(c)
    BY <2>1, <2>3, UpdateWrites, UpdateIsSound
  <2>4. CASE Release(c)
    BY <2>1, <2>4, ReleaseWrites, ReleaseIsSound
  <2>5. CASE ChangeParent(c)
    BY <2>1, <2>5, ChangeWrites, ReparentingIsSound
  <2> QED BY <1>3, <2>2, <2>3, <2>4, <2>5 DEF Writes
<1>4. ASSUME NEW u \in Client, pc'[u] = "written", request[u].op # "refer"
      PROVE  (IsSound(draft[u]) /\ IsJustified(request[u], draft[u]))'
  <2>1. IsSound(draft'[u]) /\ IsJustified(request[u], draft'[u])
    <3>1. CASE u = c
      BY <1>3, <1>4, <3>1
    <3>2. CASE u # c
      BY <1>4, <3>2 DEF Promised, Writes, Others
    <3> QED BY <3>1, <3>2
  <2> QED BY <1>1, <2>1, PromiseFrame
<1> QED BY <1>1, <1>2, <1>4 DEF Promised

LEMMA PassKeepsPromises ==
    ASSUME Kept, NEW c \in Client, Passes(c)
    PROVE  (Sound /\ Promised)'
<1>1. UNCHANGED <<groups, owned, dimension, identifier, vertices, parents>>
  BY DEF Passes, graph
<1>2. Sound'
  BY <1>1 DEF Kept, Sound
<1>3. ASSUME NEW u \in Client, pc'[u] = "written", request'[u].op # "refer"
      PROVE  (IsSound(draft[u]) /\ IsJustified(request[u], draft[u]))'
  <2>1. u \in Others(c) /\ request'[u] = request[u] /\ draft'[u] = draft[u] /\ pc[u] = "written"
    BY <1>3 DEF Passes, Others
  <2>2. IsSound(draft'[u]) /\ IsJustified(request'[u], draft'[u])
    BY <1>3, <2>1 DEF Kept, Promised
  <2> QED BY <1>1, <2>2, PromiseFrame
<1> QED BY <1>2, <1>3 DEF Promised

LEMMA CommitReplaces ==
    ASSUME NEW c \in Client, Commit(c)
    PROVE  /\ groups' = GroupsAfter(draft[c]) /\ owned' = OwnedAfter(draft[c])
           /\ dimension' = DimensionAfter(draft[c]) /\ identifier' = IdentifierAfter(draft[c])
           /\ vertices' = VerticesAfter(draft[c]) /\ parents' = ParentsAfter(draft[c])
BY DEF Commit, GroupsAfter, OwnedAfter, DimensionAfter, IdentifierAfter, VerticesAfter, ParentsAfter

(* A writer of references commits nothing that the promises are about.     *)
LEMMA ReferenceCommit ==
    ASSUME NEW c \in Client, Commit(c), TouchesNoTicket(draft[c])
    PROVE  UNCHANGED <<groups, owned, dimension, identifier, vertices, parents>>
<1>1. /\ GroupsAfter(draft[c]) = groups /\ OwnedAfter(draft[c]) = owned
      /\ DimensionAfter(draft[c]) = dimension /\ IdentifierAfter(draft[c]) = identifier
      /\ VerticesAfter(draft[c]) = vertices
  BY DEF TouchesNoTicket, GroupsAfter, OwnedAfter, DimensionAfter, IdentifierAfter, VerticesAfter
<1>2. ParentsAfter(draft[c]) = parents
  BY DEF TouchesNoTicket, ParentsAfter
<1> QED BY <1>1, <1>2, CommitReplaces

LEMMA CommitKeepsPromises ==
    ASSUME Kept, NEW c \in Client, Commit(c)
    PROVE  (Sound /\ Promised)'
<1> USE DEF Kept
<1>1. /\ pc[c] = "written" /\ pc'[c] = "idle" /\ TypeOK
      /\ \A u \in Others(c) : pc'[u] = pc[u] /\ request'[u] = request[u] /\ draft'[u] = draft[u]
  BY CommitEffect DEF Numbered
<1>2. CASE request[c].op = "refer"
  <2>1. UNCHANGED <<groups, owned, dimension, identifier, vertices, parents>>
    BY <1>1, <1>2, ReferenceCommit DEF Numbered, IsDisciplined
  <2>2. Sound'
    BY <2>1 DEF Sound
  <2>3. ASSUME NEW u \in Client, pc'[u] = "written", request'[u].op # "refer"
        PROVE  (IsSound(draft[u]) /\ IsJustified(request[u], draft[u]))'
    <3>1. u \in Others(c)
      BY <1>1, <2>3 DEF Others
    <3>2. IsSound(draft'[u]) /\ IsJustified(request'[u], draft'[u])
      BY <1>1, <2>3, <3>1 DEF Promised
    <3> QED BY <2>1, <3>2, PromiseFrame
  <2> QED BY <2>2, <2>3 DEF Promised
<1>3. CASE request[c].op # "refer"
  <2>1. IsSound(draft[c])
    BY <1>1, <1>3 DEF Promised
  <2>2. Sound'
    BY <2>1, CommitReplaces DEF IsSound, Sound
  <2>3. ASSUME NEW u \in Client, pc'[u] = "written", request'[u].op # "refer"
        PROVE  FALSE
    <3>1. u \in Others(c) /\ u # c /\ pc[u] = "written" /\ request[u].op # "refer"
      BY <1>1, <2>3 DEF Others
    <3> QED BY <1>1, <1>3, <3>1, LocksExclude
  <2> QED BY <2>2, <2>3 DEF Promised
<1> QED BY <1>2, <1>3

LEMMA InitKept == Init => Kept
<1> SUFFICES ASSUME Init PROVE Kept
  OBVIOUS
<1>1. OneOwner(groups, owned)
  BY ConstantsAreTyped DEF Init, OneOwner
<1>2. Mirrors(groups, owned, vertices)
  <2>1. \A g \in groups : g \in Group /\ owned[g] = Seed[g]
    BY ConstantsAreTyped DEF Init
  <2>2. ASSUME NEW v \in vertices
        PROVE  v = [ticket |-> v.ticket, id |-> 0] /\ \E g \in groups : v.ticket \in Seed[g]
    <3>1. PICK t \in UNION {Seed[g] : g \in DOMAIN Seed} : v = [ticket |-> t, id |-> 0]
      BY DEF Init
    <3>2. v.ticket = t
      BY <3>1
    <3> QED BY <3>1, <3>2 DEF Init
  <2>3. \A g \in groups : \A t \in Seed[g] : [ticket |-> t, id |-> 0] \in vertices
    BY DEF Init
  <2>4. \A t \in Ticket : (\E v \in vertices : v.ticket = t) <=> (\E g \in groups : t \in owned[g])
    <3>1. ASSUME NEW g \in groups, NEW t \in owned[g] PROVE \E v \in vertices : v.ticket = t
      <4>1. [ticket |-> t, id |-> 0] \in vertices
        BY <2>1, <2>3
      <4> QED BY <4>1
    <3>2. ASSUME NEW v \in vertices PROVE \E g \in groups : v.ticket \in owned[g]
      BY <2>1, <2>2
    <3> QED BY <3>1, <3>2
  <2>5. \A u, v \in vertices : u.ticket = v.ticket => u = v
    BY <2>2
  <2> QED BY <2>4, <2>5 DEF Mirrors
<1>3. IsAcyclic(parents) /\ Hangs(parents, vertices)
  BY DEF Init, IsAcyclic, Hangs
<1>4. Scoped(groups, dimension, identifier) /\ \A g \in Group \ groups : owned[g] = {}
  BY ConstantsAreTyped DEF Init, Scoped
<1>5. Promised
  BY DEF Init, Promised
<1> QED BY <1>1, <1>2, <1>3, <1>4, <1>5, InitNumbered DEF Kept, Sound

LEMMA KeptStep == Kept /\ [Next]_vars => Kept'
<1> SUFFICES ASSUME Kept, [Next]_vars PROVE Kept'
  OBVIOUS
<1>1. Numbered'
  BY NumberedStep DEF Kept
<1>2. CASE UNCHANGED vars
  <2>1. UNCHANGED <<groups, owned, dimension, identifier, vertices, parents, pc, request, draft>>
    BY <1>2 DEF vars, tables, graph
  <2>2. Sound'
    BY <2>1 DEF Kept, Sound
  <2>3. \A u \in Client : pc'[u] = "written" /\ request'[u].op # "refer" =>
           (IsSound(draft[u]) /\ IsJustified(request[u], draft[u]))'
    BY <2>1, PromiseFrame DEF Kept, Promised
  <2> QED BY <1>1, <2>2, <2>3 DEF Kept, Promised
<1>3. ASSUME NEW c \in Client, Submit(c) \/ Serve(c) \/ Interrupt(c)
      PROVE  Kept'
  BY <1>1, <1>3, StepKinds, WriteKeepsPromises, PassKeepsPromises, CommitKeepsPromises DEF Kept
<1> QED BY <1>2, <1>3 DEF Next, AllSent

LEMMA AlwaysKept == Spec => []Kept
BY InitKept, KeptStep, PTL DEF Spec

-----------------------------------------------------------------------------
(***************************************************************************)
(* Theorems.                                                               *)
(***************************************************************************)

(* ResolveGroup and UpdateGroup never give a ticket a second owner, for    *)
(* any number of concurrent requests: the ownership check and the write    *)
(* are under one lock that is held until the commit.                       *)
THEOREM OneOwnerForEachTicket == Spec => []TicketsHaveOneOwner
<1>1. Kept => TicketsHaveOneOwner
  BY DEF Kept, Sound, OneOwner, TicketsHaveOneOwner
<1> QED BY AlwaysKept, <1>1, PTL

(* The membership trigger keeps the vertices of the graph and the ticket   *)
(* arrays in step.                                                         *)
THEOREM OneVertexForEachOwnedTicket == Spec => []VerticesMirrorOwnership
<1>1. Kept => VerticesMirrorOwnership
  <2> SUFFICES ASSUME Kept PROVE VerticesMirrorOwnership
    OBVIOUS
  <2>1. \A v \in vertices : v.ticket \in Ticket
    BY DEF Kept, Numbered, TypeOK, Vertex
  <2>2. \A g \in groups : owned[g] \subseteq Ticket
    BY DEF Kept, Numbered, TypeOK
  <2>3. \A t \in Ticket : (\E v \in vertices : v.ticket = t) <=> (\E g \in groups : t \in owned[g])
    BY DEF Kept, Sound, Mirrors
  <2>4. {v.ticket : v \in vertices} \subseteq UNION {owned[g] : g \in groups}
    BY <2>1, <2>3
  <2>5. UNION {owned[g] : g \in groups} \subseteq {v.ticket : v \in vertices}
    BY <2>2, <2>3
  <2> QED BY <2>4, <2>5 DEF Kept, Sound, Mirrors, VerticesMirrorOwnership
<1> QED BY AlwaysKept, <1>1, PTL

(* Concurrent declarations of parents, and releases, leave a forest: the   *)
(* cycle check and the new edge are under the lock that every other change *)
(* of the hierarchy takes.                                                 *)
THEOREM HierarchyStaysAForest == Spec => []HierarchyIsAForest
<1>1. Kept => HierarchyIsAForest
  <2> SUFFICES ASSUME Kept PROVE HierarchyIsAForest
    OBVIOUS
  <2>1. \A e \in parents : {e.parent, e.child} \subseteq {v.ticket : v \in vertices}
    BY DEF Kept, Sound, Hangs
  <2>2. \A d, e \in parents : d.child = e.child => d = e
    BY DEF Kept, Sound, Hangs
  <2>3. \A e \in parents : e.parent \notin Reachable(e.child, parents)
    BY DEF Kept, Sound, IsAcyclic
  <2> QED BY <2>1, <2>2, <2>3 DEF HierarchyIsAForest
<1> QED BY AlwaysKept, <1>1, PTL

(* UpdateGroup writes one of the two scope columns at a time, and still no *)
(* customer scope loses its identifier.                                    *)
THEOREM ScopesStayIdentified == Spec => []ScopesAreIdentified
<1>1. Kept => ScopesAreIdentified
  BY DEF Kept, Sound, Scoped, ScopesAreIdentified
<1> QED BY AlwaysKept, <1>1, PTL

(* Only a step that commits changes owners or edges.                       *)
LEMMA OnlyCommitChanges ==
    ASSUME Kept, [Next]_vars
    PROVE  \/ UNCHANGED <<owned, parents, vertices>>
           \/ \E c \in Client : /\ Commit(c) /\ request[c] \in Request /\ request[c].op # "refer"
                               /\ IsJustified(request[c], draft[c])
<1>1. CASE UNCHANGED vars
  BY <1>1 DEF vars, tables, graph
<1>2. ASSUME NEW c \in Client, Passes(c) \/ Writes(c)
      PROVE  UNCHANGED <<owned, parents, vertices>>
  BY <1>2 DEF Passes, Writes, tables, graph
<1>3. ASSUME NEW c \in Client, Commit(c)
      PROVE  \/ UNCHANGED <<owned, parents, vertices>>
             \/ request[c] \in Request /\ request[c].op # "refer" /\ IsJustified(request[c], draft[c])
  <2>1. pc[c] = "written" /\ request[c] \in Request
    BY <1>3 DEF Commit, At, Kept, Numbered, IsDisciplined
  <2>2. request[c].op = "refer" => TouchesNoTicket(draft[c])
    BY <2>1 DEF Kept, Numbered, IsDisciplined
  <2> QED BY <1>3, <2>1, <2>2, ReferenceCommit DEF Kept, Promised
<1>4. ASSUME NEW c \in Client, Submit(c) \/ Serve(c) \/ Interrupt(c)
      PROVE  Passes(c) \/ Writes(c) \/ Commit(c)
  BY <1>4, StepKinds DEF Kept
<1> QED BY <1>1, <1>2, <1>3, <1>4 DEF Next, AllSent

(* No concurrent merge is lost: UpdateGroup writes the whole array, but    *)
(* what it has read is still there when it commits.                        *)
THEOREM NoMergeIsLost == Spec => TicketsOnlyAccumulate
<1> DEFINE A == \A g \in Group : \A t \in owned[g] \ owned'[g] :
                  \E c \in Client : /\ request[c] # Nobody /\ request[c].op = "release"
                                    /\ request[c].group = g /\ t \in request[c].tickets
<1>1. Kept /\ [Next]_vars => [A]_vars
  <2> SUFFICES ASSUME Kept, [Next]_vars, NEW g \in Group, NEW t \in owned[g] \ owned'[g]
               PROVE  \E c \in Client : /\ request[c] # Nobody /\ request[c].op = "release"
                                        /\ request[c].group = g /\ t \in request[c].tickets
    OBVIOUS
  <2>1. PICK c \in Client : /\ Commit(c) /\ request[c] \in Request /\ request[c].op # "refer"
                            /\ IsJustified(request[c], draft[c])
    BY OnlyCommitChanges
  <2>2. owned' = OwnedAfter(draft[c])
    BY <2>1, CommitReplaces
  <2>3. "tickets" \in draft[c].writes /\ draft[c].group = g /\ t \notin draft[c].tickets
    BY <2>2 DEF OwnedAfter, Kept, Numbered, TypeOK
  <2>4. request[c].op = "release" /\ request[c].group = g /\ t \in request[c].tickets
    BY <2>1, <2>3 DEF IsJustified
  <2>5. pc[c] = "written" /\ request[c] # Nobody
    BY <2>1, ConstantsAreTyped DEF Commit, At
  <2> QED BY <2>4, <2>5
<1> QED BY AlwaysKept, <1>1, PTL DEF Spec, TicketsOnlyAccumulate

ParentIn(edges) == IF edges = {} THEN Nobody ELSE (CHOOSE e \in edges : TRUE).parent

(* A ticket whose parent changes has other edges.                          *)
LEMMA ParentFollowsEdges ==
    ASSUME NEW t, ParentOf(t)' # ParentOf(t)
    PROVE  ParentEdgesOf(t)' # ParentEdgesOf(t)
<1>1. ParentOf(t) = ParentIn(ParentEdgesOf(t)) /\ ParentOf(t)' = ParentIn(ParentEdgesOf(t)')
  BY DEF ParentOf, ParentIn
<1> QED BY <1>1

(* The parent of a ticket that another request has set is never replaced   *)
(* by one that expected something else, and only a release takes it away.  *)
THEOREM ParentsChangeAsExpected == Spec => ParentChangesAreExpected
<1> DEFINE A == \A t \in Ticket : ParentOf(t)' # ParentOf(t) =>
          \/ \E c \in Client : /\ request[c] # Nobody /\ request[c].op = "parent"
                               /\ request[c].child = t
                               /\ request[c].expected = ParentOf(t)
                               /\ request[c].parent = ParentOf(t)'
          \/ \E v \in vertices \ vertices' : v.ticket \in {t, ParentOf(t)}
<1>1. Kept /\ [Next]_vars => [A]_vars
  <2> SUFFICES ASSUME Kept, [Next]_vars, NEW t \in Ticket, ParentOf(t)' # ParentOf(t)
               PROVE  \/ \E c \in Client : /\ request[c] # Nobody /\ request[c].op = "parent"
                                           /\ request[c].child = t
                                           /\ request[c].expected = ParentOf(t)
                                           /\ request[c].parent = ParentOf(t)'
                      \/ \E v \in vertices \ vertices' : v.ticket \in {t, ParentOf(t)}
    OBVIOUS
  <2>1. parents' # parents
    <3>1. ParentEdgesOf(t)' # ParentEdgesOf(t)
      BY ParentFollowsEdges
    <3> QED BY <3>1 DEF ParentEdgesOf
  <2>2. PICK c \in Client : /\ Commit(c) /\ request[c] \in Request /\ request[c].op # "refer"
                            /\ IsJustified(request[c], draft[c])
    BY <2>1, OnlyCommitChanges
  <2> DEFINE r == request[c]
             d == draft[c]
  <2>3. parents' = ParentsAfter(d) /\ vertices' = VerticesAfter(d)
    BY <2>2, CommitReplaces
  <2>4. CASE r.op = "parent"
    <3>1. /\ d.gone = {} /\ d.cut = ParentEdgesOf(r.child) /\ d.joined = NewParentEdges(r)
          /\ ParentOf(r.child) = r.expected
      BY <2>2, <2>4 DEF IsJustified
    <3>2. parents' = (parents \ ParentEdgesOf(r.child)) \cup NewParentEdges(r)
      BY <2>3, <3>1 DEF ParentsAfter
    <3>3. \A e \in NewParentEdges(r) : e.child = r.child
      BY DEF NewParentEdges
    <3>4. t = r.child
      <4>1. ParentEdgesOf(t)' # ParentEdgesOf(t)
        BY ParentFollowsEdges
      <4> QED BY <3>2, <3>3, <4>1 DEF ParentEdgesOf
    <3>5. ParentEdgesOf(t)' = NewParentEdges(r)
      BY <3>2, <3>3, <3>4 DEF ParentEdgesOf
    <3>6. ParentOf(t)' = r.parent
      <4>1. CASE r.parent = Nobody
        BY <3>5, <4>1 DEF NewParentEdges, ParentOf
      <4>2. CASE r.parent # Nobody
        <5> DEFINE e == [parent |-> r.parent, child |-> r.child, reason |-> r.reason]
        <5>1. ParentEdgesOf(t)' = {e}
          BY <3>5, <4>2 DEF NewParentEdges
        <5>2. ParentOf(t)' = (CHOOSE x \in {e} : TRUE).parent
          BY <5>1 DEF ParentOf
        <5>3. (CHOOSE x \in {e} : TRUE) = e
          OBVIOUS
        <5> QED BY <5>2, <5>3
      <4> QED BY <4>1, <4>2
    <3>7. r # Nobody
      BY <2>2, ConstantsAreTyped
    <3> QED BY <2>4, <3>1, <3>4, <3>6, <3>7
  <2>5. CASE r.op # "parent"
    <3>1. d.cut = {} /\ d.joined = {} /\ d.gone \subseteq vertices /\ d.gone \cap d.born = {}
      BY <2>2, <2>5 DEF IsJustified
    <3>2. parents' = {e \in parents : {e.parent, e.child} \cap {v.ticket : v \in d.gone} = {}}
      BY <2>3, <3>1 DEF ParentsAfter
    <3>3. ParentEdgesOf(t)' # ParentEdgesOf(t)
      BY ParentFollowsEdges
    <3>4. PICK e \in ParentEdgesOf(t) : e \notin ParentEdgesOf(t)'
      BY <3>2, <3>3 DEF ParentEdgesOf
    <3>5. PICK v \in d.gone : v.ticket \in {e.parent, e.child}
      BY <3>2, <3>4 DEF ParentEdgesOf
    <3>6. e.child = t /\ ParentEdgesOf(t) = {e}
      BY <3>4 DEF ParentEdgesOf, Kept, Sound, Hangs
    <3>7. ParentOf(t) = e.parent
      <4>1. (CHOOSE x \in {e} : TRUE) = e
        OBVIOUS
      <4> QED BY <3>6, <4>1 DEF ParentOf
    <3>8. v \in vertices \ vertices'
      BY <2>3, <3>1 DEF VerticesAfter
    <3> QED BY <3>5, <3>6, <3>7, <3>8
  <2> QED BY <2>4, <2>5
<1> QED BY AlwaysKept, <1>1, PTL DEF Spec, ParentChangesAreExpected

-----------------------------------------------------------------------------
(***************************************************************************)
(* References to the tickets of other groups.  Owners are read before the  *)
(* lock is taken; what keeps the check valid is that an owner stays one.   *)
(***************************************************************************)

HasForeignOwner(m, t) == OwnersOf(t) # {} /\ HomeOf[m] \notin OwnersOf(t)

(* The references there are, those of a transaction that has written them, *)
(* and those that were planned.                                            *)
Foreign ==
    /\ \A a \in abouts : HasForeignOwner(a.memory, a.to.ticket)
    /\ \A c \in Client : pc[c] = "written" =>
          \A a \in draft[c].abouts : HasForeignOwner(a.memory, a.to.ticket)
    /\ \A c \in Client : pc[c] = "planned" =>
          \A m \in request[c].memories, t \in request[c].tickets : HasForeignOwner(m, t)

(* Nobody asks for the release of a ticket.                                *)
NothingIsReleased == \A r \in Request : r.op # "release"

(* Groups stay, and without a release so do their tickets.                 *)
LEMMA OwnersStay ==
    ASSUME Kept, [Next]_vars, NothingIsReleased
    PROVE  /\ groups \subseteq groups'
           /\ \A g \in Group : owned[g] \subseteq owned'[g]
<1>1. CASE UNCHANGED vars
  BY <1>1 DEF vars, tables
<1>2. ASSUME NEW c \in Client, Passes(c) \/ Writes(c)
      PROVE  UNCHANGED <<groups, owned>>
  BY <1>2 DEF Passes, Writes, tables
<1>3. ASSUME NEW c \in Client, Commit(c)
      PROVE  groups \subseteq groups'
  BY <1>3 DEF Commit
<1>4. groups \subseteq groups'
  <2>1. ASSUME NEW c \in Client, Submit(c) \/ Serve(c) \/ Interrupt(c)
        PROVE  Passes(c) \/ Writes(c) \/ Commit(c)
    BY <2>1, StepKinds DEF Kept
  <2> QED BY <1>1, <1>2, <1>3, <2>1 DEF Next, AllSent
<1>5. ASSUME NEW c \in Client, Commit(c), request[c] \in Request, IsJustified(request[c], draft[c]),
             NEW g \in Group
      PROVE  owned[g] \subseteq owned'[g]
  <2>1. owned' = OwnedAfter(draft[c]) /\ owned \in [Group -> SUBSET Ticket]
    BY <1>5, CommitReplaces DEF Kept, Numbered, TypeOK
  <2>2. "tickets" \in draft[c].writes => owned[draft[c].group] \subseteq draft[c].tickets
    BY <1>5 DEF IsJustified, NothingIsReleased
  <2> QED BY <2>1, <2>2 DEF OwnedAfter
<1> QED BY <1>4, <1>5, OnlyCommitChanges

(* So a ticket with an owner keeps it, and gets no other.                  *)
LEMMA ForeignOwnersStay ==
    ASSUME Kept, Kept', [Next]_vars, NothingIsReleased,
           NEW m, NEW t, HasForeignOwner(m, t)
    PROVE  HasForeignOwner(m, t)'
<1>1. PICK g \in groups : t \in owned[g] /\ HomeOf[m] # g
  BY DEF HasForeignOwner, OwnersOf
<1>2. g \in groups' /\ t \in owned'[g]
  BY <1>1, OwnersStay DEF Kept, Numbered, TypeOK
<1>3. \A h \in groups' : t \in owned'[h] => h = g
  BY <1>2 DEF Kept, Sound, OneOwner
<1>4. {h \in groups' : t \in owned'[h]} = {g}
  BY <1>2, <1>3
<1> QED BY <1>1, <1>4 DEF HasForeignOwner, OwnersOf

(* What the transactions that change groups write refers to nothing.       *)
LEMMA GroupWritersReferToNothing ==
    ASSUME TypeOK, NEW c \in Client, pc'[c] = "written",
           ResolveGroup(c) \/ UpdateGroup(c) \/ Release(c) \/ ChangeParent(c)
    PROVE  draft'[c].abouts = {}
<1> DEFINE r == request[c]
<1>1. \A a : ~TurnBack(c, "tickets", a)
  BY RefuseEffect DEF TurnBack
<1>2. ASSUME NEW d, Write(c, "tickets", d), d.abouts = {}
      PROVE  draft'[c].abouts = {}
  BY <1>2, WriteEffect DEF Lock
<1>3. CASE ResolveGroup(c)
  <2> DEFINE D(g, tickets) == [NoDraft EXCEPT
                   !.group = g, !.writes = {"tickets", "dimension", "identifier"},
                   !.tickets = tickets, !.born = BornVertices(tickets),
                   !.dimension = IF r.dimension = Nobody THEN "product" ELSE r.dimension,
                   !.identifier = IF r.identifier = Nobody THEN "blank" ELSE r.identifier,
                   !.descriptions = IF r.named THEN {[group |-> g, version |-> 1, by |-> c]} ELSE {}]
  <2>1. \E g, tickets : Write(c, "tickets", D(g, tickets))
    BY <1>1, <1>3 DEF ResolveGroup
  <2>2. \A g, tickets : D(g, tickets).abouts = {}
    BY DEF NoDraft
  <2> HIDE DEF D
  <2> QED BY <1>2, <2>1, <2>2
<1>4. CASE UpdateGroup(c)
  <2> DEFINE tickets == owned[r.group] \cup r.tickets
             columns == (IF tickets # owned[r.group] THEN {"tickets"} ELSE {})
                     \cup (IF NewDimension(r) # dimension[r.group] THEN {"dimension"} ELSE {})
                     \cup (IF NewIdentifier(r) # identifier[r.group] THEN {"identifier"} ELSE {})
             D == [NoDraft EXCEPT
               !.group = r.group, !.tickets = tickets, !.born = BornVertices(tickets),
               !.dimension = NewDimension(r), !.identifier = NewIdentifier(r),
               !.writes = columns]
  <2>1. Write(c, "tickets", D)
    BY <1>1, <1>4 DEF UpdateGroup
  <2>2. D.abouts = {}
    BY DEF NoDraft
  <2> HIDE DEF D
  <2> QED BY <1>2, <2>1, <2>2
<1>5. CASE Release(c)
  <2> DEFINE tickets == owned[r.group] \ r.tickets
             D == [NoDraft EXCEPT !.group = r.group, !.writes = {"tickets"}, !.tickets = tickets,
                                  !.gone = GoneVertices(r.group, tickets)]
  <2>1. Write(c, "tickets", D)
    BY <1>1, <1>5 DEF Release
  <2>2. D.abouts = {}
    BY DEF NoDraft
  <2> HIDE DEF D
  <2> QED BY <1>2, <2>1, <2>2
<1>6. CASE ChangeParent(c)
  <2> DEFINE D == [NoDraft EXCEPT !.cut = ParentEdgesOf(r.child), !.joined = NewParentEdges(r)]
  <2>1. Write(c, "tickets", D)
    BY <1>1, <1>6 DEF ChangeParent
  <2>2. D.abouts = {}
    BY DEF NoDraft
  <2> HIDE DEF D
  <2> QED BY <1>2, <2>1, <2>2
<1> QED BY <1>3, <1>4, <1>5, <1>6

(* The draft of references stands for the pairs that were planned.         *)
LEMMA ReferencesArePlanned ==
    ASSUME TypeOK, NEW c \in Client, WriteReferences(c), pc'[c] = "written"
    PROVE  \A a \in draft'[c].abouts :
             a.memory \in request[c].memories /\ a.to.ticket \in request[c].tickets
<1> DEFINE new == UNION {{[memory |-> p[1], to |-> v] : v \in VerticesOf(p[2])} :
                            p \in MissingPairs(request[c])}
<1>1. \A a : ~TurnBack(c, "graph", a)
  BY RefuseEffect DEF TurnBack
<1>2. Write(c, "graph", [NoDraft EXCEPT !.abouts = new])
  BY <1>1 DEF WriteReferences
<1>3. draft'[c] = [NoDraft EXCEPT !.abouts = new]
  BY <1>2, WriteEffect DEF Lock
<1> HIDE DEF new
<1>4. draft'[c].abouts = new
  BY <1>3 DEF NoDraft
<1> SUFFICES ASSUME NEW a \in new
             PROVE  a.memory \in request[c].memories /\ a.to.ticket \in request[c].tickets
  BY <1>4
<1>5. PICK p \in MissingPairs(request[c]) :
           \E v \in VerticesOf(p[2]) : a = [memory |-> p[1], to |-> v]
  BY DEF new
<1>6. PICK v \in VerticesOf(p[2]) : a = [memory |-> p[1], to |-> v]
  BY <1>5
<1>7. p[1] \in request[c].memories /\ p[2] \in request[c].tickets
  BY <1>5 DEF MissingPairs
<1> QED BY <1>6, <1>7 DEF VerticesOf

(* A plan is made of references to the tickets of other groups.            *)
LEMMA PlansAreForeign ==
    ASSUME NEW c \in Client, pc'[c] = "planned", TypeOK, PlanReferences(c)
    PROVE  /\ request'[c] = request[c]
           /\ \A m \in request[c].memories, t \in request[c].tickets : HasForeignOwner(m, t)
<1>1. \A a : ~Refuse(c, a)
  BY RefuseEffect
<1>2. ReferenceError(request[c]) = "none" /\ request' = request
  BY <1>1 DEF PlanReferences
<1> QED BY <1>2 DEF ReferenceError, HasForeignOwner

(* Where the client that takes a step gets to.                             *)
LEMMA StepOfOne ==
    ASSUME Numbered, NEW c \in Client, Submit(c) \/ Serve(c) \/ Interrupt(c)
    PROVE  /\ pc'[c] = "planned" => PlanReferences(c)
           /\ pc'[c] = "written" =>
                \/ ResolveGroup(c) \/ UpdateGroup(c) \/ Release(c) \/ ChangeParent(c)
                \/ WriteReferences(c)
<1>1. TypeOK
  BY DEF Numbered
<1>2. CASE Submit(c) \/ Interrupt(c) \/ Commit(c) \/ InsertDescription(c) \/ AppendDescription(c)
  BY <1>1, <1>2 DEF Submit, Interrupt, Commit, InsertDescription, AppendDescription, Refuse,
                    Finish, TypeOK
<1>3. CASE PlanReferences(c)
  BY <1>1, <1>3 DEF PlanReferences, Refuse, Finish, TypeOK
<1>4. CASE ResolveGroup(c) \/ UpdateGroup(c) \/ Release(c) \/ ChangeParent(c) \/ WriteReferences(c)
  BY <1>4, WritesOrPasses DEF Writes
<1> QED BY <1>2, <1>3, <1>4 DEF Serve

LEMMA ForeignStep ==
    ASSUME Kept, Kept', Foreign, [Next]_vars, NothingIsReleased
    PROVE  Foreign'
<1>1. \A m, t : HasForeignOwner(m, t) => HasForeignOwner(m, t)'
  BY ForeignOwnersStay
<1>2. CASE UNCHANGED vars
  BY <1>1, <1>2 DEF vars, graph, Foreign
<1>3. ASSUME NEW c \in Client, Submit(c) \/ Serve(c) \/ Interrupt(c)
      PROVE  Foreign'
  <2>1. Numbered /\ TypeOK
    BY DEF Kept, Numbered
  <2>2. Passes(c) \/ Writes(c) \/ Commit(c)
    BY <1>3, <2>1, StepKinds
  <2>3. \A u \in Others(c) : /\ pc'[u] = pc[u] /\ draft'[u] = draft[u]
                             /\ request'[u] = request[u]
    BY <2>1, <2>2, CommitEffect DEF Passes, Writes
  <2>4. abouts' \subseteq abouts \cup (IF pc[c] = "written" THEN draft[c].abouts ELSE {})
    BY <2>2 DEF Passes, Writes, Commit, At, graph
  <2>5. pc'[c] = "written" => \A a \in draft'[c].abouts : HasForeignOwner(a.memory, a.to.ticket)
    <3>1. CASE WriteReferences(c)
      BY <2>1, <3>1, ReferencesArePlanned DEF WriteReferences, At, Foreign
    <3> QED BY <1>3, <2>1, <3>1, StepOfOne, GroupWritersReferToNothing
  <2>6. pc'[c] = "planned" => \A m \in request'[c].memories, t \in request'[c].tickets :
                                HasForeignOwner(m, t)
    BY <1>3, <2>1, StepOfOne, PlansAreForeign
  <2>7. \A a \in abouts' : HasForeignOwner(a.memory, a.to.ticket)
    BY <2>4 DEF Foreign
  <2>8. \A u \in Client : pc'[u] = "written" =>
           \A a \in draft'[u].abouts : HasForeignOwner(a.memory, a.to.ticket)
    BY <2>3, <2>5 DEF Foreign, Others
  <2>9. \A u \in Client : pc'[u] = "planned" =>
           \A m \in request'[u].memories, t \in request'[u].tickets : HasForeignOwner(m, t)
    BY <2>3, <2>6 DEF Foreign, Others
  <2> QED BY <1>1, <2>7, <2>8, <2>9 DEF Foreign
<1> QED BY <1>2, <1>3 DEF Next, AllSent

(* As long as nobody releases a ticket, no memory refers to a ticket of    *)
(* its own group.  PlanReferences compares owners and homes before its     *)
(* transaction opens, and any number of merges may commit in between; they *)
(* only give owners to tickets that had none.                              *)
THEOREM NoReferenceComesHome ==
    ASSUME NothingIsReleased
    PROVE  Spec => []ReferencesStayForeign
<1>1. Init => Foreign
  BY DEF Init, Foreign
<1>2. Kept /\ Kept' /\ Foreign /\ [Next]_vars => Foreign'
  BY ForeignStep
<1>3. Foreign => ReferencesStayForeign
  BY DEF Foreign, HasForeignOwner, ReferencesStayForeign
<1> QED BY <1>1, <1>2, <1>3, AlwaysKept, PTL DEF Spec

=============================================================================
