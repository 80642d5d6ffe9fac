------------------------------ MODULE MCDossier -----------------------------
(* Three memories, one of them selected in two versions, with every        *)
(* combination of four provenance edges; one more is captured later.       *)
EXTENDS Dossier, TLC

MCAffinity == ("none" :> {} @@ "architecture" :> {"decision"})
Item(u, v, from, kind, status, scope, condition) ==
  [uuid |-> u, version |-> v, validFrom |-> from, createdOn |-> v, validUntil |-> 0,
   kind |-> kind, status |-> status, scope |-> scope, sources |-> {}, weak |-> FALSE,
   conditions |-> {condition}]
Late(u, condition) == [Item(u, 1, 2, "rule", "approved", "product", condition) EXCEPT !.validUntil = 1]
MCItems ==
  {<<Item(1, 1, 1, "rule", "retired", "product", "c1"), Item(1, 2, 3, "decision", "approved", "product", "c2"),
     Item(2, 1, 2, "rule", "approved", "product", "c3"), Item(3, 1, 4, "decision", "approved", "product", "c4")>>,
   <<Item(1, 1, 3, "rule", "approved", "product", "c1"), Late(2, "c2"),
     Item(3, 1, 1, "rule", "proposed", "customer", "c3")>>}
Edge(r, s, t) == [relation |-> r, source |-> s, target |-> t]
MCEdges == {Edge("depends_on", 1, 2), Edge("implements", 2, 3), Edge("supersedes", 3, 1),
            Edge("depends_on", 3, 2)}
MCStores ==
  {[items |-> i, edges |-> e, omitted |-> << [key |-> <<9, 1>>, reason |-> "cap reached"] >>,
    count |-> Len(i) + 1] : i \in MCItems, e \in {f \cup {Edge("relates_to", 2, 1)} : f \in SUBSET MCEdges}}
MCNewItem == Item(4, 1, 1, "decision", "approved", "product", "c5")
Group(uuids) == [uuids |-> uuids, meaning |-> "same"]
Judged(groups, findings) == [private |-> TRUE, groups |-> groups, findings |-> findings]
Conflict(keys) == [category |-> "contradiction", ground |-> "", memories |-> keys]
MCJudgements ==
  {None, Judged(<<Group(<<2, 3>>)>>, {}), Judged(<<Group(<<1, 3>>), Group(<<2, 3>>)>>, {}),
   Judged(<< >>, {Conflict({<<2, 1>>, <<3, 1>>})})}
MCEvidence ==
  {None, [tags |-> {"t"}, mode |-> "any", approved |-> {<<2, 1>>}, records |-> (<<2, 1>> :> {"u"}),
          analyses |-> {[key |-> <<2, 1>>, relevant |-> TRUE, quoted |-> TRUE]}]}
MCCheckouts ==
  {[git |-> TRUE, redactor |-> TRUE, inHome |-> TRUE, root |-> "root", origin |-> "repo",
    branch |-> "branch", branchTickets |-> {"T1"}, commitsRead |-> TRUE, commitTickets |-> {"T1"}]}
MCBranchTicketSets == {{"T2"}}
MCArgs ==
  {[body |-> [repo |-> None, ticket |-> None], flags |-> [repo |-> None, tickets |-> {}],
    widenDepth |-> 1, heimdallr |-> TRUE, writeToken |-> FALSE, readToken |-> TRUE,
    loopback |-> TRUE, ignored |-> TRUE]}
=============================================================================
