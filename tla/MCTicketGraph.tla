-------------------------- MODULE MCTicketGraph ---------------------------
(***************************************************************************)
(* Small instances of TicketGraph.  g1 owns ta and tb, g2 owns td; te is   *)
(* owned by nobody, and tf is there to be minted.                          *)
(***************************************************************************)
EXTENDS TicketGraph, TLC

CONSTANTS c1, c2, c3, g1, g2, n1, n2, ta, tb, td, te, tf, m1, m2, why, because, known, unknown

NoFields == [op |-> "", group |-> Nobody, tickets |-> {}, dimension |-> Nobody,
             identifier |-> Nobody, initiative |-> Nobody, named |-> FALSE, child |-> Nobody,
             parent |-> Nobody, expected |-> Nobody, reason |-> why, memories |-> {}]

Resolve(tickets) == [NoFields EXCEPT !.op = "resolve", !.tickets = tickets]
Merge(g, tickets) == [NoFields EXCEPT !.op = "update", !.group = g, !.tickets = tickets]
Scope(g, dim, id) ==
    [NoFields EXCEPT !.op = "update", !.group = g, !.dimension = dim, !.identifier = id]
Describe(g) == [NoFields EXCEPT !.op = "describe", !.group = g]
Parent(child, parent, expected, reason) ==
    [NoFields EXCEPT !.op = "parent", !.child = child, !.parent = parent,
                     !.expected = expected, !.reason = reason]
Refer(memories, tickets) ==
    [NoFields EXCEPT !.op = "refer", !.memories = memories, !.tickets = tickets]
Give(g, tickets) == [NoFields EXCEPT !.op = "release", !.group = g, !.tickets = tickets]

MCSeed == (g1 :> {ta, tb}) @@ (g2 :> {td})
MCHomeOf == (m1 :> g1) @@ (m2 :> g2)

GroupRequests == {
    Resolve({te}), [Resolve({te, td}) EXCEPT !.named = TRUE], Resolve({ta, td}),
    [Resolve({}) EXCEPT !.named = TRUE, !.dimension = "customer", !.identifier = "named"],
    [Resolve({te}) EXCEPT !.initiative = unknown],
    Merge(g1, {te}), Merge(g2, {ta}), [Merge(g2, {te}) EXCEPT !.initiative = known],
    Merge(g1, {tf}), Merge(n1, {te}),
    Scope(g1, "customer", "named"), Scope(g1, Nobody, "blank"), Scope(g1, "product", Nobody),
    Scope(g1, "customer", Nobody),
    Describe(g1), Describe(n1),
    Refer({m1}, {td}), Refer({m1, m2}, {te}), Refer({m2}, {ta}), Refer({m1, m2}, {td})}

HierarchyRequests == {
    Parent(tb, ta, Nobody, why), Parent(td, tb, Nobody, why), Parent(ta, td, Nobody, why),
    Parent(tb, td, ta, because), Parent(tb, ta, ta, because), Parent(tb, Nobody, ta, why),
    Parent(ta, Nobody, Nobody, why), Parent(ta, te, Nobody, why), Parent(tb, Nobody, td, because),
    Merge(g2, {te}), Give(g2, {td}), Give(g1, {tb}), Give(n1, {ta})}

ReleaseRequests == {Refer({m1}, {td}), Give(g2, {td})}

=============================================================================
