--------------------------- MODULE MCMemoryStore ---------------------------
(***************************************************************************)
(* Small instances of MemoryStore.  "Races" are requests that fight over   *)
(* the same version rows; "Captures" create memories and write everything  *)
(* a request can carry: links, labels, ticket references, a product.       *)
(***************************************************************************)
EXTENDS MemoryStore, TLC

CONSTANTS w1, w2, w3, g1, g2, m1, m2, n1, f1, f2, s1, s2, s3, s4, a, b, c,
          relates, label1, t1, t2, tx9, p1, p9, i1

Bump(m, claim) == [kind |-> "version", uuid |-> m, slug |-> s4, claim |-> claim]
Create(m, slug, claim) == [kind |-> "create", uuid |-> m, slug |-> slug, claim |-> claim]
Mint(slug, claim) == [kind |-> "mint", uuid |-> Nobody, slug |-> slug, claim |-> claim]
Link(s, t) == [source |-> s, target |-> t, relation |-> relates]

Plain(group, items) ==
    [group |-> group, items |-> items, links |-> {}, labels |-> {},
     refs |-> {}, product |-> Nobody, dryRun |-> FALSE]

MCBlobOf == (a :> Nobody) @@ (b :> "body of b") @@ (c :> "body of c")
MCOwnerOf == (t1 :> g1) @@ (t2 :> g2) @@ (tx9 :> Nobody)
MCInitiativeOf == (g1 :> i1) @@ (g2 :> Nobody)

(* Both seeded memories are in g1.                                         *)
RaceSeed == {[uuid |-> m1, group |-> g1, slug |-> s1], [uuid |-> m2, group |-> g1, slug |-> s2]}

Races == {
    Plain(g1, <<Bump(m1, b), Bump(m2, b)>>),
    Plain(g1, <<Bump(m2, c), Bump(m1, b)>>),
    Plain(g1, <<Bump(m1, c), Bump(m2, a), Bump(m1, a)>>),
    Plain(g1, <<Bump(m1, b), Bump(m1, c), Bump(m1, c)>>),
    Plain(g1, <<Bump(m1, b), Bump(m2, c), Bump(m1, c)>>)}

(* Two bumps in opposite orders, and the graph's lock behind them.         *)
Opposed == {
    [Plain(g1, <<Bump(m1, a), Bump(m1, b), Bump(m2, b)>>) EXCEPT !.links = {Link(m1, m2)}],
    [Plain(g1, <<Bump(m2, b), Bump(m1, b)>>) EXCEPT !.product = p1]}

(* m1 is in g1, m2 in g2.                                                  *)
CaptureSeed == {[uuid |-> m1, group |-> g1, slug |-> s1], [uuid |-> m2, group |-> g2, slug |-> s2]}

Captures == {
    [Plain(g1, <<Create(n1, s3, b), Bump(m1, b)>>) EXCEPT
        !.links = {Link(n1, m2), Link(m1, m2)}, !.labels = {label1}, !.refs = {t2}, !.product = p1],
    [Plain(g1, <<Mint(s4, b)>>) EXCEPT !.links = {Link(m1, m2)}, !.refs = {t2}],
    Plain(g1, <<Mint(s3, c)>>),
    [Plain(g2, <<Create(n1, s3, c)>>) EXCEPT !.labels = {label1}, !.refs = {t1}, !.product = p1],
    [Plain(g2, <<Bump(m1, c)>>) EXCEPT !.refs = {t1}],
    [Plain(g2, <<Bump(m2, a), Mint(s4, a)>>) EXCEPT !.links = {Link(m2, n1)}],
    [Plain(g2, <<Bump(m2, b), Create(n1, s4, b), Mint(s4, b)>>) EXCEPT !.product = p1],
    [Plain(g1, <<Bump(m1, b)>>) EXCEPT !.refs = {t1}],
    [Plain(g1, <<Bump(m1, a)>>) EXCEPT !.refs = {t2, tx9}],
    [Plain(g1, <<Bump(m1, c)>>) EXCEPT !.product = p9],
    [Plain(g1, <<Bump(m1, a), Bump(m1, b)>>) EXCEPT !.dryRun = TRUE]}

=============================================================================
