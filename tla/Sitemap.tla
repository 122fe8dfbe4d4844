------------------------------- MODULE Sitemap -------------------------------
(***************************************************************************)
(* The sitemap of a crawl: a forest over the edges of its search, and the  *)
(* pages no edge touches (behavior/src/sitemap.ts).                        *)
(***************************************************************************)
EXTENDS Integers, Sequences

\* The first edge that reaches a node names its parent; what no edge reaches is
\* a root if edges leave it, an orphan otherwise; what hangs on a cycle is lost.
buildSitemap(edges, pages) ==
    LET ends    == UNION {{edges[i].from, edges[i].to} : i \in DOMAIN edges}
        nodes   == pages \cup ends
        reached == {edges[i].to : i \in DOMAIN edges}
        parentOf == [n \in reached |->
                       edges[CHOOSE i \in DOMAIN edges : /\ edges[i].to = n
                               /\ \A j \in 1..i - 1 : edges[j].to # n].from]
        roots   == ends \ reached
        tree[n \in 0..Len(edges)] ==  \* no branch has more edges
            IF n = 0 THEN roots
            ELSE tree[n - 1] \cup {u \in reached : parentOf[u] \in tree[n - 1]}
    IN [roots |-> roots, orphans |-> nodes \ ends, tree |-> tree[Len(edges)],
        parentOf |-> parentOf]
===============================================================================
