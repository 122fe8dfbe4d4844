---------------------------- MODULE BehaviorEmit ----------------------------
(***************************************************************************)
(* The behavior layer's output: what a crawl, its recorded transactions    *)
(* and the CRUD oracle put on the spine (behavior/src/emit.ts,             *)
(* tx-persistence.ts), and which artifacts of .e2e/runs they are taken     *)
(* from (behavior/src/cli/commands/emit.ts).                               *)
(*                                                                         *)
(* A URL is its path.  An artifact directory is, per kind of artifact, the *)
(* sequence of the contents written, the newest last.                      *)
(***************************************************************************)
EXTENDS StructureModel

Visit(path) == [method |-> "GET", path |-> path]

\* Segment by segment; the code joins the parts with dashes.
PathSlug(path) == MapSeq(path, LAMBDA segment : Slug[segment])

pageNode(page) ==
    [nodeId |-> <<"behavior:page", Visit(page.path)>>, route |-> Visit(page.path),
     raw |-> [kind |-> "page", inputItems |-> page.inputs, findings |-> {}]]

behaviorTransitionNode(t) ==
    [nodeId |-> <<"behavior:transition", PathSlug(t.from), PathSlug(t.to)>>,
     route |-> Visit(t.to),
     raw |-> [kind |-> "transition", from |-> t.from, to |-> t.to, trigger |-> t.trigger]]

\* One node per recorded mutation; saved columns and verdict by route.
transactionNode(tx, saved, crudResults) ==
    LET key  == normalizeRoute([method |-> tx.method, path |-> tx.path])
        node == [nodeId |-> <<"behavior:tx", key, tx.seq>>, route |-> key, seq |-> tx.seq,
                 raw |-> [kind |-> "transaction", ok |-> tx.ok,
                          saved |-> IF key \in DOMAIN saved THEN <<saved[key]>> ELSE <<>>]]
    IN IF crudResults = <<>> THEN node
       ELSE Over([persisted |-> annotatePersistence(key, crudResults[1])], node)

emitBehaviorAll(structure, txs, saved, crudResults) ==
    MapSeq(structure.pages, pageNode)
    \o MapSeq(structure.transitions, behaviorTransitionNode)
    \o MapSeq(Only(txs, {tx \in ToSet(txs) : tx.method \in Mutating}),
              LAMBDA tx : transactionNode(tx, saved, crudResults))

\* Every crawl leaves its report.
CrawlShape(crawl) ==
    /\ IsSequence(crawl.reports) /\ crawl.reports # <<>>
    /\ \A r \in ToSet(crawl.reports) : IsSequence(r.pages) /\ IsSequence(r.transitions)
    /\ IsSequence(crawl.transactions)
    /\ \A txs \in ToSet(crawl.transactions) :
          IsSequence(txs) /\ \A tx \in ToSet(txs) : tx.path \in Seq(DOMAIN Lower)
    /\ IsSequence(crawl.saved) /\ IsSequence(crawl.results)

\* The newest artifact of a kind, or what the loader gives without one.
Latest(artifacts, otherwise) == IF artifacts = <<>> THEN otherwise ELSE Last(artifacts)

\* crud results are <<>> when no run ever wrote any, <<results>> otherwise.
runEmit(runs) ==
    emitBehaviorAll(Last(runs.reports), Latest(runs.transactions, <<>>),
                    Latest(runs.saved, <<>>),
                    IF runs.results = <<>> THEN <<>> ELSE <<Last(runs.results)>>)
=============================================================================
