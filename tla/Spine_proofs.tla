----------------------------- MODULE Spine_proofs -----------------------------
(***************************************************************************)
(* Proofs about the spine, for every glossary, workspace and crawl of the  *)
(* declared shapes, any names and any files of a human, any number of      *)
(* edits, reconciles and crashes.                                          *)
(***************************************************************************)
EXTENDS Spine, Induction

-------------------------------------------------------------------------------
(* The last element of a sequence that passes a test.                        *)

LEMMA MaxIs ==
    ASSUME NEW n \in Nat, NEW S \in SUBSET (1..n), S # {}
    PROVE  Max(S) \in S /\ \A x \in S : x <= Max(S)
<1> DEFINE T == {n - x : x \in S}
<1>1. T \in SUBSET Nat /\ T # {}
  <2>1. \A x \in S : n - x \in Nat
    OBVIOUS
  <2> QED
    BY <2>1
<1>2. PICK t \in T : \A u \in T : t <= u
  <2> HIDE DEF T
  <2> QED
    BY <1>1, LeastNat
<1>3. PICK x \in S : t = n - x
  OBVIOUS
<1>4. \A y \in S : x >= y
  <2>1. ASSUME NEW y \in S PROVE x >= y
    <3>1. t <= n - y
      BY <1>2
    <3> QED
      BY <1>3, <3>1
  <2> QED
    BY <2>1
<1>5. Max(S) \in S /\ \A y \in S : Max(S) >= y
  BY <1>4 DEF Max
<1> QED
  BY <1>5

-------------------------------------------------------------------------------
(* What a reconciliation burns in, and what the next one reads back.         *)

BurntIn(relations) ==
    {r \in relations : /\ r.kind = "same-as" /\ r.decidedBy = "human"
                       /\ r.from[1] = "structure:entity"}

PlacedByHumans(human, placed) == {SameAs(EntityId(n), placed[n], "human") : n \in human}

\* The relations of humans in a registry are their placements, no more.
LEMMA AssembledRelations ==
    ASSUME NEW in, NEW routes, NEW anchor, NEW placed, NEW human, NEW queued,
           NEW classOf, NEW ruled, human \subseteq DOMAIN placed
    PROVE  BurntIn(assemble(in, routes, anchor, placed, human, queued, classOf,
                            ruled).registry.relations)
               = PlacedByHumans(human, placed)
<1> DEFINE out == assemble(in, routes, anchor, placed, human, queued, classOf, ruled)
           one == {SameAs(EntityId(n), placed[n], IF n \in human THEN "human" ELSE "auto") :
                     n \in DOMAIN placed}
<1>1. PICK two, three :
        /\ out.registry.relations = one \cup two \cup three
        /\ \A r \in two \cup three : r.decidedBy = "auto"
  <2> DEFINE lastRoute(key) == routes[SelectLastInSeq(routes, LAMBDA r : KeyOf(r) = key)]
             two == {SameAs(lastRoute(KeyOf(n)).nodeId, n.nodeId, "auto") :
                n \in {n \in ToSet(in.behavior) : KeyOf(n) \in DOMAIN anchor}}
             three == UNION {{[kind |-> r[1], from |-> EntityId(e.name), to |-> r[2],
                          decidedBy |-> "auto"] : r \in classOf[e].relation} :
                        e \in DOMAIN classOf}
  <2>1. out.registry.relations = one \cup two \cup three
    BY DEF assemble
  <2>2. \A r \in two : r.decidedBy = "auto"
    <3> HIDE DEF lastRoute
    <3> QED
      BY DEF SameAs
  <2>3. \A r \in three : r.decidedBy = "auto"
    OBVIOUS
  <2> HIDE DEF one, two, three, out
  <2> QED
    BY <2>1, <2>2, <2>3
<1>2. ASSUME NEW r \in BurntIn(out.registry.relations)
      PROVE  \E n \in human : r = SameAs(EntityId(n), placed[n], "human")
  <2>1. r \in one /\ r.decidedBy = "human"
    <3> HIDE DEF one, out
    <3> QED
      BY <1>1, <1>2 DEF BurntIn
  <2>2. PICK n \in DOMAIN placed :
           r = SameAs(EntityId(n), placed[n], IF n \in human THEN "human" ELSE "auto")
    BY <2>1
  <2> QED
    BY <2>1, <2>2 DEF SameAs
<1>3. ASSUME NEW n \in human
      PROVE  SameAs(EntityId(n), placed[n], "human") \in BurntIn(out.registry.relations)
  <2>1. SameAs(EntityId(n), placed[n], "human") \in one
    OBVIOUS
  <2>2. SameAs(EntityId(n), placed[n], "human") \in out.registry.relations
    <3> HIDE DEF one, out
    <3> QED
      BY <1>1, <2>1
  <2> HIDE DEF out, one
  <2> QED
    BY <2>2 DEF BurntIn, SameAs, EntityId
<1> HIDE DEF out
<1>4. BurntIn(out.registry.relations) = PlacedByHumans(human, placed)
  BY <1>2, <1>3 DEF PlacedByHumans
<1> QED
  BY <1>4 DEF out

LEMMA ClassifiedRelations ==
    ASSUME NEW in, NEW concepts, NEW entities, NEW routes, NEW placed, NEW human, NEW queued,
           human \subseteq DOMAIN placed
    PROVE  BurntIn(classify(in, concepts, entities, routes, placed, human,
                            queued).registry.relations)
               = PlacedByHumans(human, placed)
<1>1. PICK anchor, classOf :
         classify(in, concepts, entities, routes, placed, human, queued)
             = overlay(in, concepts, entities, routes, anchor, placed, human, queued, classOf)
  BY Zenon DEF classify
<1>2. PICK ruled :
         overlay(in, concepts, entities, routes, anchor, placed, human, queued, classOf)
             = assemble(in, routes, anchor, placed, human, queued, classOf, ruled)
  BY Zenon DEF overlay
<1> QED
  BY <1>1, <1>2, AssembledRelations

LastOf(file, id) == SelectLastInSeq(file, LAMBDA d : EntityId(d.entity) = id)

LEMMA LastDecision ==
    ASSUME NEW T, NEW file \in Seq(T), NEW id
    PROVE  /\ LastOf(file, id) # 0 => LastOf(file, id) \in DOMAIN file
           /\ LastOf(file, id) # 0
                 <=> id \in {EntityId(d.entity) : d \in ToSet(file)}
<1> DEFINE I == {i \in 1..Len(file) : EntityId(file[i].entity) = id}
<1>1. LastOf(file, id) = IF I # {} THEN Max(I) ELSE 0
  BY DEF LastOf, SelectLastInSeq
<1>2. Len(file) \in Nat /\ DOMAIN file = 1..Len(file)
  OBVIOUS
<1>3. I # {} => Max(I) \in I
  <2>1. I \in SUBSET (1..Len(file))
    OBVIOUS
  <2> HIDE DEF I
  <2> QED
    BY <1>2, <2>1, MaxIs
<1>4. I # {} <=> id \in {EntityId(d.entity) : d \in ToSet(file)}
  BY <1>2 DEF ToSet
<1>5. 0 \notin I /\ I \subseteq DOMAIN file
  BY <1>2
<1> HIDE DEF I
<1> QED
  BY <1>1, <1>3, <1>4, <1>5

LEMMA ResolvedIs ==
    ASSUME NEW prior, NEW file
    PROVE  /\ DOMAIN resolveDecisions(prior, file)
                = DOMAIN priorHumanMatches(prior)
                  \cup {EntityId(d.entity) : d \in ToSet(file)}
           /\ \A id \in DOMAIN resolveDecisions(prior, file) :
                 resolveDecisions(prior, file)[id]
                     = IF LastOf(file, id) # 0
                       THEN file[LastOf(file, id)].concept
                       ELSE priorHumanMatches(prior)[id]
BY Zenon DEF resolveDecisions, LastOf

LEMMA MatchesAre ==
    ASSUME NEW prior, NEW human, NEW placed,
           BurntIn(prior.relations) = PlacedByHumans(human, placed)
    PROVE  /\ \A id : id \in DOMAIN priorHumanMatches(prior)
                         <=> \E n \in human : id = EntityId(n)
           /\ \A n \in human : priorHumanMatches(prior)[EntityId(n)] = placed[n]
<1> DEFINE B == BurntIn(prior.relations)
<1>1. priorHumanMatches(prior) = [id \in {r.from : r \in B} |-> (CHOOSE r \in B : r.from = id).to]
  BY Zenon DEF priorHumanMatches, BurntIn
<1>2. {r.from : r \in B} = {EntityId(n) : n \in human}
  <2>1. \A n : SameAs(EntityId(n), placed[n], "human").from = EntityId(n)
    BY DEF SameAs
  <2> HIDE DEF B
  <2>2. B = {SameAs(EntityId(n), placed[n], "human") : n \in human}
    BY DEF B, PlacedByHumans
  <2> QED
    BY <2>1, <2>2
<1>3. ASSUME NEW n \in human
      PROVE  (CHOOSE r \in B : r.from = EntityId(n)).to = placed[n]
  <2>1. SameAs(EntityId(n), placed[n], "human") \in B
    BY DEF PlacedByHumans
  <2>2. ASSUME NEW r \in B, r.from = EntityId(n) PROVE r.to = placed[n]
    <3>1. PICK m \in human : r = SameAs(EntityId(m), placed[m], "human")
      BY <2>2 DEF PlacedByHumans
    <3>2. m = n
      BY <2>2, <3>1 DEF SameAs, EntityId
    <3> QED
      BY <3>1, <3>2 DEF SameAs
  <2>3. SameAs(EntityId(n), placed[n], "human").from = EntityId(n)
    BY DEF SameAs
  <2> HIDE DEF B
  <2> QED
    BY <2>1, <2>2, <2>3
<1>4. \A n \in human : EntityId(n) \in {EntityId(m) : m \in human}
  OBVIOUS
<1> HIDE DEF B
<1>5. DOMAIN priorHumanMatches(prior) = {EntityId(n) : n \in human}
  BY <1>1, <1>2
<1>6. ASSUME NEW n \in human PROVE priorHumanMatches(prior)[EntityId(n)] = placed[n]
  <2>1. EntityId(n) \in {r.from : r \in B}
    BY <1>2, <1>4
  <2>2. priorHumanMatches(prior)[EntityId(n)] = (CHOOSE r \in B : r.from = EntityId(n)).to
    BY Zenon, <1>1, <2>1
  <2> QED
    BY <1>3, <2>2
<1>7. \A id : id \in DOMAIN priorHumanMatches(prior) <=> \E n \in human : id = EntityId(n)
  BY <1>5
<1> QED
  BY <1>6, <1>7

\* Where the file resolve alike for what awaits one, the result is alike.
LEMMA PlacedAlike ==
    ASSUME NEW in, NEW concepts, NEW entities, NEW match, NEW first, NEW again,
           HumanMatched(match, again, {c.conceptId : c \in ToSet(concepts)})
               = HumanMatched(match, first, {c.conceptId : c \in ToSet(concepts)}),
           \A n \in HumanMatched(match, first, {c.conceptId : c \in ToSet(concepts)}) :
               again[EntityId(n)] = first[EntityId(n)]
    PROVE  place(in, concepts, entities, match, again) = place(in, concepts, entities, match, first)
<1> DEFINE ids == {c.conceptId : c \in ToSet(concepts)}
<1>1. ConceptOfEntity(match, again, ids) = ConceptOfEntity(match, first, ids)
  <2> DEFINE human == HumanMatched(match, first, ids)
             names == {n \in DOMAIN match : match[n].how = "accepted"} \cup human
  <2>1. ConceptOfEntity(match, first, ids)
          = [n \in names |-> IF n \in human THEN first[EntityId(n)] ELSE match[n].concept]
    BY Zenon DEF ConceptOfEntity
  <2>2. ConceptOfEntity(match, again, ids)
          = [n \in names |-> IF n \in human THEN again[EntityId(n)] ELSE match[n].concept]
    BY Zenon DEF ConceptOfEntity
  <2>3. \A n \in human : again[EntityId(n)] = first[EntityId(n)]
    OBVIOUS
  <2> HIDE DEF human, names
  <2> QED
    BY <2>1, <2>2, <2>3
<1>2. HumanMatched(match, again, ids) = HumanMatched(match, first, ids)
  OBVIOUS
<1>3. \A d : place(in, concepts, entities, match, d)
         = classify(in, concepts, entities, Only(in.structure, RouteNodes(in.structure)),
                    ConceptOfEntity(match, d, ids), HumanMatched(match, d, ids),
                    {n \in DOMAIN match : match[n].how = "queued"} \ HumanMatched(match, d, ids))
  BY Zenon DEF place
<1> HIDE DEF ids
<1> QED
  BY <1>1, <1>2, <1>3

\* A second reconciliation of the same inputs, from the registry of the first,
\* gives what the first gave.
LEMMA SecondIsTheSame ==
    ASSUME NEW in, NEW prior, NEW T, NEW file \in Seq(T)
    PROVE  reconcile(in, reconcile(in, prior, file).registry, file)
               = reconcile(in, prior, file)
<1> DEFINE concepts == intentConcepts(in.intent)
           entities == structureEntities(in.structure)
           match == matchIntentToStructure(concepts, entities)
           ids   == {c.conceptId : c \in ToSet(concepts)}
           first == resolveDecisions(prior, file)
           out   == reconcile(in, prior, file)
           again == resolveDecisions(out.registry, file)
           human == HumanMatched(match, first, ids)
           placed == ConceptOfEntity(match, first, ids)
<1>1. \A registry : reconcile(in, registry, file)
         = place(in, concepts, entities, match, resolveDecisions(registry, file))
  BY Zenon DEF reconcile, reconcileNodes
<1>2. out = classify(in, concepts, entities, Only(in.structure, RouteNodes(in.structure)),
                     placed, human, {n \in DOMAIN match : match[n].how = "queued"} \ human)
  <2>1. out = place(in, concepts, entities, match, first)
    BY Zenon, <1>1
  <2>2. place(in, concepts, entities, match, first)
      = classify(in, concepts, entities, Only(in.structure, RouteNodes(in.structure)),
                     placed, human, {n \in DOMAIN match : match[n].how = "queued"} \ human)
    BY Zenon DEF place
  <2> QED
    BY Zenon, <2>1, <2>2
<1> HIDE DEF concepts, entities, match, out
<1>3. human \subseteq DOMAIN placed /\ \A n \in human : placed[n] = first[EntityId(n)]
  <2> HIDE DEF first, ids
  <2> QED
    BY DEF ConceptOfEntity
<1>4. \A n : n \in human <=> /\ n \in DOMAIN match /\ match[n].how = "queued"
                             /\ EntityId(n) \in DOMAIN first /\ first[EntityId(n)] \in ids
  <2> HIDE DEF first, ids
  <2> QED
    BY DEF HumanMatched
<1>5. BurntIn(out.registry.relations) = PlacedByHumans(human, placed)
  <2>1. human \subseteq DOMAIN placed
    BY <1>3
  <2> HIDE DEF placed, human
  <2>2. \A r, q : BurntIn(classify(in, concepts, entities, r, placed, human,
                                   q).registry.relations) = PlacedByHumans(human, placed)
    BY <2>1, ClassifiedRelations
  <2> QED
    BY <1>2, <2>2
<1>6. /\ \A id : id \in DOMAIN priorHumanMatches(out.registry)
                      <=> \E n \in human : id = EntityId(n)
      /\ \A n \in human : priorHumanMatches(out.registry)[EntityId(n)] = placed[n]
  <2> HIDE DEF placed, human
  <2>1. PICK registry : registry = out.registry
    OBVIOUS
  <2>2. BurntIn(registry.relations) = PlacedByHumans(human, placed)
    BY <1>5, <2>1
  <2>3. /\ \A id : id \in DOMAIN priorHumanMatches(registry)
                      <=> \E n \in human : id = EntityId(n)
        /\ \A n \in human : priorHumanMatches(registry)[EntityId(n)] = placed[n]
    BY <2>2, MatchesAre
  <2> QED
    BY <2>1, <2>3
<1> HIDE DEF placed
<1>7. \A id : LastOf(file, id) # 0
                 <=> id \in {EntityId(d.entity) : d \in ToSet(file)}
  BY LastDecision
<1> DEFINE decided == {EntityId(d.entity) : d \in ToSet(file)}
<1>8. /\ DOMAIN first = DOMAIN priorHumanMatches(prior) \cup decided
      /\ \A id \in DOMAIN first :
            first[id] = IF LastOf(file, id) # 0
                        THEN file[LastOf(file, id)].concept
                        ELSE priorHumanMatches(prior)[id]
  BY ResolvedIs
<1>9. /\ DOMAIN again = DOMAIN priorHumanMatches(out.registry) \cup decided
      /\ \A id \in DOMAIN again :
            again[id] = IF LastOf(file, id) # 0
                        THEN file[LastOf(file, id)].concept
                        ELSE priorHumanMatches(out.registry)[id]
  BY ResolvedIs
<1>10. \A n, m : EntityId(n) = EntityId(m) => n = m
  BY DEF EntityId
<1>11. \A n \in human : EntityId(n) \in DOMAIN again /\ again[EntityId(n)] = first[EntityId(n)]
  <2> SUFFICES ASSUME NEW n \in human
               PROVE  EntityId(n) \in DOMAIN again /\ again[EntityId(n)] = first[EntityId(n)]
    OBVIOUS
  <2>1. EntityId(n) \in DOMAIN again /\ EntityId(n) \in DOMAIN first
    BY <1>4, <1>6, <1>9
  <2> HIDE DEF first, again, human, decided
  <2>2. CASE LastOf(file, EntityId(n)) # 0
    BY <1>8, <1>9, <2>1, <2>2
  <2>3. CASE LastOf(file, EntityId(n)) = 0
    BY <1>3, <1>6, <1>9, <2>1, <2>3
  <2> QED
    BY <2>1, <2>2, <2>3
<1>12. \A n \in DOMAIN match :
          match[n].how = "queued" /\ EntityId(n) \in DOMAIN again /\ again[EntityId(n)] \in ids
              => n \in human
  <2> SUFFICES ASSUME NEW n \in DOMAIN match, match[n].how = "queued",
                      EntityId(n) \in DOMAIN again, again[EntityId(n)] \in ids, n \notin human
               PROVE  FALSE
    OBVIOUS
  <2> HIDE DEF first, again, human
  <2>1. EntityId(n) \notin DOMAIN priorHumanMatches(out.registry)
    BY <1>6, <1>10
  <2>2. EntityId(n) \in decided
    BY <1>9, <2>1
  <2>3. LastOf(file, EntityId(n)) # 0
    BY <1>7, <2>2
  <2>4. EntityId(n) \in DOMAIN first
    BY <1>8, <2>2
  <2>5. first[EntityId(n)] = again[EntityId(n)]
    BY <1>8, <1>9, <2>3, <2>4
  <2> QED
    BY <1>4, <2>4, <2>5
<1>13. HumanMatched(match, again, ids) = human
  <2>1. \A n : n \in HumanMatched(match, again, ids)
                 <=> /\ n \in DOMAIN match /\ match[n].how = "queued"
                     /\ EntityId(n) \in DOMAIN again /\ again[EntityId(n)] \in ids
    <3> HIDE DEF first, again, ids, human
    <3> QED
      BY DEF HumanMatched
  <2> HIDE DEF first, again, ids, human
  <2>2. \A n \in human : /\ n \in DOMAIN match /\ match[n].how = "queued"
                         /\ again[EntityId(n)] \in ids
    BY <1>4, <1>11
  <2> QED
    BY <1>11, <1>12, <2>1, <2>2
<1>14. place(in, concepts, entities, match, again) = place(in, concepts, entities, match, first)
  <2>1. /\ HumanMatched(match, again, {c.conceptId : c \in ToSet(concepts)})
             = HumanMatched(match, first, {c.conceptId : c \in ToSet(concepts)})
        /\ \A n \in HumanMatched(match, first, {c.conceptId : c \in ToSet(concepts)}) :
               again[EntityId(n)] = first[EntityId(n)]
    BY Zenon, <1>11, <1>13
  <2> HIDE DEF first, again, human, ids
  <2> QED
    BY <2>1, PlacedAlike
<1>15. out = place(in, concepts, entities, match, first)
  BY Zenon, <1>1 DEF out
<1>16. reconcile(in, out.registry, file) = place(in, concepts, entities, match, again)
  BY Zenon, <1>1
<1> QED
  BY Zenon, <1>14, <1>15, <1>16 DEF out

-------------------------------------------------------------------------------
(* Sequences.                                                                *)

\* Only keeps the elements that are in the set, and each as often as it was there.
LEMMA OnlyIs ==
    ASSUME NEW T, NEW seq \in Seq(T), NEW set
    PROVE  /\ Only(seq, set) \in Seq(T)
           /\ ToSet(Only(seq, set)) = ToSet(seq) \cap set
           /\ (\A i, j \in 1..Len(seq) : seq[i] = seq[j] => i = j) =>
                 \A i, j \in 1..Len(Only(seq, set)) :
                     Only(seq, set)[i] = Only(seq, set)[j] => i = j
<1>1. PICK kept : kept = Kept(seq, set)[Len(seq)]
  OBVIOUS
<1>2. Only(seq, set) = kept
  BY <1>1 DEF Only, Kept
<1>3. /\ kept \in Seq(T)
      /\ \A x : (\E i \in 1..Len(kept) : kept[i] = x)
                 <=> (\E i \in 1..Len(seq) : seq[i] = x /\ x \in set)
      /\ (\A i, j \in 1..Len(seq) : seq[i] = seq[j] => i = j) =>
            \A i, j \in 1..Len(kept) : kept[i] = kept[j] => i = j
  BY <1>1, KeptIs
<1>4. ToSet(kept) = ToSet(seq) \cap set
  <2>1. DOMAIN kept = 1..Len(kept) /\ DOMAIN seq = 1..Len(seq)
    BY <1>3
  <2>2. \A x : x \in ToSet(kept) <=> \E i \in 1..Len(kept) : kept[i] = x
    BY <2>1 DEF ToSet
  <2>3. \A x : x \in ToSet(seq) <=> \E i \in 1..Len(seq) : seq[i] = x
    BY <2>1 DEF ToSet
  <2> QED
    BY <1>3, <2>2, <2>3
<1> QED
  BY <1>2, <1>3, <1>4

-------------------------------------------------------------------------------
(* The command under way and the files it derives.                           *)

Now == reconcile(Inputs, Registry, decisions)

LayerStages     == {"aggregates", "structure", "emit", "bridge", "sitemap"}
ReconcileStages == {"registry", "unified", "mapping"}
Rejected        == {"registry rejected", "unified rejected"}

JobOK ==
    \/ job = Idle
    \/ job.stage \in {"aggregates", "emit", "bridge", "sitemap", "boundary"}
    \/ /\ job.stage = "structure" /\ DOMAIN job = {"stage", "extract", "out"}
       /\ DOMAIN job.out \subseteq {"structure", "rdra"}
    \/ job.stage \in ReconcileStages \cup Rejected /\ DOMAIN job = {"stage", "prior", "out"}

FilesOK ==
    /\ DOMAIN disk = DOMAIN emptyDisk
    /\ IsSequence(adrs) /\ IsSequence(decisions)

\* What a reconciliation will write is what the next one would find, at first
\* because its registry is not written yet, then because it is.
JobIsCurrent ==
    /\ job.stage \in ReconcileStages => job.out = Now
    /\ job.stage = "registry" => job.prior = Registry

\* What is told to follow from the current inputs does.
FreshIsCurrent ==
    /\ job.stage \in LayerStages => fresh = {}
    /\ "registry" \in fresh => disk.registry = <<Now.registry>>
    /\ fresh \cap {"unified", "findings", "mapping"} # {} =>
          "registry" \in fresh /\ disk.unified = <<Now.unified>>
    /\ "findings" \in fresh => disk.findings = <<verifyUnified(Now.unified)>>
    /\ "mapping" \in fresh =>
          disk.mapping = <<deriveAggregateEntityMapping(Now.unified, disk.aggregates[1])>>
    /\ job.stage \in {"unified", "mapping"} => "registry" \in fresh
    /\ job.stage = "mapping" => "unified" \in fresh
    /\ job.stage = "boundary" => disk.findings = <<verifyUnified(disk.unified[1])>>

FilesAreValid ==
    /\ disk.registry # <<>> => validateRegistry(disk.registry[1])
    /\ disk.unified # <<>> => validateUnified(disk.unified[1])

DerivedInv == JobOK /\ FilesOK /\ JobIsCurrent /\ FreshIsCurrent /\ FilesAreValid

LEMMA IdleIs == Idle.stage = "idle" /\ "idle" \notin LayerStages \cup ReconcileStages
  BY DEF Idle, LayerStages, ReconcileStages

LEMMA DerivedInit == Init => DerivedInv
<1> SUFFICES ASSUME Init PROVE DerivedInv
  OBVIOUS
<1>1. PICK old \in Legacy : disk = Emitted(old.glossary, old.extract, old.crawl)
  BY DEF Init
<1>2. /\ DOMAIN disk = DOMAIN emptyDisk
      /\ disk.registry = <<>> /\ disk.unified = <<>>
  BY <1>1 DEF Emitted, emptyDisk
<1>3. IsSequence(<<>>)
  BY DEF IsSequence
<1>4. job.stage = "idle" /\ job = Idle /\ fresh = {} /\ adrs = <<>> /\ decisions = <<>>
  BY DEF Init, Idle
<1> QED
  BY <1>2, <1>3, <1>4 DEF DerivedInv, JobOK, FilesOK, JobIsCurrent, FreshIsCurrent,
     FilesAreValid, LayerStages, ReconcileStages

\* An edit leaves nothing derived that is told to be current.
LEMMA DerivedEdit ==
    ASSUME DerivedInv,
           EditAdrs \/ Decide \/ RecordCorrection \/ EmitIntent \/ AnalyzeStructure \/ Crawl \/ Clear
    PROVE  DerivedInv'
<1>1. job = Idle /\ fresh' = {}
  BY DEF EditAdrs, Decide, RecordCorrection, EmitIntent, AnalyzeStructure, Crawl, Clear, Edit
<1>2. JobOK' /\ job'.stage \notin ReconcileStages \cup {"boundary"}
  BY <1>1 DEF EditAdrs, Decide, RecordCorrection, EmitIntent, AnalyzeStructure, Crawl, Clear,
     StructureOutputs, JobOK, Idle, ReconcileStages
<1>3. IsSequence(adrs') /\ IsSequence(decisions')
  <2>1. adrs' \in AdrFiles \cup {adrs} /\ decisions' \in DecisionFiles \cup {decisions, <<>>}
    BY DEF EditAdrs, Decide, RecordCorrection, EmitIntent, AnalyzeStructure, Crawl, Clear,
       Edit, humanVars
  <2>2. IsSequence(<<>>)
    BY DEF IsSequence
  <2> QED
    BY <2>1, <2>2, FilesAssumption DEF DerivedInv, FilesOK
<1>4. /\ DOMAIN disk' = DOMAIN disk
      /\ disk'.registry \in {disk.registry, <<>>} /\ disk'.unified \in {disk.unified, <<>>}
  <2>1. "registry" \in DOMAIN disk /\ "unified" \in DOMAIN disk
    BY DEF DerivedInv, FilesOK, emptyDisk
  <2>2. CASE EditAdrs \/ Decide \/ RecordCorrection \/ AnalyzeStructure
    BY <2>2 DEF EditAdrs, Decide, RecordCorrection, AnalyzeStructure
  <2>3. CASE EmitIntent \/ Crawl
    <3>1. PICK file \in {"intent", "edges"} : \E new : disk' = [disk EXCEPT ![file] = new]
      BY <2>3 DEF EmitIntent, Crawl
    <3> QED
      BY <2>1, <3>1
  <2>4. CASE Clear
    <3>1. PICK gone : disk' = [file \in DOMAIN disk |-> IF file \in gone THEN <<>> ELSE disk[file]]
      BY <2>4 DEF Clear
    <3> QED
      BY <2>1, <3>1
  <2> QED
    BY <2>2, <2>3, <2>4
<1> QED
  BY <1>1, <1>2, <1>3, <1>4 DEF DerivedInv, FilesOK, JobIsCurrent, FreshIsCurrent, FilesAreValid,
     LayerStages, ReconcileStages

\* The rest of a layer's command.
LEMMA DerivedLayer ==
    ASSUME DerivedInv,
           WriteAggregates \/ EmitStructure \/ EmitBehavior \/ BridgeTransactions \/ WriteSitemap
    PROVE  DerivedInv'
<1>1. job.stage \in LayerStages /\ fresh = {} /\ fresh' \subseteq {"behavior"}
  <2>1. job.stage \in LayerStages
    BY DEF WriteAggregates, EmitStructure, EmitBehavior, BridgeTransactions, WriteSitemap, LayerStages
  <2>2. fresh' = fresh \/ fresh' = fresh \cup {"behavior"}
    BY DEF WriteAggregates, EmitStructure, EmitBehavior, BridgeTransactions, WriteSitemap
  <2> QED
    BY <2>1, <2>2 DEF DerivedInv, FreshIsCurrent
<1>2. JobOK' /\ job'.stage \notin ReconcileStages \cup {"boundary"}
  <2>1. CASE EmitStructure
    <3>1. DOMAIN job = {"stage", "extract", "out"} /\ DOMAIN job.out \subseteq {"structure", "rdra"}
      BY <2>1 DEF DerivedInv, JobOK, EmitStructure, Idle, ReconcileStages, Rejected
    <3>2. job' = Idle \/ \E out : /\ job' = [job EXCEPT !.out = out]
                                 /\ DOMAIN out \subseteq DOMAIN job.out
      BY <2>1 DEF EmitStructure, Restrict
    <3>3. job.stage = "structure"
      BY <2>1 DEF EmitStructure
    <3>4. CASE job' = Idle
      BY <3>4 DEF JobOK, Idle, ReconcileStages
    <3>5. ASSUME NEW out, job' = [job EXCEPT !.out = out], DOMAIN out \subseteq DOMAIN job.out
          PROVE  JobOK' /\ job'.stage = "structure"
      <4>1. job'.stage = "structure" /\ DOMAIN job' = {"stage", "extract", "out"} /\ job'.out = out
        BY <3>1, <3>3, <3>5
      <4> QED
        BY <3>1, <3>5, <4>1 DEF JobOK
    <3> QED
      BY <3>2, <3>4, <3>5 DEF ReconcileStages
  <2>2. CASE WriteAggregates \/ EmitBehavior \/ BridgeTransactions \/ WriteSitemap
    BY <2>2 DEF WriteAggregates, EmitBehavior, BridgeTransactions, WriteSitemap, JobOK, Idle,
       ReconcileStages
  <2> QED
    BY <2>1, <2>2
<1>3. job'.stage \in LayerStages => fresh' = {}
  BY <1>1 DEF WriteAggregates, EmitStructure, EmitBehavior, BridgeTransactions, WriteSitemap,
     LayerStages, Idle
<1>4. UNCHANGED <<adrs, decisions>>
  BY DEF WriteAggregates, EmitStructure, EmitBehavior, BridgeTransactions, WriteSitemap, humanVars
<1>5. \/ disk' = disk
      \/ \E file \in {"aggregates", "structure", "rdra", "behavior", "transactions", "sitemap"} :
            \E new : disk' = [disk EXCEPT ![file] = new]
  <2>1. CASE EmitStructure
    <3>1. DOMAIN job.out \subseteq {"structure", "rdra"}
      BY <2>1 DEF DerivedInv, JobOK, EmitStructure, Idle, ReconcileStages, Rejected
    <3> QED
      BY <2>1, <3>1 DEF EmitStructure
  <2>2. CASE WriteAggregates \/ EmitBehavior \/ BridgeTransactions
    BY <2>2 DEF WriteAggregates, EmitBehavior, BridgeTransactions
  <2>3. CASE WriteSitemap
    BY <2>3 DEF WriteSitemap
  <2> QED
    BY <2>1, <2>2, <2>3
<1>6. /\ DOMAIN disk' = DOMAIN disk
      /\ disk'.registry = disk.registry /\ disk'.unified = disk.unified
  <2>1. "registry" \in DOMAIN disk /\ "unified" \in DOMAIN disk
    BY DEF DerivedInv, FilesOK, emptyDisk
  <2> QED
    BY <1>5, <2>1
<1> QED
  BY <1>1, <1>2, <1>3, <1>4, <1>6 DEF DerivedInv, FilesOK, JobIsCurrent, FreshIsCurrent,
     FilesAreValid, ReconcileStages

\* Until an input or the registry changes, a reconciliation would find the same.
LEMMA NowStays ==
    ASSUME UNCHANGED <<adrs, decisions>>, disk'.intent = disk.intent,
           disk'.structure = disk.structure, disk'.behavior = disk.behavior,
           disk'.registry = disk.registry
    PROVE  Now' = Now
<1>1. Inputs' = Inputs
  BY DEF Inputs
<1>2. Registry' = Registry
  BY DEF Registry
<1> QED
  BY <1>1, <1>2 DEF Now

\* A write of one derived file, by what it writes.
LEMMA DerivedStart == ASSUME DerivedInv, StartReconcile PROVE DerivedInv'
<1>1. /\ job' = [stage |-> "registry", prior |-> Registry, out |-> Now]
      /\ UNCHANGED <<adrs, decisions, disk, fresh>>
  BY DEF StartReconcile, Now, humanVars
<1>2. Now' = Now /\ Registry' = Registry
  <2>1. Registry' = Registry
    BY <1>1 DEF Registry
  <2> QED
    BY <1>1, <2>1, NowStays
<1>3. JobOK' /\ job'.stage \notin LayerStages
  BY <1>1 DEF JobOK, ReconcileStages, LayerStages
<1> QED
  BY <1>1, <1>2, <1>3 DEF DerivedInv, FilesOK, JobIsCurrent, FreshIsCurrent, FilesAreValid

LEMMA DerivedRegistry == ASSUME DerivedInv, WriteRegistry PROVE DerivedInv'
<1>1. /\ job.stage = "registry" /\ DOMAIN job = {"stage", "prior", "out"} /\ job.out = Now
      /\ UNCHANGED <<adrs, decisions>>
  <2>1. job.stage = "registry" /\ UNCHANGED <<adrs, decisions>>
    BY DEF WriteRegistry, humanVars
  <2>2. DOMAIN job = {"stage", "prior", "out"}
    BY <2>1 DEF DerivedInv, JobOK, Idle
  <2> QED
    BY <2>1, <2>2 DEF DerivedInv, JobIsCurrent, ReconcileStages
<1>2. CASE validateRegistry(job.out.registry)
  <2>1. /\ disk' = [disk EXCEPT !.registry = <<job.out.registry>>]
        /\ job' = [job EXCEPT !.stage = "unified"]
        /\ fresh' = (fresh \ {"unified", "mapping"}) \cup {"registry"}
    BY <1>2 DEF WriteRegistry
  <2>2. /\ DOMAIN disk' = DOMAIN disk /\ disk'.registry = <<job.out.registry>>
        /\ \A file \in DOMAIN emptyDisk \ {"registry"} : disk'[file] = disk[file]
    BY <2>1 DEF DerivedInv, FilesOK, emptyDisk
  <2>3. /\ disk'.unified = disk.unified /\ disk'.findings = disk.findings
        /\ disk'.intent = disk.intent /\ disk'.structure = disk.structure
        /\ disk'.behavior = disk.behavior
    BY <2>2 DEF emptyDisk
  <2>4. Now' = Now
    <3>1. PICK registry : registry = Now.registry
      OBVIOUS
    <3>2. Inputs' = Inputs /\ Registry' = registry
      BY <1>1, <2>2, <2>3, <3>1 DEF Inputs, Registry
    <3>3. Now' = reconcile(Inputs, registry, decisions)
      BY <1>1, <3>2 DEF Now
    <3>4. decisions \in Seq(ToSet(decisions))
      BY DEF DerivedInv, FilesOK, IsSequence
    <3>5. reconcile(Inputs, registry, decisions) = Now
      BY <3>1, <3>4, SecondIsTheSame DEF Now
    <3> QED
      BY <3>3, <3>5
  <2>5. job'.stage = "unified" /\ DOMAIN job' = DOMAIN job /\ job'.out = job.out
    BY <1>1, <2>1
  <2>6. JobOK' /\ job'.stage \notin LayerStages
    BY <1>1, <2>5 DEF JobOK, ReconcileStages, LayerStages
  <2>7. JobIsCurrent'
    BY <1>1, <2>4, <2>5 DEF JobIsCurrent
  <2>8. FreshIsCurrent'
    BY <1>1, <2>1, <2>2, <2>3, <2>4, <2>5, <2>6 DEF DerivedInv, FreshIsCurrent
  <2>9. FilesAreValid'
    BY <1>2, <2>2, <2>3 DEF DerivedInv, FilesAreValid
  <2> QED
    BY <1>1, <2>2, <2>6, <2>7, <2>8, <2>9 DEF DerivedInv, FilesOK
<1>3. CASE ~validateRegistry(job.out.registry)
  <2>1. job' = [job EXCEPT !.stage = "registry rejected"] /\ UNCHANGED <<disk, fresh>>
    BY <1>3 DEF WriteRegistry
  <2>2. job'.stage = "registry rejected" /\ DOMAIN job' = {"stage", "prior", "out"}
    BY <1>1, <2>1
  <2>3. Now' = Now
    BY <1>1, <2>1, NowStays
  <2> QED
    BY <1>1, <2>1, <2>2, <2>3 DEF DerivedInv, JobOK, FilesOK, JobIsCurrent, FreshIsCurrent,
       FilesAreValid, ReconcileStages, LayerStages, Rejected
<1> QED
  BY <1>2, <1>3

LEMMA DerivedUnified == ASSUME DerivedInv, WriteUnified PROVE DerivedInv'
<1>1. /\ job.stage = "unified" /\ DOMAIN job = {"stage", "prior", "out"} /\ job.out = Now
      /\ "registry" \in fresh
      /\ UNCHANGED <<adrs, decisions>>
  <2>1. job.stage = "unified" /\ UNCHANGED <<adrs, decisions>>
    BY DEF WriteUnified, humanVars
  <2>2. DOMAIN job = {"stage", "prior", "out"}
    BY <2>1 DEF DerivedInv, JobOK, Idle
  <2> QED
    BY <2>1, <2>2 DEF DerivedInv, JobIsCurrent, FreshIsCurrent, ReconcileStages
<1>2. CASE validateUnified(job.out.unified)
  <2>1. /\ disk' = [disk EXCEPT !.unified = <<job.out.unified>>]
        /\ job' = [job EXCEPT !.stage = "mapping"]
        /\ fresh' = fresh \cup {"unified"}
    BY <1>2 DEF WriteUnified
  <2>2. /\ DOMAIN disk' = DOMAIN disk /\ disk'.unified = <<job.out.unified>>
        /\ \A file \in DOMAIN emptyDisk \ {"unified"} : disk'[file] = disk[file]
    BY <2>1 DEF DerivedInv, FilesOK, emptyDisk
  <2>3. /\ disk'.registry = disk.registry /\ disk'.findings = disk.findings
        /\ disk'.mapping = disk.mapping /\ disk'.aggregates = disk.aggregates
        /\ disk'.intent = disk.intent /\ disk'.structure = disk.structure
        /\ disk'.behavior = disk.behavior
    BY <2>2 DEF emptyDisk
  <2>4. Now' = Now
    BY <1>1, <2>3, NowStays
  <2>5. job'.stage = "mapping" /\ DOMAIN job' = DOMAIN job /\ job'.out = job.out
    BY <1>1, <2>1
  <2>6. JobOK' /\ job'.stage \notin LayerStages
    BY <1>1, <2>5 DEF JobOK, ReconcileStages, LayerStages
  <2>7. JobIsCurrent'
    BY <1>1, <2>4, <2>5 DEF JobIsCurrent
  <2>8. FreshIsCurrent'
    BY <1>1, <2>1, <2>2, <2>3, <2>4, <2>5, <2>6 DEF DerivedInv, FreshIsCurrent
  <2>9. FilesAreValid'
    BY <1>2, <2>2, <2>3 DEF DerivedInv, FilesAreValid
  <2> QED
    BY <1>1, <2>2, <2>6, <2>7, <2>8, <2>9 DEF DerivedInv, FilesOK
<1>3. CASE ~validateUnified(job.out.unified)
  <2>1. job' = [job EXCEPT !.stage = "unified rejected"] /\ UNCHANGED <<disk, fresh>>
    BY <1>3 DEF WriteUnified
  <2>2. job'.stage = "unified rejected" /\ DOMAIN job' = {"stage", "prior", "out"}
    BY <1>1, <2>1
  <2>3. Now' = Now
    BY <1>1, <2>1, NowStays
  <2> QED
    BY <1>1, <2>1, <2>2, <2>3 DEF DerivedInv, JobOK, FilesOK, JobIsCurrent, FreshIsCurrent,
       FilesAreValid, ReconcileStages, LayerStages, Rejected
<1> QED
  BY <1>2, <1>3

LEMMA DerivedMapping == ASSUME DerivedInv, WriteMapping PROVE DerivedInv'
<1>1. /\ job.stage = "mapping" /\ {"registry", "unified"} \subseteq fresh
      /\ disk.unified = <<Now.unified>>
      /\ UNCHANGED <<adrs, decisions>> /\ job' = Idle
  BY DEF DerivedInv, FreshIsCurrent, WriteMapping, humanVars
<1>2. JobOK' /\ job'.stage = "idle"
  BY <1>1 DEF JobOK, Idle
<1>3. CASE disk.aggregates = <<>>
  <2>1. UNCHANGED <<disk, fresh>>
    BY <1>3 DEF WriteMapping
  <2>2. Now' = Now
    BY <1>1, <2>1, NowStays
  <2> QED
    BY <1>1, <1>2, <2>1, <2>2 DEF DerivedInv, FilesOK, JobIsCurrent, FreshIsCurrent,
       FilesAreValid, ReconcileStages, LayerStages
<1>4. CASE disk.aggregates # <<>>
  <2>1. /\ disk' = [disk EXCEPT !.mapping =
                      <<deriveAggregateEntityMapping(disk.unified[1], disk.aggregates[1])>>]
        /\ fresh' = fresh \cup {"mapping"}
    BY <1>4 DEF WriteMapping
  <2>2. /\ DOMAIN disk' = DOMAIN disk
        /\ disk'.mapping = <<deriveAggregateEntityMapping(Now.unified, disk.aggregates[1])>>
        /\ \A file \in DOMAIN emptyDisk \ {"mapping"} : disk'[file] = disk[file]
    BY <1>1, <2>1 DEF DerivedInv, FilesOK, emptyDisk
  <2>3. /\ disk'.registry = disk.registry /\ disk'.findings = disk.findings
        /\ disk'.unified = disk.unified /\ disk'.aggregates = disk.aggregates
        /\ disk'.intent = disk.intent /\ disk'.structure = disk.structure
        /\ disk'.behavior = disk.behavior
    BY <2>2 DEF emptyDisk
  <2>4. Now' = Now
    BY <1>1, <2>3, NowStays
  <2>5. FreshIsCurrent'
    BY <1>1, <1>2, <2>1, <2>2, <2>3, <2>4 DEF DerivedInv, FreshIsCurrent, LayerStages
  <2> QED
    BY <1>1, <1>2, <2>2, <2>3, <2>4, <2>5 DEF DerivedInv, FilesOK, JobIsCurrent, FilesAreValid,
       ReconcileStages
<1> QED
  BY <1>3, <1>4

LEMMA DerivedVerify == ASSUME DerivedInv, Verify PROVE DerivedInv'
<1>1. /\ job = Idle /\ disk.unified # <<>>
      /\ disk' = [disk EXCEPT !.findings = <<verifyUnified(disk.unified[1])>>]
      /\ job' = [stage |-> "boundary"]
      /\ UNCHANGED <<adrs, decisions, fresh>>
  BY DEF Verify, humanVars
<1>2. /\ DOMAIN disk' = DOMAIN disk
      /\ disk'.findings = <<verifyUnified(disk.unified[1])>>
      /\ \A file \in DOMAIN emptyDisk \ {"findings"} : disk'[file] = disk[file]
  BY <1>1 DEF DerivedInv, FilesOK, emptyDisk
<1>3. /\ disk'.registry = disk.registry /\ disk'.mapping = disk.mapping
      /\ disk'.unified = disk.unified /\ disk'.aggregates = disk.aggregates
      /\ disk'.intent = disk.intent /\ disk'.structure = disk.structure
      /\ disk'.behavior = disk.behavior
  BY <1>2 DEF emptyDisk
<1>4. Now' = Now
  BY <1>1, <1>3, NowStays
<1>5. JobOK' /\ job'.stage = "boundary"
  BY <1>1 DEF JobOK
<1>6. FreshIsCurrent'
  BY <1>1, <1>2, <1>3, <1>4, <1>5 DEF DerivedInv, FreshIsCurrent, LayerStages
<1> QED
  BY <1>1, <1>2, <1>3, <1>4, <1>5, <1>6 DEF DerivedInv, FilesOK, JobIsCurrent, FilesAreValid,
     ReconcileStages

LEMMA DerivedBoundary == ASSUME DerivedInv, WriteBoundary PROVE DerivedInv'
<1>1. /\ job.stage = "boundary" /\ job' = Idle
      /\ \E report : disk' = [disk EXCEPT !.boundary = report]
      /\ fresh' = fresh \cup {"boundary"} \cup IF "unified" \in fresh THEN {"findings"} ELSE {}
      /\ UNCHANGED <<adrs, decisions>>
  BY DEF WriteBoundary, humanVars
<1>2. /\ DOMAIN disk' = DOMAIN disk
      /\ \A file \in DOMAIN emptyDisk \ {"boundary"} : disk'[file] = disk[file]
  BY <1>1 DEF DerivedInv, FilesOK, emptyDisk
<1>3. /\ disk'.registry = disk.registry /\ disk'.mapping = disk.mapping
      /\ disk'.unified = disk.unified /\ disk'.aggregates = disk.aggregates
      /\ disk'.intent = disk.intent /\ disk'.structure = disk.structure
      /\ disk'.behavior = disk.behavior /\ disk'.findings = disk.findings
  BY <1>2 DEF emptyDisk
<1>4. Now' = Now
  BY <1>1, <1>3, NowStays
<1>5. JobOK' /\ job'.stage = "idle"
  BY <1>1 DEF JobOK, Idle
<1>6. FreshIsCurrent'
  BY <1>1, <1>2, <1>3, <1>4, <1>5 DEF DerivedInv, FreshIsCurrent, LayerStages
<1> QED
  BY <1>1, <1>2, <1>3, <1>4, <1>5, <1>6 DEF DerivedInv, FilesOK, JobIsCurrent, FilesAreValid,
     ReconcileStages

LEMMA DerivedEnds == ASSUME DerivedInv, EndRejected \/ Crash PROVE DerivedInv'
<1>1. job' = Idle /\ UNCHANGED <<adrs, decisions, disk, fresh>>
  BY DEF EndRejected, Crash, humanVars
<1>2. Now' = Now
  BY <1>1, NowStays
<1>3. JobOK' /\ job'.stage = "idle"
  BY <1>1 DEF JobOK, Idle
<1> QED
  BY <1>1, <1>2, <1>3 DEF DerivedInv, FilesOK, JobIsCurrent, FreshIsCurrent, FilesAreValid,
     ReconcileStages, LayerStages

LEMMA DerivedNext == ASSUME DerivedInv, [Next]_vars PROVE DerivedInv'
<1>1. CASE UNCHANGED vars
  <2>1. UNCHANGED <<adrs, decisions, disk, fresh, job>>
    BY <1>1 DEF vars, humanVars
  <2>2. Now' = Now /\ Registry' = Registry
    <3>1. Registry' = Registry
      BY <2>1 DEF Registry
    <3> QED
      BY <2>1, <3>1, NowStays
  <2> QED
    BY <2>1, <2>2 DEF DerivedInv, JobOK, FilesOK, JobIsCurrent, FreshIsCurrent, FilesAreValid
<1> QED
  BY <1>1, DerivedEdit, DerivedLayer, DerivedStart, DerivedRegistry, DerivedUnified,
     DerivedMapping, DerivedVerify, DerivedBoundary, DerivedEnds DEF Next

LEMMA DerivedAlways == Spec => []DerivedInv
<1>1. DerivedInv /\ [Next]_vars => DerivedInv'
  BY DerivedNext
<1> QED
  BY DerivedInit, <1>1, PTL DEF Spec

-------------------------------------------------------------------------------
(* Reconciling settles.                                                      *)

\* Reconciling again, with nothing changed but the registry just written, gives
\* the registry and the queue just given, whatever the layers, the decisions
\* and the registry were (pipeline.ts, queue.ts).
THEOREM SpineReconcileSettles == Spec => []ReconcileSettles
<1>1. DerivedInv => ReconcileSettles
  <2> SUFFICES ASSUME DerivedInv, job.stage = "unified"
               PROVE  LET again == reconcile(Inputs, Registry, decisions)
                      IN again.registry = job.out.registry /\ again.queue = job.out.queue
    BY DEF ReconcileSettles
  <2>1. job.out = reconcile(Inputs, Registry, decisions)
    BY DEF DerivedInv, JobIsCurrent, ReconcileStages, Now
  <2> QED
    BY Zenon, <2>1
<1> QED
  BY DerivedAlways, <1>1, PTL

-------------------------------------------------------------------------------
(* What the layers put on the spine.                                         *)

LEMMA SequenceIs ==
    ASSUME NEW s, IsSequence(s)
    PROVE  Len(s) \in Nat /\ DOMAIN s = 1..Len(s) /\ \A i \in 1..Len(s) : s[i] \in ToSet(s)
  BY DEF IsSequence, ToSet

LEMMA TypedIs ==
    ASSUME NEW T, NEW s \in Seq(T)
    PROVE  IsSequence(s) /\ ToSet(s) \subseteq T
<1>1. DOMAIN s = 1..Len(s) /\ Len(s) \in Nat /\ s = [i \in 1..Len(s) |-> s[i]]
  OBVIOUS
<1> QED
  BY <1>1 DEF IsSequence, ToSet

LEMMA OnOneToN ==
    ASSUME NEW f, NEW n \in Nat, DOMAIN f = 1..n, f = [i \in 1..n |-> f[i]]
    PROVE  IsSequence(f) /\ ToSet(f) = {f[i] : i \in 1..n} /\ Len(f) = n
<1>1. \A i \in 1..n : f[i] \in ToSet(f)
  BY DEF ToSet
<1>2. f \in Seq(ToSet(f))
  <2> HIDE DEF ToSet
  <2>1. PICK S : S = ToSet(f)
    OBVIOUS
  <2>2. [i \in 1..n |-> f[i]] \in Seq(S)
    BY <1>1, <2>1
  <2> QED
    BY <2>1, <2>2
<1> QED
  BY <1>2 DEF IsSequence, ToSet

LEMMA ConcatIs ==
    ASSUME NEW s, IsSequence(s), NEW t, IsSequence(t)
    PROVE  IsSequence(s \o t) /\ ToSet(s \o t) = ToSet(s) \cup ToSet(t)
<1>1. PICK S, T : S = ToSet(s) /\ T = ToSet(t)
  OBVIOUS
<1>2. s \in Seq(S \cup T) /\ t \in Seq(S \cup T)
  <2>1. s \in Seq(S) /\ t \in Seq(T)
    BY <1>1 DEF IsSequence
  <2> QED
    BY <2>1
<1>3. s \o t \in Seq(S \cup T)
  BY <1>2
<1>4. \A i \in 1..Len(s) : (s \o t)[i] = s[i] /\ i \in 1..Len(s \o t)
  BY <1>2
<1>5. \A i \in 1..Len(t) : (s \o t)[Len(s) + i] = t[i] /\ Len(s) + i \in 1..Len(s \o t)
  BY <1>2
<1>6. /\ DOMAIN s = 1..Len(s) /\ DOMAIN t = 1..Len(t) /\ DOMAIN (s \o t) = 1..Len(s \o t)
  BY <1>2, <1>3
<1>7. ToSet(s \o t) \subseteq S \cup T
  BY <1>3, TypedIs
<1>8. S \subseteq ToSet(s \o t)
  BY <1>1, <1>4, <1>6 DEF ToSet
<1>9. T \subseteq ToSet(s \o t)
  BY <1>1, <1>5, <1>6 DEF ToSet
<1>10. IsSequence(s \o t)
  BY <1>3, TypedIs
<1> QED
  BY <1>1, <1>7, <1>8, <1>9, <1>10

LEMMA OnlyOf ==
    ASSUME NEW s, IsSequence(s), NEW set
    PROVE  IsSequence(Only(s, set)) /\ ToSet(Only(s, set)) = ToSet(s) \cap set
<1>1. PICK T : T = ToSet(s)
  OBVIOUS
<1>2. s \in Seq(T)
  BY <1>1 DEF IsSequence
<1>3. Only(s, set) \in Seq(T) /\ ToSet(Only(s, set)) = T \cap set
  BY <1>1, <1>2, OnlyIs
<1> QED
  BY <1>1, <1>3, TypedIs

IntentNodesOK(nodes) ==
    /\ IsSequence(nodes)
    /\ \A n \in ToSet(nodes) :
          /\ n.nodeId[1] \in {"intent:concept", "intent:event", "intent:transition"}
          /\ isConceptNode(n) =>
                /\ n.raw.conceptId[1] = "concept" /\ n.localName \in Name
                /\ {n.raw.aliases, n.raw.attributes, n.raw.dependsOn} \subseteq SUBSET Name

LEMMA IntentEmitted ==
    ASSUME NEW glossary, GlossaryShape(glossary)
    PROVE  IntentNodesOK(emitIntentNodes(glossary))
<1> DEFINE a == MapSeq(glossary.concepts, conceptNode)
           b == MapSeq(glossary.events, intentEventNode)
           c == MapSeq(glossary.transitions, intentTransitionNode)
           OK(n) ==
              /\ n.nodeId[1] \in {"intent:concept", "intent:event", "intent:transition"}
              /\ isConceptNode(n) =>
                    /\ n.raw.conceptId[1] = "concept" /\ n.localName \in Name
                    /\ {n.raw.aliases, n.raw.attributes, n.raw.dependsOn} \subseteq SUBSET Name
<1>1. IsSequence(a) /\ \A n \in ToSet(a) : OK(n)
  <2>1. PICK k : k = Len(glossary.concepts)
    OBVIOUS
  <2>2. k \in Nat /\ DOMAIN glossary.concepts = 1..k
        /\ \A i \in 1..k : ConceptShape(glossary.concepts[i])
    BY <2>1, SequenceIs DEF GlossaryShape
  <2>3. a = [i \in 1..k |-> conceptNode(glossary.concepts[i])]
    BY <2>2 DEF MapSeq
  <2>4. IsSequence(a) /\ ToSet(a) = {a[i] : i \in 1..k}
    <3> HIDE DEF a
    <3> QED
      BY <2>2, <2>3, OnOneToN
  <2>5. ASSUME NEW concept, ConceptShape(concept) PROVE OK(conceptNode(concept))
    <3>1. canonicalId(concept)[1] = "concept"
      BY <2>5 DEF canonicalId, ConceptShape
    <3> QED
      BY <2>5, <3>1 DEF conceptNode, ConceptShape, isConceptNode
  <2>6. \A i \in 1..k : OK(conceptNode(glossary.concepts[i]))
    <3> HIDE DEF OK
    <3> QED
      BY <2>2, <2>5
  <2> HIDE DEF OK, a
  <2> QED
    BY <2>3, <2>4, <2>6
<1>2. IsSequence(b) /\ \A n \in ToSet(b) : OK(n)
  <2>1. PICK k : k = Len(glossary.events)
    OBVIOUS
  <2>2. k \in Nat /\ DOMAIN glossary.events = 1..k
    BY <2>1, SequenceIs DEF GlossaryShape
  <2>3. b = [i \in 1..k |-> intentEventNode(glossary.events[i])]
    BY <2>2 DEF MapSeq
  <2>4. IsSequence(b) /\ ToSet(b) = {b[i] : i \in 1..k}
    <3> HIDE DEF b
    <3> QED
      BY <2>2, <2>3, OnOneToN
  <2>5. \A e : OK(intentEventNode(e))
    BY DEF intentEventNode, isConceptNode
  <2> HIDE DEF OK, b
  <2> QED
    BY <2>3, <2>4, <2>5
<1>3. IsSequence(c) /\ \A n \in ToSet(c) : OK(n)
  <2>1. PICK k : k = Len(glossary.transitions)
    OBVIOUS
  <2>2. k \in Nat /\ DOMAIN glossary.transitions = 1..k
    BY <2>1, SequenceIs DEF GlossaryShape
  <2>3. c = [i \in 1..k |-> intentTransitionNode(glossary.transitions[i])]
    BY <2>2 DEF MapSeq
  <2>4. IsSequence(c) /\ ToSet(c) = {c[i] : i \in 1..k}
    <3> HIDE DEF c
    <3> QED
      BY <2>2, <2>3, OnOneToN
  <2>5. \A t : OK(intentTransitionNode(t))
    BY DEF intentTransitionNode, isConceptNode
  <2> HIDE DEF OK, c
  <2> QED
    BY <2>3, <2>4, <2>5
<1>4. emitIntentNodes(glossary) = a \o b \o c
  BY Zenon DEF emitIntentNodes
<1> HIDE DEF a, b, c
<1>5. IsSequence(a \o b) /\ ToSet(a \o b) = ToSet(a) \cup ToSet(b)
  BY <1>1, <1>2, ConcatIs
<1>6. IsSequence(a \o b \o c) /\ ToSet(a \o b \o c) = ToSet(a \o b) \cup ToSet(c)
  BY <1>3, <1>5, ConcatIs
<1> QED
  BY <1>1, <1>2, <1>3, <1>4, <1>5, <1>6 DEF IntentNodesOK

LEMMA MapIs ==
    ASSUME NEW s, IsSequence(s), NEW f, DOMAIN f = DOMAIN s, f = [i \in DOMAIN s |-> f[i]]
    PROVE  IsSequence(f) /\ \A x \in ToSet(f) : \E i \in DOMAIN s : x = f[i]
<1>1. PICK n : n = Len(s)
  OBVIOUS
<1>2. n \in Nat /\ DOMAIN s = 1..n
  BY <1>1, SequenceIs
<1>3. IsSequence(f) /\ ToSet(f) = {f[i] : i \in 1..n}
  BY <1>2, OnOneToN
<1> QED
  BY <1>2, <1>3

LEMMA LastNamed ==
    ASSUME NEW T, NEW entities \in Seq(T), NEW i \in DOMAIN entities
    PROVE  LET last == SelectLastInSeq(entities, LAMBDA e : e.name = entities[i].name)
           IN last \in DOMAIN entities /\ entities[last].name = entities[i].name
<1> DEFINE I == {j \in 1..Len(entities) : entities[j].name = entities[i].name}
<1>1. SelectLastInSeq(entities, LAMBDA e : e.name = entities[i].name) = IF I # {} THEN Max(I) ELSE 0
  BY DEF SelectLastInSeq
<1>2. Len(entities) \in Nat /\ DOMAIN entities = 1..Len(entities)
  OBVIOUS
<1>3. I \in SUBSET (1..Len(entities)) /\ I # {}
  BY <1>2
<1>4. Max(I) \in I
  <2> HIDE DEF I
  <2> QED
    BY <1>2, <1>3, MaxIs
<1> QED
  BY <1>1, <1>2, <1>3, <1>4

LEMMA FirstIs ==
    ASSUME NEW T, NEW entities \in Seq(T), NEW name, Knows(entities, name)
    PROVE  /\ FirstOf(entities, name) \in DOMAIN entities
           /\ entities[FirstOf(entities, name)].name = name
<1> DEFINE I == {j \in 1..Len(entities) : entities[j].name = name}
<1>1. FirstOf(entities, name) = IF I # {} THEN Min(I) ELSE 0
  BY DEF FirstOf, SelectInSeq
<1>2. Len(entities) \in Nat /\ DOMAIN entities = 1..Len(entities)
  OBVIOUS
<1>3. I \in SUBSET Nat /\ I # {}
  BY <1>2 DEF Knows
<1>4. Min(I) \in I
  <2> HIDE DEF I
  <2>1. \E x \in I : \A y \in I : x <= y
    BY <1>3, LeastNat
  <2> QED
    BY <2>1 DEF Min
<1> QED
  BY <1>1, <1>2, <1>3, <1>4

LEMMA DistinctIs ==
    ASSUME NEW T, NEW entities \in Seq(T)
    PROVE  /\ IsSequence(Distinct(entities)) /\ ToSet(Distinct(entities)) \subseteq T
           /\ \A x, y \in ToSet(Distinct(entities)) : x.name = y.name => x = y
           /\ \A i \in DOMAIN entities : \E x \in ToSet(Distinct(entities)) :
                 x.name = entities[i].name
<1> DEFINE lastOf(name) == SelectLastInSeq(entities, LAMBDA e : e.name = name)
           firsts == {i \in DOMAIN entities : FirstOf(entities, entities[i].name) = i}
           order  == Only([i \in DOMAIN entities |-> i], firsts)
           d == Distinct(entities)
<1>1. d = [k \in DOMAIN order |-> entities[lastOf(entities[order[k]].name)]]
  BY Zenon DEF Distinct
<1>2. IsSequence(order) /\ ToSet(order) = firsts /\ DOMAIN order = 1..Len(order)
  <2>1. PICK n : n = Len(entities) /\ n \in Nat /\ DOMAIN entities = 1..n
    OBVIOUS
  <2>2. PICK index : index = [i \in DOMAIN entities |-> i]
    OBVIOUS
  <2>3. IsSequence(index)
    BY <2>1, <2>2, OnOneToN
  <2> HIDE DEF firsts
  <2>4. IsSequence(Only(index, firsts)) /\ ToSet(Only(index, firsts)) = ToSet(index) \cap firsts
    BY <2>3, OnlyOf
  <2>6. ToSet(index) = DOMAIN entities
    BY <2>1, <2>2 DEF ToSet
  <2>7. firsts \subseteq DOMAIN entities
    BY DEF firsts
  <2>5. order = Only(index, firsts)
    BY Zenon, <2>2
  <2> QED
    BY <2>4, <2>5, <2>6, <2>7, SequenceIs
<1>3. \A k \in DOMAIN order : order[k] \in firsts
  BY <1>2, SequenceIs
<1>4. \A i \in DOMAIN entities : /\ lastOf(entities[i].name) \in DOMAIN entities
                                 /\ entities[lastOf(entities[i].name)].name = entities[i].name
  BY LastNamed
<1>5. \A k \in DOMAIN order : order[k] \in DOMAIN entities
                              /\ FirstOf(entities, entities[order[k]].name) = order[k]
  <2> HIDE DEF order, lastOf
  <2> QED
    BY <1>3
<1>6. \A i \in DOMAIN entities : entities[i] \in T
  OBVIOUS
<1>11. \A i \in DOMAIN entities : \E k \in DOMAIN order : entities[order[k]].name = entities[i].name
  <2> SUFFICES ASSUME NEW i \in DOMAIN entities
               PROVE  \E k \in DOMAIN order : entities[order[k]].name = entities[i].name
    OBVIOUS
  <2>1. PICK f : f = FirstOf(entities, entities[i].name)
    OBVIOUS
  <2>2. f \in DOMAIN entities /\ entities[f].name = entities[i].name
    BY <2>1, FirstIs DEF Knows
  <2>3. f \in firsts
    BY <2>1, <2>2
  <2> HIDE DEF order, firsts
  <2>4. \E k \in DOMAIN order : order[k] = f
    BY <1>2, <2>3 DEF ToSet
  <2> QED
    BY <2>2, <2>4
<1> HIDE DEF order, lastOf, firsts, d
<1>7. DOMAIN d = DOMAIN order /\ d = [k \in DOMAIN order |-> d[k]]
      /\ \A k \in DOMAIN order : d[k] = entities[lastOf(entities[order[k]].name)]
  BY <1>1
<1>8. IsSequence(d) /\ \A x \in ToSet(d) : \E k \in DOMAIN order : x = d[k]
  BY <1>2, <1>7, MapIs
<1>9. ToSet(d) \subseteq T
  BY <1>4, <1>5, <1>6, <1>7, <1>8
<1>10. ASSUME NEW x \in ToSet(d), NEW y \in ToSet(d), x.name = y.name PROVE x = y
  <2>1. PICK j \in DOMAIN order, k \in DOMAIN order : x = d[j] /\ y = d[k]
    BY <1>8
  <2>2. x.name = entities[order[j]].name /\ y.name = entities[order[k]].name
    BY <1>4, <1>5, <1>7, <2>1
  <2>3. order[j] = order[k]
    BY <1>5, <1>10, <2>2
  <2> QED
    BY <1>7, <2>1, <2>3
<1>12. \A i \in DOMAIN entities : \E x \in ToSet(d) : x.name = entities[i].name
  <2> SUFFICES ASSUME NEW i \in DOMAIN entities
               PROVE  \E x \in ToSet(d) : x.name = entities[i].name
    OBVIOUS
  <2>1. PICK k \in DOMAIN order : entities[order[k]].name = entities[i].name
    BY <1>11
  <2>2. d[k].name = entities[i].name
    BY <1>4, <1>5, <1>7, <2>1
  <2>3. d[k] \in ToSet(d)
    BY <1>7 DEF ToSet
  <2> QED
    BY <2>2, <2>3
<1> QED
  BY <1>8, <1>9, <1>10, <1>12 DEF d

EntityNodeOK(n) ==
    /\ n.nodeId = EntityId(n.localName) /\ n.localName \in Name
    /\ n.raw.attributes \subseteq Name /\ n.raw.dependsOn \in Seq(Name)

StructureNodesOK(nodes) ==
    /\ IsSequence(nodes)
    /\ \A n \in ToSet(nodes) :
          /\ n.raw.kind \in {"entity", "route", "event", "transition"}
          /\ IF isEntityNode(n) THEN EntityNodeOK(n)
             ELSE n.nodeId[1] \in {"structure:route", "structure:event", "structure:transition"}
    /\ \A m, n \in EntityNodes(nodes) : m.localName = n.localName => m = n

\* The nodes of the entities are those of records, and no name is left out.
EntitiesTold(nodes, extract, corrected) ==
    /\ \A n \in EntityNodes(nodes) : \E e \in ToSet(extract.entities) :
          n = entityNode(e, extract, corrected)
    /\ \A e \in ToSet(extract.entities) : \E n \in EntityNodes(nodes) : n.localName = e.name

LEMMA StructureEmitted ==
    ASSUME NEW extract, NEW corrected, extract.entities \in Seq(Entity),
           IsSequence(extract.routes), IsSequence(extract.events), IsSequence(extract.transitions)
    PROVE  /\ StructureNodesOK(emitStructureNodes(extract, corrected))
           /\ EntitiesTold(emitStructureNodes(extract, corrected), extract, corrected)
<1> DEFINE a == MapSeq(extract.routes, LAMBDA r : routeNode(r, extract))
           distinct == Distinct(extract.entities)
           b == MapSeq(distinct, LAMBDA e : entityNode(e, extract, corrected))
           c == MapSeq(extract.events, structureEventNode)
           d == MapSeq(extract.transitions, structureTransitionNode)
           Other(n) == /\ n.raw.kind \in {"route", "event", "transition"}
                       /\ n.nodeId[1] \in
                             {"structure:route", "structure:event", "structure:transition"}
<1>1. IsSequence(a) /\ \A n \in ToSet(a) : Other(n)
  <2>1. a = [i \in DOMAIN extract.routes |-> routeNode(extract.routes[i], extract)]
    BY Zenon DEF MapSeq
  <2>2. \A r : Other(routeNode(r, extract))
    <3> SUFFICES ASSUME NEW r PROVE Other(routeNode(r, extract))
      OBVIOUS
    <3>1. PICK anchor : anchor = RouteAnchor(extract, RouteKey(r))
      OBVIOUS
    <3>2. routeNode(r, extract)
             = [nodeId |-> <<"structure:route", RouteKey(r)>>, route |-> RouteKey(r),
                raw |-> [kind |-> "route", entity |-> anchor.entity, crud |-> anchor.crud,
                         inputs |-> r.inputs, events |-> r.events]]
      BY Zenon, <3>1 DEF routeNode
    <3> QED
      BY <3>2
  <2> HIDE DEF a, Other
  <2>3. IsSequence(a) /\ \A x \in ToSet(a) : \E i \in DOMAIN extract.routes : x = a[i]
    BY <2>1, MapIs
  <2> QED
    BY <2>1, <2>2, <2>3
<1>2. IsSequence(b) /\ \A n \in ToSet(b) : isEntityNode(n) /\ EntityNodeOK(n)
  <2>1. b = [i \in DOMAIN distinct |-> entityNode(distinct[i], extract, corrected)]
    BY Zenon DEF MapSeq
  <2>2. \A e \in Entity : /\ isEntityNode(entityNode(e, extract, corrected))
                          /\ EntityNodeOK(entityNode(e, extract, corrected))
    BY DEF entityNode, Entity, EntityNodeOK, isEntityNode, EntityId
  <2>3. IsSequence(distinct) /\ ToSet(distinct) \subseteq Entity
    BY DistinctIs
  <2> HIDE DEF b, distinct
  <2>4. IsSequence(b) /\ \A x \in ToSet(b) : \E i \in DOMAIN distinct : x = b[i]
    BY <2>1, <2>3, MapIs
  <2>5. \A i \in DOMAIN distinct : distinct[i] \in Entity
    BY <2>3, SequenceIs
  <2> QED
    BY <2>1, <2>2, <2>4, <2>5
<1>3. \A m, n \in ToSet(b) : m.localName = n.localName => m = n
  <2>1. b = [i \in DOMAIN distinct |-> entityNode(distinct[i], extract, corrected)]
    BY Zenon DEF MapSeq
  <2>2. \A e : entityNode(e, extract, corrected).localName = e.name
    BY DEF entityNode
  <2>3. /\ IsSequence(distinct)
        /\ \A x, y \in ToSet(distinct) : x.name = y.name => x = y
    BY DistinctIs
  <2> HIDE DEF b, distinct
  <2>4. \A x \in ToSet(b) : \E i \in DOMAIN distinct : x = b[i]
    BY <2>1, <2>3, MapIs
  <2>5. \A i \in DOMAIN distinct : distinct[i] \in ToSet(distinct)
    BY <2>3, SequenceIs
  <2> QED
    BY <2>1, <2>2, <2>3, <2>4, <2>5
<1>14. /\ \A n \in ToSet(b) : \E x \in ToSet(extract.entities) :
                 n = entityNode(x, extract, corrected)
       /\ \A x \in ToSet(extract.entities) : \E n \in ToSet(b) : n.localName = x.name
  <2>1. b = [i \in DOMAIN distinct |-> entityNode(distinct[i], extract, corrected)]
    BY Zenon DEF MapSeq
  <2>2. \A e : entityNode(e, extract, corrected).localName = e.name
    BY DEF entityNode
  <2>3. PICK T : T = ToSet(extract.entities)
    OBVIOUS
  <2>4. extract.entities \in Seq(T)
    BY <2>3, TypedIs DEF IsSequence
  <2>5. /\ IsSequence(distinct) /\ ToSet(distinct) \subseteq T
        /\ \A i \in DOMAIN extract.entities : \E x \in ToSet(distinct) :
              x.name = extract.entities[i].name
    BY <2>4, DistinctIs
  <2> HIDE DEF b, distinct
  <2>6. \A x \in ToSet(b) : \E i \in DOMAIN distinct : x = b[i]
    BY <2>1, <2>5, MapIs
  <2>7. \A i \in DOMAIN distinct : distinct[i] \in ToSet(distinct)
    BY <2>5, SequenceIs
  <2>8. \A x \in ToSet(distinct) : \E n \in ToSet(b) : n.localName = x.name
    <3> SUFFICES ASSUME NEW i \in DOMAIN distinct PROVE \E n \in ToSet(b) : n.localName = distinct[i].name
      BY DEF ToSet
    <3>1. b[i] \in ToSet(b) /\ b[i].localName = distinct[i].name
      BY <2>1, <2>2 DEF ToSet
    <3> QED
      BY <3>1
  <2>9. \A x \in ToSet(extract.entities) : \E y \in ToSet(distinct) : y.name = x.name
    BY <2>5 DEF ToSet
  <2> QED
    BY <2>1, <2>3, <2>5, <2>6, <2>7, <2>8, <2>9
<1>4. IsSequence(c) /\ \A n \in ToSet(c) : Other(n)
  <2>1. c = [i \in DOMAIN extract.events |-> structureEventNode(extract.events[i])]
    BY Zenon DEF MapSeq
  <2>2. \A e : Other(structureEventNode(e))
    BY DEF structureEventNode
  <2> HIDE DEF c, Other
  <2>3. IsSequence(c) /\ \A x \in ToSet(c) : \E i \in DOMAIN extract.events : x = c[i]
    BY <2>1, MapIs
  <2> QED
    BY <2>1, <2>2, <2>3
<1>5. IsSequence(d) /\ \A n \in ToSet(d) : Other(n)
  <2>1. d = [i \in DOMAIN extract.transitions |-> structureTransitionNode(extract.transitions[i])]
    BY Zenon DEF MapSeq
  <2>2. \A t : Other(structureTransitionNode(t))
    BY DEF structureTransitionNode
  <2> HIDE DEF d, Other
  <2>3. IsSequence(d) /\ \A x \in ToSet(d) : \E i \in DOMAIN extract.transitions : x = d[i]
    BY <2>1, MapIs
  <2> QED
    BY <2>1, <2>2, <2>3
<1>6. emitStructureNodes(extract, corrected) = a \o b \o c \o d
  BY Zenon DEF emitStructureNodes
<1> HIDE DEF a, b, c, d
<1>7. IsSequence(a \o b) /\ ToSet(a \o b) = ToSet(a) \cup ToSet(b)
  BY <1>1, <1>2, ConcatIs
<1>8. IsSequence(a \o b \o c) /\ ToSet(a \o b \o c) = ToSet(a \o b) \cup ToSet(c)
  BY <1>4, <1>7, ConcatIs
<1>9. IsSequence(a \o b \o c \o d) /\ ToSet(a \o b \o c \o d) = ToSet(a \o b \o c) \cup ToSet(d)
  BY <1>5, <1>8, ConcatIs
<1>10. PICK nodes : nodes = emitStructureNodes(extract, corrected)
  OBVIOUS
<1>11. /\ IsSequence(nodes)
       /\ \A n \in ToSet(nodes) : n \in ToSet(b) \/ Other(n)
       /\ \A n \in ToSet(b) : n \in ToSet(nodes)
  <2> HIDE DEF Other
  <2> QED
    BY <1>1, <1>4, <1>5, <1>6, <1>7, <1>8, <1>9, <1>10
<1>12. \A n : Other(n) => n.raw.kind # "entity"
  OBVIOUS
<1>13. \A n \in EntityNodes(nodes) : n \in ToSet(b)
  <2> HIDE DEF Other
  <2> QED
    BY <1>11, <1>12 DEF EntityNodes, isEntityNode
<1>15. EntitiesTold(nodes, extract, corrected)
  <2>1. \A n : n \in EntityNodes(nodes) <=> n \in ToSet(b)
    BY <1>2, <1>11, <1>13 DEF EntityNodes
  <2> QED
    BY <1>14, <2>1 DEF EntitiesTold
<1> QED
  BY <1>2, <1>3, <1>10, <1>11, <1>13, <1>15 DEF StructureNodesOK, isEntityNode

-------------------------------------------------------------------------------
(* The corrected extract.                                                    *)

Corrected ==
    [entities  : Seq(Entity), overrides : UNION {[D -> SUBSET CrudLetter] : D \in SUBSET Name},
     corrected : SUBSET Name]

LEMMA OverridesAre ==
    ASSUME NEW f
    PROVE  f \in UNION {[D -> SUBSET CrudLetter] : D \in SUBSET Name}
             <=> DOMAIN f \subseteq Name /\ f \in [DOMAIN f -> SUBSET CrudLetter]
<1>1. ASSUME f \in UNION {[D -> SUBSET CrudLetter] : D \in SUBSET Name}
      PROVE  DOMAIN f \subseteq Name /\ f \in [DOMAIN f -> SUBSET CrudLetter]
  <2>1. PICK D \in SUBSET Name : f \in [D -> SUBSET CrudLetter]
    BY <1>1
  <2> QED
    BY <2>1
<1> QED
  BY <1>1

LEMMA CorrectIs ==
    ASSUME NEW state \in Corrected, NEW c \in Correction
    PROVE  Correct(state, c) \in Corrected
<1> DEFINE O == UNION {[D -> SUBSET CrudLetter] : D \in SUBSET Name}
           known == Knows(state.entities, c.entity)
<1>1. /\ state = [entities |-> state.entities, overrides |-> state.overrides,
                  corrected |-> state.corrected]
      /\ state.entities \in Seq(Entity) /\ state.overrides \in O /\ state.corrected \subseteq Name
  BY DEF Corrected
<1>2. /\ c.entity \in Name /\ c.attributes \subseteq Name /\ c.dependsOn \in Seq(Name)
      /\ c.crud \subseteq CrudLetter
      /\ c.kind = "rename-entity" => c.to \in Name
  BY DEF Correction
<1>3. ASSUME NEW e, NEW o, NEW t, e \in Seq(Entity), o \in O, t \subseteq Name
      PROVE  [entities |-> e, overrides |-> o, corrected |-> t] \in Corrected
  BY <1>3 DEF Corrected
<1> HIDE DEF O
<1>4. CASE c.kind = "add-entity" /\ ~known
  <2>1. Correct(state, c) =
          [state EXCEPT
             !.entities = Append(@, [name |-> c.entity, attributes |-> c.attributes,
                                     dependsOn |-> c.dependsOn]),
             !.corrected = @ \cup {c.entity}]
    BY <1>4 DEF Correct
  <2>2. [name |-> c.entity, attributes |-> c.attributes, dependsOn |-> c.dependsOn] \in Entity
    BY <1>2 DEF Entity
  <2>3. PICK new \in Entity :
          Correct(state, c) = [entities |-> Append(state.entities, new),
                               overrides |-> state.overrides,
                               corrected |-> state.corrected \cup {c.entity}]
    BY <1>1, <2>1, <2>2
  <2>4. Append(state.entities, new) \in Seq(Entity)
    BY <1>1
  <2> QED
    BY <1>1, <1>2, <1>3, <2>3, <2>4
<1>5. CASE c.kind = "remove-entity" /\ known
  <2>1. PICK set : Correct(state, c) =
          [state EXCEPT !.entities = Only(@, set), !.overrides = Without(@, c.entity)]
    BY <1>5 DEF Correct
  <2>2. Only(state.entities, set) \in Seq(Entity)
    BY <1>1, OnlyIs
  <2>3. Without(state.overrides, c.entity) \in O
    BY <1>1, OverridesAre DEF Without, Restrict, O
  <2>4. Correct(state, c) = [entities |-> Only(state.entities, set),
                             overrides |-> Without(state.overrides, c.entity),
                             corrected |-> state.corrected]
    BY <1>1, <2>1
  <2> QED
    BY <1>1, <1>3, <2>2, <2>3, <2>4
<1>6. CASE c.kind = "rename-entity" /\ known
  <2> DEFINE i == FirstOf(state.entities, c.entity)
             named == [state.entities EXCEPT ![i].name = c.to]
             relinked == [k \in DOMAIN named |->
                            [named[k] EXCEPT !.dependsOn = ReplaceAll(@, c.entity, c.to)]]
             o == IF c.entity \in DOMAIN state.overrides
                  THEN [n \in (DOMAIN state.overrides \cup {c.to}) \ {c.entity} |->
                          state.overrides[IF n = c.to THEN c.entity ELSE n]]
                  ELSE state.overrides
  <2>1. Correct(state, c) = Renamed(state, c.entity, c.to)
    BY <1>6 DEF Correct
  <2>2. Renamed(state, c.entity, c.to)
          = [entities |-> relinked, overrides |-> o, corrected |-> state.corrected \cup {c.to}]
    BY Zenon DEF Renamed
  <2> HIDE DEF i
  <2>3. PICK n : n = Len(state.entities) /\ n \in Nat /\ DOMAIN state.entities = 1..n
                 /\ \A k \in 1..n : state.entities[k] \in Entity
    BY <1>1
  <2>4. DOMAIN named = 1..n /\ \A k \in 1..n : named[k] \in Entity
    <3>1. \A k \in 1..n : named[k] = IF k = i THEN [state.entities[k] EXCEPT !.name = c.to]
                                     ELSE state.entities[k]
      BY <2>3
    <3>2. \A e \in Entity : [e EXCEPT !.name = c.to] \in Entity
      BY <1>2, <1>6 DEF Entity
    <3> QED
      BY <2>3, <3>1, <3>2
  <2> HIDE DEF named
  <2>5. \A e \in Entity : [e EXCEPT !.dependsOn = ReplaceAll(@, c.entity, c.to)] \in Entity
    <3> SUFFICES ASSUME NEW e \in Entity
                 PROVE  [e EXCEPT !.dependsOn = ReplaceAll(@, c.entity, c.to)] \in Entity
      OBVIOUS
    <3>1. e.dependsOn \in Seq(Name)
      BY DEF Entity
    <3>2. ReplaceAll(e.dependsOn, c.entity, c.to) \in Seq(Name)
      BY <1>2, <1>6, <3>1 DEF ReplaceAll
    <3> QED
      BY <3>2 DEF Entity
  <2>6. relinked \in Seq(Entity)
    <3>1. relinked = [k \in 1..n |-> relinked[k]] /\ \A k \in 1..n : relinked[k] \in Entity
      BY <2>4, <2>5
    <3> HIDE DEF relinked
    <3>2. [k \in 1..n |-> relinked[k]] \in Seq(Entity)
      BY <2>3, <3>1
    <3> QED
      BY <3>1, <3>2
  <2>7. o \in O
    <3>1. DOMAIN state.overrides \subseteq Name
          /\ state.overrides \in [DOMAIN state.overrides -> SUBSET CrudLetter]
      BY <1>1, OverridesAre DEF O
    <3>2. c.to \in Name
      BY <1>2, <1>6
    <3>3. DOMAIN o \subseteq Name /\ o \in [DOMAIN o -> SUBSET CrudLetter]
      BY <3>1, <3>2
    <3> HIDE DEF o
    <3> QED
      BY <3>3, OverridesAre DEF O
  <2> HIDE DEF o, relinked
  <2> QED
    BY <1>1, <1>2, <1>3, <1>6, <2>1, <2>2, <2>6, <2>7
<1>7. ASSUME NEW e, e \in Seq(Entity),
             Correct(state, c) = [state EXCEPT !.entities = e, !.corrected = @ \cup {c.entity}]
      PROVE  Correct(state, c) \in Corrected
  <2>1. Correct(state, c) = [entities |-> e, overrides |-> state.overrides,
                             corrected |-> state.corrected \cup {c.entity}]
    BY <1>1, <1>7
  <2>2. /\ e \in Seq(Entity) /\ state.overrides \in O
        /\ state.corrected \cup {c.entity} \subseteq Name
    BY <1>1, <1>2, <1>7
  <2>3. [entities |-> e, overrides |-> state.overrides,
         corrected |-> state.corrected \cup {c.entity}] \in Corrected
    BY <1>3, <2>2
  <2> QED
    BY <2>1, <2>3
<1> DEFINE first == FirstOf(state.entities, c.entity)
           Change(e) == [state.entities EXCEPT ![first] = e]
<1>8. ASSUME first \in DOMAIN state.entities => state.entities[first] \in Entity,
             NEW e, first \in DOMAIN state.entities => e \in Entity
      PROVE  Change(e) \in Seq(Entity)
  <2>1. PICK n : n = Len(state.entities) /\ n \in Nat /\ DOMAIN state.entities = 1..n
                 /\ \A k \in 1..n : state.entities[k] \in Entity
    BY <1>1
  <2> HIDE DEF first
  <2>2. /\ Change(e) = [k \in 1..n |-> Change(e)[k]]
        /\ \A k \in 1..n : Change(e)[k] = IF k = first THEN e ELSE state.entities[k]
    BY <2>1
  <2> HIDE DEF Change
  <2>3. [k \in 1..n |-> Change(e)[k]] \in Seq(Entity)
    BY <1>8, <2>1, <2>2
  <2> QED
    BY <2>2, <2>3
<1>9. first \in DOMAIN state.entities => state.entities[first] \in Entity
  <2> HIDE DEF first
  <2> QED
    BY <1>1
<1>10. CASE c.kind \in {"set-attributes", "add-attributes", "set-depends-on"} /\ known
  <2>1. PICK e : /\ Correct(state, c) = [state EXCEPT !.entities = Change(e),
                                                      !.corrected = @ \cup {c.entity}]
                 /\ e \in {[state.entities[first] EXCEPT !.attributes = c.attributes],
                           [state.entities[first] EXCEPT !.attributes = @ \cup c.attributes],
                           [state.entities[first] EXCEPT !.dependsOn = c.dependsOn]}
    <3> HIDE DEF first
    <3>1. CASE c.kind = "set-attributes"
      BY <1>1, <1>10, <3>1 DEF Correct, Rewrite, first
    <3>2. CASE c.kind = "add-attributes"
      BY <1>1, <1>10, <3>2 DEF Correct, Rewrite, first
    <3>3. CASE c.kind = "set-depends-on"
      BY <1>1, <1>10, <3>3 DEF Correct, Rewrite, first
    <3> QED
      BY <1>10, <3>1, <3>2, <3>3
  <2>2. first \in DOMAIN state.entities => e \in Entity
    <3> HIDE DEF first
    <3> QED
      BY <1>2, <1>9, <2>1 DEF Entity
  <2> HIDE DEF first
  <2>3. Change(e) \in Seq(Entity)
    BY <1>8, <1>9, <2>2
  <2> HIDE DEF Change
  <2> QED
    BY <1>7, <2>1, <2>3
<1>11. CASE c.kind \in {"set-crud", "add-crud"} /\ known
  <2>1. state.overrides \in [DOMAIN state.overrides -> SUBSET CrudLetter]
        /\ DOMAIN state.overrides \subseteq Name
    BY <1>1, OverridesAre DEF O
  <2>2. PICK crud : /\ Correct(state, c) = WithOverride(state, c.entity, crud)
                    /\ crud \subseteq CrudLetter
    <3>1. CASE c.kind = "set-crud"
      BY <1>2, <1>11, <3>1 DEF Correct
    <3>2. CASE c.kind = "add-crud"
      <4>1. Correct(state, c) = WithOverride(state, c.entity,
               c.crud \cup IF c.entity \in DOMAIN state.overrides
                           THEN state.overrides[c.entity] ELSE {})
        BY <1>11, <3>2 DEF Correct
      <4> QED
        BY <1>2, <2>1, <4>1
    <3> QED
      BY <1>11, <3>1, <3>2
  <2> DEFINE o == [n \in DOMAIN state.overrides \cup {c.entity} |->
                     IF n = c.entity THEN crud ELSE state.overrides[n]]
  <2>3. Correct(state, c) = [entities |-> state.entities, overrides |-> o,
                             corrected |-> state.corrected \cup {c.entity}]
    BY <1>1, <2>2 DEF WithOverride
  <2>4. DOMAIN o \subseteq Name /\ o \in [DOMAIN o -> SUBSET CrudLetter]
    BY <1>2, <2>1, <2>2
  <2> HIDE DEF o
  <2>5. o \in O
    BY <2>4, OverridesAre DEF O
  <2> QED
    BY <1>1, <1>2, <1>3, <2>3, <2>5
<1>12. CASE Correct(state, c) = state
  BY <1>12
<1>13. \/ c.kind = "add-entity" /\ ~known
       \/ c.kind = "remove-entity" /\ known
       \/ c.kind = "rename-entity" /\ known
       \/ c.kind \in {"set-attributes", "add-attributes", "set-depends-on"} /\ known
       \/ c.kind \in {"set-crud", "add-crud"} /\ known
       \/ Correct(state, c) = state
  BY DEF Correct
<1> QED
  BY <1>4, <1>5, <1>6, <1>10, <1>11, <1>12, <1>13

\* Each correction is made of what the ones before it left.
LEMMA OverlaidIs ==
    ASSUME NEW extract, ExtractShape(extract), NEW made \in Seq(Correction)
    PROVE  /\ Overlaid(extract, made)[0]
                 = [entities |-> extract.entities, overrides |-> extract.overrides, corrected |-> {}]
           /\ \A i \in 1..Len(made) :
                 Overlaid(extract, made)[i] = Correct(Overlaid(extract, made)[i - 1], made[i])
           /\ \A i \in 0..Len(made) : Overlaid(extract, made)[i] \in Corrected
<1> DEFINE first == [entities |-> extract.entities, overrides |-> extract.overrides,
                     corrected |-> {}]
           Step(s, i) == Correct(s[i - 1], made[i])
           after == CHOOSE after : after = [i \in 0..Len(made) |->
                                               IF i = 0 THEN first ELSE Step(after, i)]
           F == [p \in (1..Len(made)) \X Corrected |-> Correct(p[2], made[p[1]])]
<1>1. Len(made) \in Nat /\ \A i \in 1..Len(made) : made[i] \in Correction
  OBVIOUS
<1>2. first \in Corrected
  <2>1. extract.overrides \in UNION {[D -> SUBSET CrudLetter] : D \in SUBSET Name}
    BY OverridesAre DEF ExtractShape
  <2>2. extract.entities \in Seq(Entity)
    BY DEF ExtractShape
  <2> QED
    BY <2>1, <2>2 DEF Corrected
<1>3. F \in [(1..Len(made)) \X Corrected -> Corrected]
  <2>1. \A i \in 1..Len(made) : \A s \in Corrected : Correct(s, made[i]) \in Corrected
    BY <1>1, CorrectIs
  <2> QED
    BY <2>1
<1>4. PICK s : Recursion(s, Corrected, first, Len(made), F)
  <2> HIDE DEF F, first
  <2> QED
    BY <1>1, <1>2, <1>3, RecursionExists
<1>5. ASSUME NEW k \in 1..Len(made) PROVE s[k] = Step(s, k)
  <2>1. k - 1 \in 0..Len(made) /\ s[k - 1] \in Corrected
    BY <1>1, <1>4 DEF Recursion
  <2> QED
    BY <1>4, <2>1 DEF Recursion
<1>6. s = [i \in 0..Len(made) |-> IF i = 0 THEN first ELSE Step(s, i)]
  <2> HIDE DEF Step, first
  <2>1. \A n \in 0..Len(made) : n = 0 \/ n \in 1..Len(made)
    BY <1>1
  <2> QED
    BY <1>4, <1>5, <2>1 DEF Recursion
<1>7. after = [i \in 0..Len(made) |-> IF i = 0 THEN first ELSE Step(after, i)]
  <2> HIDE DEF Step, first
  <2> QED
    BY <1>6
<1>8. \A n \in 0..Len(made) : after[n] \in Corrected
  <2> DEFINE S == {n \in Nat : n <= Len(made) => after[n] \in Corrected}
  <2>1. 0 \in S
    <3>1. after[0] = first
      <4> HIDE DEF after, first, Step
      <4> QED
        BY <1>1, <1>7
    <3> HIDE DEF after
    <3> QED
      BY <1>2, <3>1
  <2>2. ASSUME NEW n \in Nat, n \in S PROVE n + 1 \in S
    <3> HIDE DEF after, first
    <3>1. CASE n + 1 <= Len(made)
      <4>1. n + 1 \in 0..Len(made) /\ n + 1 \in 1..Len(made) /\ n + 1 # 0 /\ n <= Len(made)
        BY <1>1, <3>1
      <4>2. after[n] \in Corrected
        BY <2>2, <4>1
      <4>3. after[n + 1] = Step(after, n + 1)
        <5> HIDE DEF Step
        <5> QED
          BY <1>7, <4>1
      <4>4. Step(after, n + 1) = Correct(after[n], made[n + 1])
        OBVIOUS
      <4>5. after[n + 1] \in Corrected
        <5>1. made[n + 1] \in Correction
          BY <1>1, <4>1
        <5> HIDE DEF Step
        <5> QED
          BY <4>2, <4>3, <4>4, <5>1, CorrectIs
      <4> HIDE DEF Step
      <4> QED
        BY <4>5
    <3>2. CASE ~(n + 1 <= Len(made))
      BY <3>2
    <3> QED
      BY <3>1, <3>2
  <2> HIDE DEF S
  <2>3. Nat \subseteq S
    BY <2>1, <2>2, NatSetInduction
  <2> QED
    BY <1>1, <2>3 DEF S
<1>9. Overlaid(extract, made) = after
  BY Zenon DEF Overlaid
<1>10. after[0] = first /\ \A i \in 1..Len(made) : after[i] = Step(after, i)
  <2> HIDE DEF after, Step, first
  <2>1. \A i \in 1..Len(made) : i \in 0..Len(made) /\ i # 0
    BY <1>1
  <2> QED
    BY <1>1, <1>7, <2>1
<1> HIDE DEF after
<1> QED
  BY <1>8, <1>9, <1>10

\* Whatever a human records, the corrected extract has the shape of one.
LEMMA CorrectedIs ==
    ASSUME NEW extract, ExtractShape(extract), NEW made \in Seq(Correction)
    PROVE  LET out == applyCorrections(extract, made).extract
           IN /\ out.entities = Overlaid(extract, made)[Len(made)].entities
              /\ out.overrides = Overlaid(extract, made)[Len(made)].overrides
              /\ out.entities \in Seq(Entity) /\ out.routes = extract.routes
              /\ out.events = extract.events /\ out.transitions = extract.transitions
<1>1. PICK e, o, t : e = Overlaid(extract, made)[Len(made)].entities
                     /\ o = Overlaid(extract, made)[Len(made)].overrides
                     /\ t = Overlaid(extract, made)[Len(made)].corrected
  OBVIOUS
<1>2. applyCorrections(extract, made)
         = [extract |-> [extract EXCEPT !.entities = e, !.overrides = o], corrected |-> t]
  BY Zenon, <1>1 DEF applyCorrections
<1>3. e \in Seq(Entity)
  <2>1. Len(made) \in 0..Len(made)
    OBVIOUS
  <2>2. Overlaid(extract, made)[Len(made)] \in Corrected
    BY <2>1, OverlaidIs
  <2> QED
    BY <1>1, <2>2 DEF Corrected
<1>4. {"entities", "overrides", "routes", "events", "transitions"} \subseteq DOMAIN extract
  BY DEF ExtractShape
<1>5. PICK x : x = [extract EXCEPT !.entities = e, !.overrides = o]
  OBVIOUS
<1>6. /\ x.entities = e /\ x.overrides = o /\ x.routes = extract.routes
      /\ x.events = extract.events /\ x.transitions = extract.transitions
  BY <1>4, <1>5
<1>7. applyCorrections(extract, made).extract = x
  BY <1>2, <1>5
<1> QED
  BY <1>1, <1>3, <1>6, <1>7

LEMMA StructureIs ==
    ASSUME NEW extract, ExtractShape(extract), NEW made \in Seq(Correction)
    PROVE  StructureNodesOK(StructureOutputs(extract, made).structure)
<1>1. PICK applied : applied = applyCorrections(extract, made)
  OBVIOUS
<1>2. /\ applied.extract.entities \in Seq(Entity) /\ IsSequence(applied.extract.routes)
      /\ IsSequence(applied.extract.events) /\ IsSequence(applied.extract.transitions)
  BY <1>1, CorrectedIs DEF ExtractShape
<1>3. StructureOutputs(extract, made).structure
        = emitStructureNodes(applied.extract, applied.corrected)
  BY <1>1 DEF StructureOutputs
<1> QED
  BY <1>2, <1>3, StructureEmitted

BehaviorNodesOK(nodes) ==
    /\ IsSequence(nodes)
    /\ \A n \in ToSet(nodes) :
          /\ n.raw.kind \in {"page", "transition", "transaction"}
          /\ n.nodeId[1] \in {"behavior:page", "behavior:transition", "behavior:tx"}

ArtifactsOK(artifacts) ==
    /\ IsSequence(artifacts.reports)
    /\ \A r \in ToSet(artifacts.reports) : IsSequence(r.pages) /\ IsSequence(r.transitions)
    /\ IsSequence(artifacts.transactions)
    /\ \A txs \in ToSet(artifacts.transactions) : IsSequence(txs)

LEMMA BehaviorEmitted ==
    ASSUME NEW report, IsSequence(report.pages), IsSequence(report.transitions),
           NEW txs, IsSequence(txs), NEW saved, NEW results
    PROVE  BehaviorNodesOK(emitBehaviorAll(report, txs, saved, results))
<1> DEFINE a == MapSeq(report.pages, pageNode)
           b == MapSeq(report.transitions, behaviorTransitionNode)
           sent == Only(txs, {tx \in ToSet(txs) : tx.method \in Mutating})
           c == MapSeq(sent, LAMBDA tx : transactionNode(tx, saved, results))
           OK(n) == /\ n.raw.kind \in {"page", "transition", "transaction"}
                    /\ n.nodeId[1] \in {"behavior:page", "behavior:transition", "behavior:tx"}
<1>1. IsSequence(a) /\ \A n \in ToSet(a) : OK(n)
  <2>1. a = [i \in DOMAIN report.pages |-> pageNode(report.pages[i])]
    BY Zenon DEF MapSeq
  <2>2. \A p : OK(pageNode(p))
    BY DEF pageNode
  <2> HIDE DEF a, OK
  <2>3. IsSequence(a) /\ \A x \in ToSet(a) : \E i \in DOMAIN report.pages : x = a[i]
    BY <2>1, MapIs
  <2> QED
    BY <2>1, <2>2, <2>3
<1>2. IsSequence(b) /\ \A n \in ToSet(b) : OK(n)
  <2>1. b = [i \in DOMAIN report.transitions |-> behaviorTransitionNode(report.transitions[i])]
    BY Zenon DEF MapSeq
  <2>2. \A t : OK(behaviorTransitionNode(t))
    BY DEF behaviorTransitionNode
  <2> HIDE DEF b, OK
  <2>3. IsSequence(b) /\ \A x \in ToSet(b) : \E i \in DOMAIN report.transitions : x = b[i]
    BY <2>1, MapIs
  <2> QED
    BY <2>1, <2>2, <2>3
<1>3. IsSequence(c) /\ \A n \in ToSet(c) : OK(n)
  <2>1. c = [i \in DOMAIN sent |-> transactionNode(sent[i], saved, results)]
    BY Zenon DEF MapSeq
  <2>2. \A tx : OK(transactionNode(tx, saved, results))
    <3> SUFFICES ASSUME NEW tx PROVE OK(transactionNode(tx, saved, results))
      OBVIOUS
    <3>1. PICK key : key = normalizeRoute([method |-> tx.method, path |-> tx.path])
      OBVIOUS
    <3> DEFINE node ==
          [nodeId |-> <<"behavior:tx", key, tx.seq>>, route |-> key, seq |-> tx.seq,
           raw |-> [kind |-> "transaction", ok |-> tx.ok,
                    saved |-> IF key \in DOMAIN saved THEN <<saved[key]>> ELSE <<>>]]
    <3>2. \/ transactionNode(tx, saved, results) = node
          \/ transactionNode(tx, saved, results)
               = Over([persisted |-> annotatePersistence(key, results[1])], node)
      BY Zenon, <3>1 DEF transactionNode
    <3>3. \A x : /\ Over([persisted |-> x], node).raw = node.raw
                 /\ Over([persisted |-> x], node).nodeId = node.nodeId
      BY DEF Over
    <3>4. OK(node)
      OBVIOUS
    <3> HIDE DEF node
    <3> QED
      BY <3>2, <3>3, <3>4
  <2>3. IsSequence(sent)
    BY OnlyOf
  <2> HIDE DEF c, OK, sent
  <2>4. IsSequence(c) /\ \A x \in ToSet(c) : \E i \in DOMAIN sent : x = c[i]
    BY <2>1, <2>3, MapIs
  <2> QED
    BY <2>1, <2>2, <2>4
<1>4. emitBehaviorAll(report, txs, saved, results) = a \o b \o c
  BY Zenon DEF emitBehaviorAll
<1> HIDE DEF a, b, c
<1>5. IsSequence(a \o b) /\ ToSet(a \o b) = ToSet(a) \cup ToSet(b)
  BY <1>1, <1>2, ConcatIs
<1>6. IsSequence(a \o b \o c) /\ ToSet(a \o b \o c) = ToSet(a \o b) \cup ToSet(c)
  BY <1>3, <1>5, ConcatIs
<1> QED
  BY <1>1, <1>2, <1>3, <1>4, <1>5, <1>6 DEF BehaviorNodesOK

LEMMA LastIs ==
    ASSUME NEW s, IsSequence(s), s # <<>>
    PROVE  Last(s) \in ToSet(s)
<1>1. PICK T : T = ToSet(s)
  OBVIOUS
<1>2. s \in Seq(T)
  BY <1>1 DEF IsSequence
<1>3. Len(s) \in 1..Len(s)
  BY <1>2
<1> QED
  BY <1>3, SequenceIs DEF Last

LEMMA BehaviorIs ==
    ASSUME NEW artifacts, ArtifactsOK(artifacts), artifacts.reports # <<>>
    PROVE  BehaviorNodesOK(runEmit(artifacts))
<1>1. PICK report : report = Last(artifacts.reports)
  OBVIOUS
<1>2. IsSequence(report.pages) /\ IsSequence(report.transitions)
  BY <1>1, LastIs DEF ArtifactsOK
<1>3. PICK txs : txs = Latest(artifacts.transactions, <<>>)
  OBVIOUS
<1>4. IsSequence(txs)
  <2>1. IsSequence(<<>>)
    BY DEF IsSequence
  <2>2. CASE artifacts.transactions = <<>>
    BY <1>3, <2>1, <2>2 DEF Latest
  <2>3. CASE artifacts.transactions # <<>>
    <3>1. txs = Last(artifacts.transactions)
      BY <1>3, <2>3 DEF Latest
    <3> QED
      BY <2>3, <3>1, LastIs DEF ArtifactsOK
  <2> QED
    BY <2>2, <2>3
<1>5. \E saved, results : runEmit(artifacts) = emitBehaviorAll(report, txs, saved, results)
  BY Zenon, <1>1, <1>3 DEF runEmit
<1> QED
  BY <1>2, <1>4, <1>5, BehaviorEmitted

\* What every reconciliation burns in is about entities.
LEMMA ReconciledRelations ==
    ASSUME NEW in, NEW prior, NEW file
    PROVE  \E human, placed : BurntIn(reconcile(in, prior, file).registry.relations)
                                  = PlacedByHumans(human, placed)
<1> DEFINE concepts == intentConcepts(in.intent)
           entities == structureEntities(in.structure)
           match == matchIntentToStructure(concepts, entities)
           ids   == {c.conceptId : c \in ToSet(concepts)}
           decided == resolveDecisions(prior, file)
           human == HumanMatched(match, decided, ids)
           placed == ConceptOfEntity(match, decided, ids)
<1>1. reconcile(in, prior, file) = place(in, concepts, entities, match, decided)
  BY Zenon DEF reconcile, reconcileNodes
<1> HIDE DEF concepts, entities, match, decided
<1>2. place(in, concepts, entities, match, decided)
      = classify(in, concepts, entities, Only(in.structure, RouteNodes(in.structure)),
                 placed, human, {n \in DOMAIN match : match[n].how = "queued"} \ human)
  BY Zenon DEF place
<1> HIDE DEF ids
<1>3. human \subseteq DOMAIN placed
  BY DEF ConceptOfEntity
<1> HIDE DEF human, placed
<1>4. \A r, q : BurntIn(classify(in, concepts, entities, r, placed, human, q).registry.relations)
                   = PlacedByHumans(human, placed)
  BY <1>3, ClassifiedRelations
<1>5. BurntIn(reconcile(in, prior, file).registry.relations) = PlacedByHumans(human, placed)
  BY <1>1, <1>2, <1>4
<1> QED
  BY <1>5

-------------------------------------------------------------------------------
(* The shapes of the files, in every state.                                  *)

LayersInv ==
    /\ corrections \in Seq(Correction)
    /\ DOMAIN runs = DOMAIN noRuns /\ ArtifactsOK(runs)
    /\ job.stage = "emit" => runs.reports # <<>>
    /\ job.stage = "structure" /\ "structure" \in DOMAIN job.out =>
          StructureNodesOK(job.out.structure)
    /\ IntentNodesOK(disk.intent) /\ StructureNodesOK(disk.structure)
    /\ BehaviorNodesOK(disk.behavior)

RegistryOK ==
    \A r \in BurntIn(Registry.relations) : \E n : r.from = EntityId(n)

LEMMA EmptyNodesOK ==
    IntentNodesOK(<<>>) /\ StructureNodesOK(<<>>) /\ BehaviorNodesOK(<<>>)
<1>1. IsSequence(<<>>) /\ ToSet(<<>>) = {}
  BY DEF IsSequence, ToSet
<1> QED
  BY <1>1 DEF IntentNodesOK, StructureNodesOK, BehaviorNodesOK, EntityNodes

LEMMA NoRunsOK == ArtifactsOK(noRuns)
<1>1. IsSequence(<<>>) /\ ToSet(<<>>) = {}
  BY DEF IsSequence, ToSet
<1> QED
  BY <1>1 DEF ArtifactsOK, noRuns

LEMMA CrawlOK ==
    ASSUME NEW crawl, CrawlShape(crawl)
    PROVE  ArtifactsOK(crawl) /\ crawl.reports # <<>>
  BY DEF CrawlShape, ArtifactsOK

LEMMA LayersInit == Init => LayersInv /\ RegistryOK
<1> SUFFICES ASSUME Init PROVE LayersInv /\ RegistryOK
  OBVIOUS
<1>1. PICK old \in Legacy :
         /\ disk = Emitted(old.glossary, old.extract, old.crawl)
         /\ runs = IF old.crawl = <<>> THEN noRuns ELSE ArtifactsOf(old.crawl[1])
  BY DEF Init
<1>2. /\ disk.intent = IF old.glossary = <<>> THEN <<>> ELSE emitIntentNodes(old.glossary[1])
      /\ disk.structure = IF old.extract = <<>> THEN <<>>
                          ELSE StructureOutputs(old.extract[1], <<>>).structure
      /\ disk.behavior = IF old.crawl = <<>> THEN <<>> ELSE runEmit(old.crawl[1])
      /\ disk.registry = <<>>
  BY <1>1 DEF Emitted, emptyDisk
<1>3. \A s : s = <<s[1]>> => s[1] \in ToSet(s)
  BY DEF ToSet
<1>4. /\ old.glossary = <<>> \/ GlossaryShape(old.glossary[1])
      /\ old.extract = <<>> \/ ExtractShape(old.extract[1])
      /\ old.crawl = <<>> \/ CrawlShape(old.crawl[1])
  <2>1. \A file \in {old.glossary, old.extract, old.crawl} : file = <<>> \/ file[1] \in ToSet(file)
    BY <1>3, ShapesAssumption
  <2> QED
    BY <2>1, ShapesAssumption
<1>5. IntentNodesOK(disk.intent)
  BY <1>2, <1>4, EmptyNodesOK, IntentEmitted
<1>6. StructureNodesOK(disk.structure)
  <2>1. <<>> \in Seq(Correction)
    OBVIOUS
  <2>2. ASSUME old.extract # <<>>
        PROVE  StructureNodesOK(StructureOutputs(old.extract[1], <<>>).structure)
    BY <1>4, <2>1, <2>2, StructureIs
  <2>3. CASE old.extract = <<>>
    BY <1>2, <2>3, EmptyNodesOK
  <2>4. CASE old.extract # <<>>
    BY <1>2, <2>2, <2>4
  <2> QED
    BY <2>3, <2>4
<1>7. BehaviorNodesOK(disk.behavior)
  BY <1>2, <1>4, EmptyNodesOK, CrawlOK, BehaviorIs
<1>8. DOMAIN runs = DOMAIN noRuns /\ ArtifactsOK(runs)
  <2>1. CASE old.crawl = <<>>
    BY <1>1, <2>1, NoRunsOK
  <2>2. CASE old.crawl # <<>>
    <3>1. PICK crawl : crawl = old.crawl[1]
      OBVIOUS
    <3>2. ArtifactsOK(crawl)
      BY <1>4, <2>2, <3>1, CrawlOK
    <3>3. runs = [kind \in {"reports", "transactions", "saved", "results"} |-> crawl[kind]]
      BY <1>1, <2>2, <3>1 DEF ArtifactsOf, noRuns
    <3>4. /\ runs.reports = crawl.reports /\ runs.transactions = crawl.transactions
          /\ DOMAIN runs = DOMAIN noRuns
      BY <3>3 DEF noRuns
    <3> QED
      BY <3>2, <3>4 DEF ArtifactsOK
  <2> QED
    BY <2>1, <2>2
<1>9. job.stage = "idle" /\ corrections \in Seq(Correction)
  BY DEF Init, Idle
<1>10. RegistryOK
  BY <1>2 DEF RegistryOK, Registry, emptyRegistry, BurntIn
<1> QED
  BY <1>5, <1>6, <1>7, <1>8, <1>9, <1>10 DEF LayersInv

\* The files of nodes change by the layers' commands and by clear.
LEMMA LayersStay ==
    ASSUME LayersInv, job'.stage \notin {"emit", "structure"}, UNCHANGED <<corrections, runs>>,
           disk'.intent = disk.intent, disk'.structure = disk.structure,
           disk'.behavior = disk.behavior
    PROVE  LayersInv'
  BY DEF LayersInv

LEMMA LayersEdit ==
    ASSUME DerivedInv, LayersInv,
           EditAdrs \/ Decide \/ RecordCorrection \/ EmitIntent \/ AnalyzeStructure \/ Crawl \/ Clear
    PROVE  LayersInv'
<1>1. /\ "intent" \in DOMAIN disk /\ "structure" \in DOMAIN disk /\ "behavior" \in DOMAIN disk
      /\ job = Idle /\ Idle.stage = "idle"
  BY DEF DerivedInv, FilesOK, emptyDisk, EditAdrs, Decide, RecordCorrection, EmitIntent,
     AnalyzeStructure, Crawl, Clear, Edit, Idle
<1>2. CASE EditAdrs \/ Decide
  BY <1>1, <1>2, LayersStay DEF EditAdrs, Decide
<1>3. CASE RecordCorrection
  <2>1. PICK batch \in Corrections : corrections' = corrections \o batch
    BY <1>3 DEF RecordCorrection
  <2>2. corrections' \in Seq(Correction)
    BY <2>1, FilesAssumption DEF LayersInv
  <2>3. UNCHANGED <<runs, disk, job>>
    BY <1>3 DEF RecordCorrection
  <2> QED
    BY <2>2, <2>3 DEF LayersInv
<1>4. CASE EmitIntent
  <2>1. PICK glossary \in Glossaries :
          /\ disk' = [disk EXCEPT !.intent = emitIntentNodes(glossary)]
          /\ job'.stage = "aggregates" /\ UNCHANGED <<corrections, runs>>
    BY <1>4 DEF EmitIntent, humanVars
  <2>2. IntentNodesOK(disk'.intent)
    BY <1>1, <2>1, ShapesAssumption, IntentEmitted
  <2> QED
    BY <1>1, <2>1, <2>2 DEF LayersInv
<1>5. CASE AnalyzeStructure
  <2>1. PICK extract \in Extracts :
          /\ job' = [stage |-> "structure", extract |-> extract,
                     out |-> StructureOutputs(extract, corrections)]
          /\ UNCHANGED <<corrections, runs, disk>>
    BY <1>5 DEF AnalyzeStructure, humanVars
  <2>2. StructureNodesOK(job'.out.structure)
    BY <2>1, ShapesAssumption, StructureIs DEF LayersInv
  <2>3. job'.stage = "structure"
    BY <2>1
  <2> QED
    BY <2>1, <2>2, <2>3 DEF LayersInv
<1>6. CASE Crawl
  <2>1. PICK crawl \in Crawls :
          /\ disk' = [disk EXCEPT !.edges = <<crawl.edges>>]
          /\ runs' = [kind \in DOMAIN runs |-> runs[kind] \o crawl[kind]]
          /\ UNCHANGED corrections
    BY <1>6 DEF Crawl, humanVars
  <2>2. ArtifactsOK(crawl) /\ crawl.reports # <<>>
    BY ShapesAssumption, CrawlOK
  <2>3. /\ runs'.reports = runs.reports \o crawl.reports
        /\ runs'.transactions = runs.transactions \o crawl.transactions
        /\ DOMAIN runs' = DOMAIN noRuns
    BY <2>1 DEF LayersInv, noRuns
  <2>4. /\ IsSequence(runs'.reports)
        /\ ToSet(runs'.reports) = ToSet(runs.reports) \cup ToSet(crawl.reports)
        /\ IsSequence(runs'.transactions)
        /\ ToSet(runs'.transactions) = ToSet(runs.transactions) \cup ToSet(crawl.transactions)
    BY <2>2, <2>3, ConcatIs DEF LayersInv, ArtifactsOK
  <2>5. runs'.reports # <<>>
    <3>1. Last(crawl.reports) \in ToSet(runs'.reports)
      BY <2>2, <2>4, LastIs DEF ArtifactsOK
    <3>2. ToSet(<<>>) = {}
      BY DEF ToSet
    <3> QED
      BY <3>1, <3>2
  <2>6. ArtifactsOK(runs')
    BY <2>2, <2>4 DEF LayersInv, ArtifactsOK
  <2>7. /\ disk'.intent = disk.intent /\ disk'.structure = disk.structure
        /\ disk'.behavior = disk.behavior
    BY <1>1, <2>1
  <2>8. job'.stage = "emit"
    BY <1>6 DEF Crawl
  <2> QED
    BY <2>1, <2>3, <2>5, <2>6, <2>7, <2>8 DEF LayersInv, ArtifactsOK
<1>7. CASE Clear
  <2>1. PICK gone : disk' = [file \in DOMAIN disk |-> IF file \in gone THEN <<>> ELSE disk[file]]
    BY <1>7 DEF Clear
  <2>2. UNCHANGED <<corrections, job>> /\ runs' \in {runs, noRuns}
    BY <1>7 DEF Clear
  <2>3. /\ disk'.intent \in {disk.intent, <<>>} /\ disk'.structure \in {disk.structure, <<>>}
        /\ disk'.behavior \in {disk.behavior, <<>>}
    BY <1>1, <2>1
  <2>4. IntentNodesOK(disk'.intent) /\ StructureNodesOK(disk'.structure)
        /\ BehaviorNodesOK(disk'.behavior)
    BY <2>3, EmptyNodesOK DEF LayersInv
  <2>5. ArtifactsOK(runs') /\ DOMAIN runs' = DOMAIN noRuns
    BY <2>2, NoRunsOK DEF LayersInv
  <2>6. job'.stage = "idle"
    BY <1>1, <2>2
  <2> QED
    BY <2>2, <2>4, <2>5, <2>6 DEF LayersInv, ArtifactsOK
<1> QED
  BY <1>2, <1>3, <1>4, <1>5, <1>6, <1>7

LEMMA LayersNext == ASSUME DerivedInv, LayersInv, [Next]_vars PROVE LayersInv'
<1>1. /\ DOMAIN disk = DOMAIN emptyDisk
      /\ "intent" \in DOMAIN disk /\ "structure" \in DOMAIN disk /\ "behavior" \in DOMAIN disk
      /\ Idle.stage = "idle"
  BY DEF DerivedInv, FilesOK, emptyDisk, Idle
<1>2. CASE WriteAggregates \/ BridgeTransactions \/ WriteSitemap
  <2>1. \/ disk' = disk
        \/ \E file \in {"aggregates", "transactions", "sitemap"} :
              \E new : disk' = [disk EXCEPT ![file] = new]
    <3>1. CASE WriteAggregates \/ BridgeTransactions
      BY <3>1 DEF WriteAggregates, BridgeTransactions
    <3>2. CASE WriteSitemap
      BY <3>2 DEF WriteSitemap
    <3> QED
      BY <1>2, <3>1, <3>2
  <2>2. /\ disk'.intent = disk.intent /\ disk'.structure = disk.structure
        /\ disk'.behavior = disk.behavior
    BY <1>1, <2>1
  <2>3. UNCHANGED <<corrections, runs>> /\ job'.stage \notin {"emit", "structure"}
    BY <1>1, <1>2 DEF WriteAggregates, BridgeTransactions, WriteSitemap, humanVars
  <2> QED
    BY <2>2, <2>3, LayersStay
<1>3. CASE EmitStructure
  <2>1. job.stage = "structure" /\ DOMAIN job = {"stage", "extract", "out"} /\ UNCHANGED <<corrections, runs>>
        /\ DOMAIN job.out \subseteq {"structure", "rdra"}
    BY <1>3 DEF DerivedInv, JobOK, EmitStructure, Idle, ReconcileStages, Rejected, humanVars
  <2>2. PICK file \in DOMAIN job.out :
          /\ disk' = [disk EXCEPT ![file] = job.out[file]]
          /\ job' = IF DOMAIN job.out = {file} THEN Idle
                    ELSE [job EXCEPT !.out = Restrict(@, DOMAIN @ \ {file})]
    BY <1>3 DEF EmitStructure
  <2>3. /\ disk'.intent = disk.intent /\ disk'.behavior = disk.behavior
        /\ disk'.structure = IF file = "structure" THEN job.out.structure ELSE disk.structure
    BY <1>1, <2>1, <2>2
  <2>4. StructureNodesOK(disk'.structure)
    BY <2>1, <2>2, <2>3 DEF LayersInv
  <2>5. job'.stage = "structure" /\ "structure" \in DOMAIN job'.out =>
           StructureNodesOK(job'.out.structure)
    <3>1. CASE DOMAIN job.out = {file}
      BY <1>1, <2>2, <3>1
    <3>2. CASE DOMAIN job.out # {file}
      <4>1. job'.out = [f \in DOMAIN job.out \ {file} |-> job.out[f]]
        BY <2>1, <2>2, <3>2 DEF Restrict
      <4>2. "structure" \in DOMAIN job'.out =>
               "structure" \in DOMAIN job.out /\ job'.out.structure = job.out.structure
        BY <4>1
      <4> QED
        BY <2>1, <4>2 DEF LayersInv
    <3> QED
      BY <3>1, <3>2
  <2>6. job'.stage # "emit"
    BY <1>1, <2>1, <2>2
  <2> QED
    BY <2>1, <2>3, <2>4, <2>5, <2>6 DEF LayersInv, ArtifactsOK
<1>4. CASE EmitBehavior
  <2>1. /\ disk' = [disk EXCEPT !.behavior = runEmit(runs)]
        /\ job'.stage = "bridge" /\ UNCHANGED <<corrections, runs>>
    BY <1>4 DEF EmitBehavior, humanVars
  <2>2. BehaviorNodesOK(runEmit(runs))
    BY <1>4, BehaviorIs DEF EmitBehavior, LayersInv
  <2> QED
    BY <1>1, <2>1, <2>2 DEF LayersInv, ArtifactsOK
<1>5. CASE StartReconcile \/ WriteRegistry \/ WriteUnified \/ WriteMapping \/ EndRejected
           \/ Verify \/ WriteBoundary \/ Crash
  <2>1. UNCHANGED <<corrections, runs>>
    BY <1>5 DEF StartReconcile, WriteRegistry, WriteUnified, WriteMapping, EndRejected, Verify,
       WriteBoundary, Crash, humanVars
  <2>2. \/ disk' = disk
        \/ \E file \in {"registry", "unified", "mapping", "findings", "boundary"} :
              \E new : disk' = [disk EXCEPT ![file] = new]
    BY <1>5 DEF StartReconcile, WriteRegistry, WriteUnified, WriteMapping, EndRejected, Verify,
       WriteBoundary, Crash
  <2>3. /\ disk'.intent = disk.intent /\ disk'.structure = disk.structure
        /\ disk'.behavior = disk.behavior
    BY <1>1, <2>2
  <2>4. job'.stage \notin {"emit", "structure"}
    <3>1. CASE WriteRegistry \/ WriteUnified
      <4>1. job.stage \in {"registry", "unified"}
        BY <3>1 DEF WriteRegistry, WriteUnified
      <4>2. "stage" \in DOMAIN job
        BY <1>1, <4>1 DEF DerivedInv, JobOK, ReconcileStages
      <4>3. PICK s : job' = [job EXCEPT !.stage = s] /\ s \notin {"emit", "structure"}
        BY <3>1 DEF WriteRegistry, WriteUnified
      <4>4. job'.stage = s
        BY <4>2, <4>3
      <4> QED
        BY <4>3, <4>4
    <3>2. CASE StartReconcile \/ Verify
      BY <3>2 DEF StartReconcile, Verify
    <3>3. CASE WriteMapping \/ EndRejected \/ WriteBoundary \/ Crash
      <4>1. job' = Idle
        BY <3>3 DEF WriteMapping, EndRejected, WriteBoundary, Crash
      <4> QED
        BY <1>1, <4>1
    <3> QED
      BY <1>5, <3>1, <3>2, <3>3
  <2> QED
    BY <2>1, <2>3, <2>4, LayersStay
<1>6. CASE UNCHANGED vars
  BY <1>6 DEF vars, humanVars, LayersInv, ArtifactsOK
<1> QED
  BY <1>2, <1>3, <1>4, <1>5, <1>6, LayersEdit DEF Next

LEMMA RegistryNext == ASSUME DerivedInv, RegistryOK, [Next]_vars PROVE RegistryOK'
<1>1. "registry" \in DOMAIN disk
  BY DEF DerivedInv, FilesOK, emptyDisk
<1>2. \A registry : registry = emptyRegistry => BurntIn(registry.relations) = {}
  BY DEF emptyRegistry, BurntIn
<1>3. CASE disk'.registry = disk.registry
  BY <1>3 DEF RegistryOK, Registry
<1>4. CASE disk'.registry = <<>>
  BY <1>2, <1>4 DEF RegistryOK, Registry
<1>5. CASE WriteRegistry
  <2>1. job.stage = "registry"
    BY <1>5 DEF WriteRegistry
  <2>2. job.out = Now
    BY <2>1 DEF DerivedInv, JobIsCurrent, ReconcileStages
  <2>3. disk'.registry \in {disk.registry, <<job.out.registry>>}
    BY <1>1, <1>5 DEF WriteRegistry
  <2>4. PICK registry : registry = job.out.registry
    OBVIOUS
  <2>5. PICK human, placed : BurntIn(registry.relations) = PlacedByHumans(human, placed)
    BY <2>2, <2>4, ReconciledRelations DEF Now
  <2>6. \A r \in BurntIn(registry.relations) : \E n : r.from = EntityId(n)
    <3>1. \A n : SameAs(EntityId(n), placed[n], "human").from = EntityId(n)
      BY DEF SameAs
    <3> QED
      BY <2>5, <3>1 DEF PlacedByHumans
  <2>7. CASE disk'.registry = <<registry>>
    BY <2>6, <2>7 DEF RegistryOK, Registry
  <2> QED
    BY <1>3, <2>3, <2>4, <2>7
<1>6. CASE UNCHANGED vars
  BY <1>3, <1>6 DEF vars
<1>7. CASE Clear
  <2>1. PICK gone : disk' = [file \in DOMAIN disk |-> IF file \in gone THEN <<>> ELSE disk[file]]
    BY <1>7 DEF Clear
  <2> QED
    BY <1>1, <1>3, <1>4, <2>1
<1>8. CASE EmitStructure
  <2>1. DOMAIN job.out \subseteq {"structure", "rdra"}
    BY <1>8 DEF DerivedInv, JobOK, EmitStructure, Idle, ReconcileStages, Rejected
  <2> QED
    BY <1>1, <1>3, <1>8, <2>1 DEF EmitStructure
<1>9. CASE EditAdrs \/ Decide \/ RecordCorrection \/ EmitIntent \/ AnalyzeStructure \/ Crawl
           \/ WriteAggregates \/ EmitBehavior \/ BridgeTransactions
           \/ StartReconcile \/ WriteUnified \/ WriteMapping \/ EndRejected
           \/ Verify \/ WriteBoundary \/ Crash
  BY <1>1, <1>3, <1>9 DEF EditAdrs, Decide, RecordCorrection, EmitIntent, AnalyzeStructure, Crawl,
     WriteAggregates, EmitBehavior, BridgeTransactions, StartReconcile, WriteUnified,
     WriteMapping, EndRejected, Verify, WriteBoundary, Crash
<1>10. CASE WriteSitemap
  BY <1>1, <1>3, <1>10 DEF WriteSitemap
<1> QED
  BY <1>5, <1>6, <1>7, <1>8, <1>9, <1>10 DEF Next

SpineInv == DerivedInv /\ LayersInv /\ RegistryOK

LEMMA SpineAlways == Spec => []SpineInv
<1>1. SpineInv /\ [Next]_vars => SpineInv'
  BY DerivedNext, LayersNext, RegistryNext DEF SpineInv
<1>2. Init => SpineInv
  BY DerivedInit, LayersInit DEF SpineInv
<1> QED
  BY <1>1, <1>2, PTL DEF Spec

-------------------------------------------------------------------------------
(* What a human decided.                                                     *)

LEMMA ConceptsAre ==
    ASSUME NEW intent, IsSequence(intent)
    PROVE  /\ IsSequence(intentConcepts(intent))
           /\ \A c : c \in ToSet(intentConcepts(intent))
                        <=> \E n \in ConceptNodes(intent) : c = asIntentConcept(n)
<1> DEFINE set == ConceptNodes(intent)
           only == Only(intent, set)
           f == intentConcepts(intent)
<1>1. f = [i \in DOMAIN only |-> asIntentConcept(only[i])]
  BY Zenon DEF intentConcepts, MapSeq
<1>2. IsSequence(only) /\ ToSet(only) = set
  <2>1. set \subseteq ToSet(intent)
    BY DEF ConceptNodes
  <2> QED
    BY <2>1, OnlyOf
<1> HIDE DEF f, only, set
<1>3. IsSequence(f) /\ \A x \in ToSet(f) : \E i \in DOMAIN only : x = f[i]
  BY <1>1, <1>2, MapIs
<1>4. \A i \in DOMAIN only : only[i] \in set /\ f[i] \in ToSet(f)
  BY <1>1, <1>2, SequenceIs DEF ToSet
<1>5. \A n \in set : \E i \in DOMAIN only : only[i] = n
  BY <1>2 DEF ToSet
<1>6. \A c : c \in ToSet(f) <=> \E n \in set : c = asIntentConcept(n)
  BY <1>1, <1>3, <1>4, <1>5
<1> QED
  BY <1>3, <1>6 DEF f, set

LEMMA EntitiesAre ==
    ASSUME NEW structure, IsSequence(structure)
    PROVE  /\ IsSequence(structureEntities(structure))
           /\ \A e : e \in ToSet(structureEntities(structure))
                        <=> \E n \in EntityNodes(structure) : e = asStructureEntity(n)
<1> DEFINE set == EntityNodes(structure)
           only == Only(structure, set)
           f == structureEntities(structure)
<1>1. f = [i \in DOMAIN only |-> asStructureEntity(only[i])]
  BY Zenon DEF structureEntities, MapSeq
<1>2. IsSequence(only) /\ ToSet(only) = set
  <2>1. set \subseteq ToSet(structure)
    BY DEF EntityNodes
  <2> QED
    BY <2>1, OnlyOf
<1> HIDE DEF f, only, set
<1>3. IsSequence(f) /\ \A x \in ToSet(f) : \E i \in DOMAIN only : x = f[i]
  BY <1>1, <1>2, MapIs
<1>4. \A i \in DOMAIN only : only[i] \in set /\ f[i] \in ToSet(f)
  BY <1>1, <1>2, SequenceIs DEF ToSet
<1>5. \A n \in set : \E i \in DOMAIN only : only[i] = n
  BY <1>2 DEF ToSet
<1>6. \A e : e \in ToSet(f) <=> \E n \in set : e = asStructureEntity(n)
  BY <1>1, <1>3, <1>4, <1>5
<1> QED
  BY <1>3, <1>6 DEF f, set

LEMMA QueueIs ==
    ASSUME NEW in, NEW concepts, NEW entities, NEW routes, NEW placed, NEW human, NEW queued
    PROVE  classify(in, concepts, entities, routes, placed, human, queued).queue \subseteq queued
<1>1. PICK anchor, classOf :
         classify(in, concepts, entities, routes, placed, human, queued)
             = overlay(in, concepts, entities, routes, anchor, placed, human, queued, classOf)
  BY Zenon DEF classify
<1>2. PICK ruled :
         overlay(in, concepts, entities, routes, anchor, placed, human, queued, classOf)
             = assemble(in, routes, anchor, placed, human, queued, classOf, ruled)
  BY Zenon DEF overlay
<1>3. PICK registry, unified :
         assemble(in, routes, anchor, placed, human, queued, classOf, ruled)
             = [registry |-> registry, unified |-> unified,
                queue |-> {n \in queued : ruled[StructId(n)].state = "unmatched"}]
  BY Zenon DEF assemble
<1>4. classify(in, concepts, entities, routes, placed, human, queued).queue
         = {n \in queued : ruled[StructId(n)].state = "unmatched"}
  BY <1>1, <1>2, <1>3
<1> QED
  BY <1>4

\* What is queued, no human has placed in a concept there is.
LEMMA QueuedIsUndecided ==
    ASSUME NEW in, NEW prior, NEW file,
           NEW n \in reconcile(in, prior, file).queue
    PROVE  ~ /\ EntityId(n) \in DOMAIN resolveDecisions(prior, file)
             /\ resolveDecisions(prior, file)[EntityId(n)]
                   \in {c.conceptId : c \in ToSet(intentConcepts(in.intent))}
<1> DEFINE concepts == intentConcepts(in.intent)
           entities == structureEntities(in.structure)
           match == matchIntentToStructure(concepts, entities)
           ids   == {c.conceptId : c \in ToSet(concepts)}
           decided == resolveDecisions(prior, file)
           human == HumanMatched(match, decided, ids)
           placed == ConceptOfEntity(match, decided, ids)
           queued == {m \in DOMAIN match : match[m].how = "queued"} \ human
<1>1. reconcile(in, prior, file) = place(in, concepts, entities, match, decided)
  BY Zenon DEF reconcile, reconcileNodes
<1> HIDE DEF concepts, entities, match, decided
<1>2. place(in, concepts, entities, match, decided)
      = classify(in, concepts, entities, Only(in.structure, RouteNodes(in.structure)),
                 placed, human, queued)
  BY Zenon DEF place
<1>3. n \in queued
  <2> HIDE DEF queued, human, placed, ids
  <2> QED
    BY <1>1, <1>2, QueueIs
<1> HIDE DEF ids
<1>4. ~(EntityId(n) \in DOMAIN decided /\ decided[EntityId(n)] \in ids)
  BY <1>3 DEF HumanMatched
<1> QED
  BY <1>4 DEF decided, ids, concepts

\* An entity a human has placed is not asked about again, as long as its concept
\* exists and no new decision names it, after any crash, rejected view or
\* repeated reconciliation (queue.ts:4-8).
THEOREM SpineDecidedIsNotAskedAgain == Spec => []DecidedIsNotAskedAgain
<1>1. SpineInv => DecidedIsNotAskedAgain
  <2> SUFFICES ASSUME SpineInv, job.stage = "registry",
                      NEW id \in DOMAIN priorHumanMatches(job.prior), id[2] \in job.out.queue,
                      priorHumanMatches(job.prior)[id] \in
                         {n.raw.conceptId : n \in {n \in ToSet(disk.intent) : isConceptNode(n)}},
                      ~ \E d \in ToSet(decisions) : EntityId(d.entity) = id
               PROVE  FALSE
    BY DEF DecidedIsNotAskedAgain
  <2>1. job.prior = Registry /\ job.out = reconcile(Inputs, Registry, decisions)
    BY DEF SpineInv, DerivedInv, JobIsCurrent, ReconcileStages, Now
  <2> DEFINE B == BurntIn(Registry.relations)
             matches == priorHumanMatches(Registry)
  <2>2. matches = [m \in {r.from : r \in B} |-> (CHOOSE r \in B : r.from = m).to]
    BY Zenon DEF priorHumanMatches, BurntIn
  <2>3. PICK n : id = EntityId(n)
    <3>1. id \in {r.from : r \in B}
      <4> HIDE DEF matches, B
      <4> QED
        BY <2>1, <2>2 DEF matches
    <3> QED
      BY <3>1 DEF SpineInv, RegistryOK
  <2>4. EntityId(id[2]) = id
    BY <2>3 DEF EntityId
  <2> HIDE DEF matches, B
  <2>5. LastOf(decisions, id) = 0
    <3>1. decisions \in Seq(ToSet(decisions))
      BY DEF SpineInv, DerivedInv, FilesOK, IsSequence
    <3>2. LastOf(decisions, id) # 0
             <=> id \in {EntityId(d.entity) : d \in ToSet(decisions)}
      BY <3>1, LastDecision
    <3> QED
      BY <3>2
  <2>6. /\ id \in DOMAIN resolveDecisions(Registry, decisions)
        /\ resolveDecisions(Registry, decisions)[id] = matches[id]
    <3>1. PICK prior, file : prior = Registry /\ file = decisions
      OBVIOUS
    <3>2. /\ DOMAIN resolveDecisions(prior, file)
                = DOMAIN priorHumanMatches(prior) \cup {EntityId(d.entity) : d \in ToSet(file)}
          /\ \A i \in DOMAIN resolveDecisions(prior, file) :
                resolveDecisions(prior, file)[i]
                    = IF LastOf(file, i) # 0 THEN file[LastOf(file, i)].concept
                      ELSE priorHumanMatches(prior)[i]
      BY ResolvedIs
    <3>3. id \in DOMAIN resolveDecisions(prior, file)
      BY <2>1, <3>1, <3>2
    <3>4. resolveDecisions(prior, file)[id] = priorHumanMatches(prior)[id]
      BY <2>5, <3>1, <3>2, <3>3
    <3> QED
      BY <3>1, <3>3, <3>4 DEF matches
  <2>7. matches[id] \in {c.conceptId : c \in ToSet(intentConcepts(Inputs.intent))}
    <3>1. Inputs.intent = disk.intent /\ IsSequence(disk.intent)
      BY DEF Inputs, SpineInv, LayersInv, IntentNodesOK
    <3>2. PICK node \in ConceptNodes(disk.intent) : matches[id] = node.raw.conceptId
      BY <2>1 DEF ConceptNodes, matches
    <3>3. asIntentConcept(node) \in ToSet(intentConcepts(disk.intent))
      BY <3>1, ConceptsAre
    <3>4. asIntentConcept(node).conceptId = matches[id]
      BY <3>2 DEF asIntentConcept
    <3> QED
      BY <3>1, <3>3, <3>4
  <2>8. PICK in, prior : in = Inputs /\ prior = Registry
    OBVIOUS
  <2>9. PICK file, m : file = decisions /\ m = id[2]
    OBVIOUS
  <2>10. m \in reconcile(in, prior, file).queue
    BY <2>1, <2>8, <2>9
  <2>11. ~ /\ EntityId(m) \in DOMAIN resolveDecisions(prior, file)
           /\ resolveDecisions(prior, file)[EntityId(m)]
                 \in {c.conceptId : c \in ToSet(intentConcepts(in.intent))}
    BY <2>10, QueuedIsUndecided
  <2> QED
    BY <2>4, <2>6, <2>7, <2>8, <2>9, <2>11
<1> QED
  BY SpineAlways, <1>1, PTL

-------------------------------------------------------------------------------
(* The scores of the matcher are numbers, so there is a best concept.        *)

LEMMA ImageIsFinite ==
    ASSUME NEW S, IsFiniteSet(S), NEW f, \A x \in S : x \in DOMAIN f
    PROVE  IsFiniteSet({f[x] : x \in S})
<1> DEFINE g == [x \in S |-> f[x]]
           T == {f[x] : x \in S}
<1>1. g \in Surjection(S, T)
  BY DEF Surjection
<1> HIDE DEF g
<1> QED
  BY <1>1, FS_Surjection

\* The first of the highest of a sequence of numbers.
LEMMA FirstHighest ==
    ASSUME NEW n \in Nat \ {0}, NEW f \in [1..n -> Int]
    PROVE  \E i \in 1..n : \A j \in 1..n : f[j] <= f[i] /\ (j < i => f[j] < f[i])
<1> DEFINE Good(m) == \E i \in 1..m : \A j \in 1..m : f[j] <= f[i] /\ (j < i => f[j] < f[i])
           S == {m \in Nat : m + 1 <= n => Good(m + 1)}
<1>1. 0 \in S
  <2>1. Good(1)
    <3>1. 1..1 = {1} /\ f[1] \in Int
      OBVIOUS
    <3> QED
      BY <3>1
  <2> QED
    BY <2>1
<1>2. ASSUME NEW m \in Nat, m \in S PROVE m + 1 \in S
  <2> SUFFICES ASSUME (m + 1) + 1 <= n PROVE Good((m + 1) + 1)
    OBVIOUS
  <2>1. PICK i \in 1..m + 1 : \A j \in 1..m + 1 : f[j] <= f[i] /\ (j < i => f[j] < f[i])
    BY <1>2
  <2>2. \A j \in 1..(m + 1) + 1 : f[j] \in Int /\ (j \in 1..m + 1 \/ j = (m + 1) + 1)
    OBVIOUS
  <2>3. CASE f[(m + 1) + 1] <= f[i]
    <3>1. i \in 1..(m + 1) + 1
      BY <2>1
    <3>2. \A j \in 1..(m + 1) + 1 : f[j] <= f[i] /\ (j < i => f[j] < f[i])
      BY <2>1, <2>2, <2>3
    <3> QED
      BY <3>1, <3>2
  <2>4. CASE f[i] < f[(m + 1) + 1]
    <3>1. (m + 1) + 1 \in 1..(m + 1) + 1
      OBVIOUS
    <3>2. \A j \in 1..(m + 1) + 1 : /\ f[j] <= f[(m + 1) + 1]
                                    /\ j < (m + 1) + 1 => f[j] < f[(m + 1) + 1]
      BY <2>1, <2>2, <2>4
    <3> QED
      BY <3>1, <3>2
  <2>5. f[i] \in Int /\ f[(m + 1) + 1] \in Int
    BY <2>1, <2>2
  <2> QED
    BY <2>3, <2>4, <2>5
<1>3. Nat \subseteq S
  <2> HIDE DEF S
  <2> QED
    BY <1>1, <1>2, NatSetInduction
<1>4. PICK m \in Nat : m + 1 = n
  <2>1. n - 1 \in Nat /\ (n - 1) + 1 = n
    OBVIOUS
  <2> QED
    BY <2>1
<1>5. m \in S
  <2> HIDE DEF S
  <2> QED
    BY <1>3
<1>6. Good(n)
  <2> HIDE DEF Good
  <2> QED
    BY <1>4, <1>5
<1> QED
  BY <1>6

LEMMA MaxOfFinite ==
    ASSUME NEW S \in SUBSET Int, IsFiniteSet(S), S # {}
    PROVE  Max(S) \in S
<1>1. PICK n \in Nat : \E f \in [1..n -> S] : \A x \in S : \E i \in 1..n : f[i] = x
  <2>1. PICK n : n = Cardinality(S) /\ n \in Nat /\ ExistsBijection(1..n, S)
    BY FS_CardinalityType
  <2> QED
    BY <2>1 DEF ExistsBijection, Bijection, Injection, Surjection
<1> PICK f \in [1..n -> S] : \A x \in S : \E i \in 1..n : f[i] = x
  BY <1>1
<1>2. n # 0
  <2>1. 1..0 = {}
    OBVIOUS
  <2> QED
    BY <2>1
<1>3. f \in [1..n -> Int]
  OBVIOUS
<1>4. PICK i \in 1..n : \A j \in 1..n : f[j] <= f[i]
  BY <1>2, <1>3, FirstHighest
<1>5. \A x \in S : f[i] >= x
  <2>1. ASSUME NEW x \in S PROVE f[i] >= x
    <3>1. PICK j \in 1..n : f[j] = x
      OBVIOUS
    <3>2. f[j] <= f[i] /\ f[i] \in Int /\ x \in Int
      BY <1>3, <1>4
    <3> QED
      BY <3>1, <3>2
  <2> QED
    BY <2>1
<1>6. f[i] \in S
  OBVIOUS
<1> QED
  BY <1>5, <1>6 DEF Max

LEMMA JaccardIs ==
    ASSUME NEW a, NEW b, IsFiniteSet(a), IsFiniteSet(b)
    PROVE  jaccard(a, b) \in Int
<1>1. PICK both, any : both = Cardinality(a \cap b) /\ any = Cardinality(a \cup b)
  OBVIOUS
<1>2. both \in Nat
  <2>1. IsFiniteSet(a \cap b)
    BY FS_Subset
  <2> QED
    BY <1>1, <2>1, FS_CardinalityType
<1>3. any \in Nat
  <2>1. IsFiniteSet(a \cup b)
    BY FS_Union
  <2> QED
    BY <1>1, <2>1, FS_CardinalityType
<1>4. jaccard(a, b) = IF any = 0 THEN 0 ELSE (200 * both + any) \div (2 * any)
  BY <1>1 DEF jaccard
<1>5. any # 0 => (200 * both + any) \div (2 * any) \in Int
  <2> SUFFICES ASSUME any # 0 PROVE (200 * both + any) \div (2 * any) \in Int
    OBVIOUS
  <2>1. PICK x, y : x = 200 * both + any /\ y = 2 * any /\ x \in Int /\ y \in Nat /\ y # 0
    BY <1>2, <1>3
  <2>2. x \div y \in Int
    BY <2>1
  <2> QED
    BY <2>1, <2>2
<1> QED
  BY <1>4, <1>5

\* A concept and an entity as the matcher compares them.
Comparable(c, e) ==
    /\ c.names \subseteq Name /\ c.names # {} /\ c.attributes \subseteq Name
    /\ c.dependsOn \subseteq Name
    /\ e.name \in Name /\ e.attributes \subseteq Name /\ e.dependsOn \in Seq(Name)

LEMMA NamesAreFinite == ASSUME NEW S \in SUBSET Name PROVE IsFiniteSet(S)
  BY WordsAssumption, FS_Subset

LEMMA WordSetIs == ASSUME NEW n \in Name PROVE IsFiniteSet(WordSet(n))
<1>1. PICK words : words = normalizeName(n)
  OBVIOUS
<1>2. IsSequence(Words[n])
  BY WordsAssumption
<1>3. PICK k : k = Len(Words[n]) /\ k \in Nat /\ DOMAIN Words[n] = 1..k
  BY <1>2, SequenceIs
<1>4. DOMAIN words = 1..k
  BY <1>1, <1>3 DEF normalizeName
<1>5. IsFiniteSet(1..k)
  BY <1>3, FS_Interval
<1>6. IsFiniteSet({words[i] : i \in 1..k})
  BY <1>4, <1>5, ImageIsFinite
<1> QED
  BY <1>1, <1>4, <1>6 DEF WordSet, ToSet

LEMMA NameSignalIs ==
    ASSUME NEW c, NEW e, Comparable(c, e)
    PROVE  nameSignal(c, e) \in Int
<1> DEFINE f == [n \in c.names |-> jaccard(WordSet(n), WordSet(e.name))]
           S == {f[n] : n \in c.names}
<1>1. \A n \in c.names : f[n] \in Int
  BY WordSetIs, JaccardIs DEF Comparable
<1>2. IsFiniteSet(c.names) /\ c.names # {}
  BY NamesAreFinite DEF Comparable
<1>3. nameSignal(c, e) = Max(S)
  <2>1. S = {jaccard(WordSet(n), WordSet(e.name)) : n \in c.names}
    OBVIOUS
  <2> QED
    BY Zenon, <2>1 DEF nameSignal
<1>4. DOMAIN f = c.names
  OBVIOUS
<1> HIDE DEF f
<1>5. IsFiniteSet(S) /\ S # {} /\ S \subseteq Int
  BY <1>1, <1>2, <1>4, ImageIsFinite
<1> HIDE DEF S
<1> QED
  BY <1>3, <1>5, MaxOfFinite

LEMMA AttributesSignalIs ==
    ASSUME NEW c, NEW e, Comparable(c, e)
    PROVE  attributesSignal(c, e) \in Int
<1>1. \A S \in SUBSET Name : IsFiniteSet({normalizeAttr(a) : a \in S})
  <2> SUFFICES ASSUME NEW S \in SUBSET Name PROVE IsFiniteSet({normalizeAttr(a) : a \in S})
    OBVIOUS
  <2>1. IsFiniteSet(S) /\ \A a \in S : a \in DOMAIN Letters
    BY NamesAreFinite, NamesAssumption
  <2>2. IsFiniteSet({Letters[a] : a \in S})
    BY <2>1, ImageIsFinite
  <2> QED
    BY <2>2 DEF normalizeAttr
<1> QED
  BY <1>1, JaccardIs DEF Comparable, attributesSignal

LEMMA TopologySignalIs ==
    ASSUME NEW c, NEW e, Comparable(c, e), NEW known, NEW named
    PROVE  topologySignal(c, e, known, named) \in Int
<1> DEFINE a == {known[d] : d \in ToSet(e.dependsOn) \cap DOMAIN known}
           D == {d \in c.dependsOn : normalizeName(d) \in DOMAIN named}
           b == {named[normalizeName(d)] : d \in D}
<1>1. IsFiniteSet(a)
  <2>1. ToSet(e.dependsOn) \subseteq Name
    BY TypedIs DEF Comparable
  <2>2. IsFiniteSet(ToSet(e.dependsOn) \cap DOMAIN known)
    BY <2>1, NamesAreFinite
  <2> QED
    BY <2>2, ImageIsFinite
<1>2. IsFiniteSet(b)
  <2>1. IsFiniteSet(D)
    BY NamesAreFinite DEF Comparable
  <2>2. PICK f : f = [d \in D |-> named[normalizeName(d)]]
    OBVIOUS
  <2>3. DOMAIN f = D /\ \A d \in D : f[d] = named[normalizeName(d)]
    BY <2>2
  <2> HIDE DEF D
  <2>4. IsFiniteSet({f[d] : d \in D})
    BY <2>1, <2>3, ImageIsFinite
  <2>5. {f[d] : d \in D} = b
    BY <2>3
  <2> QED
    BY <2>4, <2>5
<1>3. topologySignal(c, e, known, named) = jaccard(a, b)
  BY Zenon DEF topologySignal
<1> HIDE DEF a, b
<1> QED
  BY <1>1, <1>2, <1>3, JaccardIs

\* The best concept of an entity is one of the concepts.
LEMMA MatchIs ==
    ASSUME NEW concepts, IsSequence(concepts), concepts # <<>>, NEW e,
           \A c \in ToSet(concepts) : Comparable(c, e), NEW known, NEW named
    PROVE  \E c \in ToSet(concepts) : MatchOf(e, concepts, known, named).concept = c.conceptId
<1> DEFINE Score(c) == composite(attributesSignal(c, e), nameSignal(c, e),
                                 topologySignal(c, e, known, named), behaviorSignal(c, e))
           Best(i) == \A j \in DOMAIN concepts :
                         /\ Score(concepts[j]) <= Score(concepts[i])
                         /\ j < i => Score(concepts[j]) < Score(concepts[i])
           best == concepts[CHOOSE i \in DOMAIN concepts : Best(i)]
<1>1. PICK n : n = Len(concepts) /\ n \in Nat \ {0} /\ DOMAIN concepts = 1..n
               /\ \A i \in 1..n : concepts[i] \in ToSet(concepts)
  <2>1. PICK n : n = Len(concepts) /\ n \in Nat /\ DOMAIN concepts = 1..n
                 /\ \A i \in 1..n : concepts[i] \in ToSet(concepts)
    BY SequenceIs
  <2>2. n # 0
    <3>1. PICK T : concepts \in Seq(T)
      BY DEF IsSequence
    <3> QED
      BY <2>1, <3>1
  <2> QED
    BY <2>1, <2>2
<1>2. \A c \in ToSet(concepts) : Score(c) \in Int
  <2> SUFFICES ASSUME NEW c \in ToSet(concepts) PROVE Score(c) \in Int
    OBVIOUS
  <2>1. /\ attributesSignal(c, e) \in Int /\ nameSignal(c, e) \in Int
        /\ topologySignal(c, e, known, named) \in Int
    BY AttributesSignalIs, NameSignalIs, TopologySignalIs
  <2>2. behaviorSignal(c, e) \in Int
    BY DEF behaviorSignal
  <2> QED
    BY <2>1, <2>2 DEF composite
<1>3. PICK i \in DOMAIN concepts : Best(i)
  <2>1. PICK f : f = [i \in 1..n |-> Score(concepts[i])]
    OBVIOUS
  <2> HIDE DEF Score
  <2>2. f \in [1..n -> Int] /\ \A i \in 1..n : f[i] = Score(concepts[i])
    BY <1>1, <1>2, <2>1
  <2>3. PICK i \in 1..n : \A j \in 1..n : f[j] <= f[i] /\ (j < i => f[j] < f[i])
    BY <1>1, <2>2, FirstHighest
  <2> QED
    BY <1>1, <2>2, <2>3
<1>4. best \in ToSet(concepts)
  <2> HIDE DEF Best
  <2>1. (CHOOSE k \in DOMAIN concepts : Best(k)) \in DOMAIN concepts
    BY <1>3
  <2> QED
    BY <1>1, <2>1
<1>5. \E how : MatchOf(e, concepts, known, named) = [concept |-> best.conceptId, how |-> how]
  BY Zenon DEF MatchOf, FirstBest
<1> HIDE DEF best
<1> QED
  BY <1>4, <1>5

\* Every entity has a match, and an accepted one is with a concept there is.
LEMMA MatchedIs ==
    ASSUME NEW concepts, IsSequence(concepts), NEW entities,
           \A c \in ToSet(concepts) : \A e \in ToSet(entities) : Comparable(c, e)
    PROVE  LET match == matchIntentToStructure(concepts, entities)
           IN /\ DOMAIN match = {e.name : e \in ToSet(entities)}
              /\ \A n \in DOMAIN match : match[n].how = "accepted" =>
                    match[n].concept \in {c.conceptId : c \in ToSet(concepts)}
<1> DEFINE known == Provisional(concepts, entities)
           named == conceptNameIndex(concepts)
           the(n) == CHOOSE e \in ToSet(entities) : e.name = n
           match == matchIntentToStructure(concepts, entities)
<1>1. match = [n \in {e.name : e \in ToSet(entities)} |-> MatchOf(the(n), concepts, known, named)]
  BY Zenon DEF matchIntentToStructure
<1>2. PICK first, index : first = known /\ index = named
  OBVIOUS
<1>3. ASSUME NEW n, n \in {e.name : e \in ToSet(entities)}
      PROVE  the(n) \in ToSet(entities)
  BY <1>3
<1> HIDE DEF known, named, match, the
<1>4. ASSUME NEW e \in ToSet(entities), MatchOf(e, concepts, known, named).how = "accepted"
      PROVE  MatchOf(e, concepts, known, named).concept \in {c.conceptId : c \in ToSet(concepts)}
  <2>1. CASE concepts = <<>>
    <3>1. MatchOf(e, concepts, known, named) = [how |-> "none", concept |-> NoId]
      BY Zenon, <2>1 DEF MatchOf
    <3> QED
      BY <1>4, <3>1
  <2>2. CASE concepts # <<>>
    <3>1. \E c \in ToSet(concepts) : MatchOf(e, concepts, first, index).concept = c.conceptId
      BY <2>2, MatchIs
    <3> QED
      BY <1>2, <3>1
  <2> QED
    BY <2>1, <2>2
<1>5. DOMAIN match = {e.name : e \in ToSet(entities)}
      /\ \A n \in DOMAIN match : match[n] = MatchOf(the(n), concepts, known, named)
  BY <1>1
<1>6. \A n \in DOMAIN match : match[n].how = "accepted" =>
         match[n].concept \in {c.conceptId : c \in ToSet(concepts)}
  BY <1>3, <1>4, <1>5
<1> QED
  BY <1>5, <1>6 DEF match

\* Where an entity is placed, by the matcher or by a human, there is a concept.
LEMMA PlacedIs ==
    ASSUME NEW match, NEW decided, NEW ids,
           \A n \in DOMAIN match : match[n].how = "accepted" => match[n].concept \in ids
    PROVE  LET placed == ConceptOfEntity(match, decided, ids)
           IN DOMAIN placed \subseteq DOMAIN match /\ \A n \in DOMAIN placed : placed[n] \in ids
<1> DEFINE human == HumanMatched(match, decided, ids)
           sure == {n \in DOMAIN match : match[n].how = "accepted"}
           placed == ConceptOfEntity(match, decided, ids)
<1>1. \A n \in human : n \in DOMAIN match /\ decided[EntityId(n)] \in ids
  BY DEF HumanMatched
<1> HIDE DEF human
<1>2. placed = [n \in sure \cup human |->
                  IF n \in human THEN decided[EntityId(n)] ELSE match[n].concept]
  BY Zenon DEF ConceptOfEntity, human
<1>3. \A n \in DOMAIN placed : n \in DOMAIN match /\ placed[n] \in ids
  <2> HIDE DEF placed
  <2>1. ASSUME NEW n \in DOMAIN placed PROVE n \in DOMAIN match /\ placed[n] \in ids
    <3>1. n \in sure \cup human
          /\ placed[n] = IF n \in human THEN decided[EntityId(n)] ELSE match[n].concept
      BY <1>2, <2>1
    <3> QED
      BY <1>1, <3>1
  <2> QED
    BY <2>1
<1> QED
  BY <1>3

-------------------------------------------------------------------------------
(* Rows.                                                                     *)

\* The last of the nodes of a key.
LEMMA LastKeyed ==
    ASSUME NEW nodes, IsSequence(nodes), NEW key, key \in {KeyOf(n) : n \in ToSet(nodes)}
    PROVE  LET last == SelectLastInSeq(nodes, LAMBDA r : KeyOf(r) = key)
           IN last \in DOMAIN nodes /\ nodes[last] \in ToSet(nodes) /\ KeyOf(nodes[last]) = key
<1>1. PICK node \in ToSet(nodes) : key = KeyOf(node)
  OBVIOUS
<1> DEFINE I == {j \in 1..Len(nodes) : KeyOf(nodes[j]) = key}
<1>2. SelectLastInSeq(nodes, LAMBDA r : KeyOf(r) = key) = IF I # {} THEN Max(I) ELSE 0
  BY DEF SelectLastInSeq
<1>3. PICK n : n = Len(nodes) /\ n \in Nat /\ DOMAIN nodes = 1..n
               /\ \A i \in 1..n : nodes[i] \in ToSet(nodes)
  BY SequenceIs
<1>4. I \in SUBSET (1..n) /\ I # {}
  <2>1. PICK i \in DOMAIN nodes : nodes[i] = node
    BY DEF ToSet
  <2>2. i \in I
    BY <1>1, <1>3, <2>1
  <2> QED
    BY <1>3, <2>2
<1>5. Max(I) \in I
  <2> HIDE DEF I
  <2> QED
    BY <1>3, <1>4, MaxIs
<1> QED
  BY <1>1, <1>2, <1>3, <1>4, <1>5

\* A route folds into a concept there is.
LEMMA AnchorIs ==
    ASSUME NEW routes, IsSequence(routes), NEW placed, NEW ids,
           \A n \in DOMAIN placed : placed[n] \in ids
    PROVE  \A key \in DOMAIN routeKeyToConcept(routes, placed) :
              routeKeyToConcept(routes, placed)[key] \in ids
<1> DEFINE of == {r \in ToSet(routes) : r.raw.entity \in DOMAIN placed}
           anchored == Only(routes, of)
           last(key) == SelectLastInSeq(anchored, LAMBDA r : KeyOf(r) = key)
           anchor == routeKeyToConcept(routes, placed)
<1>1. anchor = [key \in {KeyOf(r) : r \in ToSet(anchored)} |->
                  placed[anchored[last(key)].raw.entity]]
  BY Zenon DEF routeKeyToConcept
<1>2. IsSequence(anchored) /\ ToSet(anchored) = ToSet(routes) \cap of
  <2> HIDE DEF of
  <2> QED
    BY OnlyOf
<1> HIDE DEF anchored
<1>3. \A key \in {KeyOf(r) : r \in ToSet(anchored)} : anchored[last(key)] \in ToSet(anchored)
  BY <1>2, LastKeyed
<1>4. \A r \in ToSet(anchored) : r.raw.entity \in DOMAIN placed
  BY <1>2
<1> HIDE DEF last, anchor, of
<1>5. ASSUME NEW key \in DOMAIN anchor PROVE anchor[key] \in ids
  <2>1. key \in {KeyOf(r) : r \in ToSet(anchored)}
    BY <1>1
  <2>2. anchor[key] = placed[anchored[last(key)].raw.entity]
    BY <1>1
  <2> QED
    BY <1>3, <1>4, <2>1, <2>2
<1> QED
  BY <1>5 DEF anchor

IsRow(row) ==
    DOMAIN row = {"state", "intent", "structure", "behavior", "decisions", "divergences"}

Keeps(new, old) ==
    /\ IsRow(new)
    /\ new.intent = old.intent /\ new.structure = old.structure /\ new.behavior = old.behavior

LEMMA RowIs == ASSUME NEW state PROVE IsRow(Row(state))
  BY DEF IsRow, Row

\* The overlay changes no row's nodes.
LEMMA OverlayKeeps ==
    ASSUME NEW row, IsRow(row), NEW id, NEW broken, NEW loose, NEW noted
    PROVE  Keeps(OverlayRow(row, id, broken, loose, noted), row)
<1>1. \A r, adr : IsRow(r) => Keeps(Violated(r, adr), r)
  BY DEF IsRow, Keeps, Violated
<1>2. \A r, adr : IsRow(r) => Keeps(Adjudicated(r, adr), r)
  BY DEF IsRow, Keeps, Adjudicated
<1>3. PICK ruled : ruled = IF id \in DOMAIN broken THEN Violated(row, broken[id]) ELSE row
  OBVIOUS
<1>4. Keeps(ruled, row)
  BY <1>1, <1>3 DEF Keeps
<1>5. OverlayRow(row, id, broken, loose, noted) = ruled
      \/ \E adr : OverlayRow(row, id, broken, loose, noted) = Adjudicated(ruled, adr)
  BY Zenon, <1>3 DEF OverlayRow
<1> QED
  BY <1>2, <1>4, <1>5 DEF Keeps

Final(ruled) == [id \in DOMAIN ruled |-> IntentOnly(ruled[id])]

LEMMA RuledKeeps ==
    ASSUME NEW rows, \A id \in DOMAIN rows : IsRow(rows[id]), NEW entities, NEW placed,
           NEW adrFile, NEW final, final = Final(applyAdrOverlay(rows, entities, placed, adrFile))
    PROVE  DOMAIN final = DOMAIN rows /\ \A id \in DOMAIN rows : Keeps(final[id], rows[id])
<1> DEFINE ruled == applyAdrOverlay(rows, entities, placed, adrFile)
<1>1. PICK broken, noted : ruled = OverlayRows(rows, broken, noted)
  BY Zenon DEF applyAdrOverlay
<1>2. PICK loose : ruled = [id \in DOMAIN rows |-> OverlayRow(rows[id], id, broken, loose, noted)]
  BY Zenon, <1>1 DEF OverlayRows
<1> HIDE DEF ruled
<1>3. DOMAIN ruled = DOMAIN rows /\ \A id \in DOMAIN rows : Keeps(ruled[id], rows[id])
  BY <1>2, OverlayKeeps
<1>4. \A row : IsRow(row) => Keeps(IntentOnly(row), row)
  BY DEF IsRow, Keeps, IntentOnly
<1>5. \A id \in DOMAIN rows : Keeps(IntentOnly(ruled[id]), rows[id])
  BY <1>3, <1>4 DEF Keeps
<1>6. final = [id \in DOMAIN ruled |-> IntentOnly(ruled[id])]
  BY Zenon DEF Final, ruled
<1> QED
  BY <1>3, <1>5, <1>6

LEMMA LastOfConcept ==
    ASSUME NEW concepts, IsSequence(concepts), NEW id,
           id \in {c.conceptId : c \in ToSet(concepts)}
    PROVE  concepts[SelectLastInSeq(concepts, LAMBDA c : c.conceptId = id)]
               \in ToSet(concepts)
<1>1. PICK concept \in ToSet(concepts) : id = concept.conceptId
  OBVIOUS
<1> DEFINE I == {j \in 1..Len(concepts) : concepts[j].conceptId = id}
<1>2. SelectLastInSeq(concepts, LAMBDA c : c.conceptId = id) = IF I # {} THEN Max(I) ELSE 0
  BY DEF SelectLastInSeq
<1>3. PICK n : n = Len(concepts) /\ n \in Nat /\ DOMAIN concepts = 1..n
               /\ \A i \in 1..n : concepts[i] \in ToSet(concepts)
  BY SequenceIs
<1>4. I \in SUBSET (1..n) /\ I # {}
  <2>1. PICK i \in DOMAIN concepts : concepts[i] = concept
    BY DEF ToSet
  <2>2. i \in I
    BY <1>1, <1>3, <2>1
  <2> QED
    BY <1>3, <2>2
<1>5. Max(I) \in I
  <2> HIDE DEF I
  <2> QED
    BY <1>3, <1>4, MaxIs
<1> QED
  BY <1>2, <1>3, <1>4, <1>5

\* The row of a domain concept: its node, the entities placed in it and what was
\* observed on the routes folded into it.
DomainRows(rows, concepts, entities, placed, behavior, anchor) ==
    /\ DOMAIN rows = {c.conceptId : c \in ToSet(concepts)}
    /\ \A id \in DOMAIN rows :
          /\ IsRow(rows[id])
          /\ \E c \in ToSet(concepts) : rows[id].intent = {c.node}
          /\ \A x : x \in rows[id].structure <=>
                \E e \in ToSet(entities) : /\ x = e.node /\ e.name \in DOMAIN placed
                                           /\ placed[e.name] = id
          /\ \A x : x \in rows[id].behavior <=>
                /\ x \in ToSet(behavior) /\ KeyOf(x) \in DOMAIN anchor
                /\ anchor[KeyOf(x)] = id

LEMMA IntentRowsAre ==
    ASSUME NEW concepts, IsSequence(concepts), NEW entities, NEW placed, NEW behavior, NEW anchor
    PROVE  DomainRows(intentRows(concepts, entities, placed, behavior, anchor), concepts, entities,
                      placed, behavior, anchor)
<1> DEFINE built(id) == {e.node : e \in {e \in ToSet(entities) :
                                e.name \in DOMAIN placed /\ placed[e.name] = id}}
           seen(id) == {n \in ToSet(behavior) : KeyOf(n) \in DOMAIN anchor
                                                /\ anchor[KeyOf(n)] = id}
           last(id) == concepts[SelectLastInSeq(concepts, LAMBDA c : c.conceptId = id)]
           node(id) == last(id).node
           row(id) == [Row(IF built(id) = {} THEN "intent-only" ELSE "aligned") EXCEPT
                         !.intent = {node(id)}, !.structure = built(id), !.behavior = seen(id)]
           rows == intentRows(concepts, entities, placed, behavior, anchor)
<1>1. rows = [id \in {c.conceptId : c \in ToSet(concepts)} |-> row(id)]
  BY Zenon DEF intentRows
<1>2. ASSUME NEW id, id \in {c.conceptId : c \in ToSet(concepts)}
      PROVE  \E c \in ToSet(concepts) : node(id) = c.node
  <2>1. \A i \in {c.conceptId : c \in ToSet(concepts)} : last(i) \in ToSet(concepts)
    BY LastOfConcept
  <2> HIDE DEF last
  <2> QED
    BY <1>2, <2>1
<1>3. ASSUME NEW id
      PROVE  /\ IsRow(row(id)) /\ row(id).intent = {node(id)}
             /\ row(id).structure = built(id) /\ row(id).behavior = seen(id)
  <2> HIDE DEF node, built, seen
  <2> QED
    BY DEF Row, IsRow
<1>4. \A id, x : x \in built(id) <=>
         \E e \in ToSet(entities) : x = e.node /\ e.name \in DOMAIN placed /\ placed[e.name] = id
  OBVIOUS
<1>5. \A id, x : x \in seen(id) <=>
         x \in ToSet(behavior) /\ KeyOf(x) \in DOMAIN anchor /\ anchor[KeyOf(x)] = id
  OBVIOUS
<1> HIDE DEF rows, row, node, built, seen
<1>6. DOMAIN rows = {c.conceptId : c \in ToSet(concepts)}
      /\ \A id \in DOMAIN rows : rows[id] = row(id)
  BY <1>1
<1>7. ASSUME NEW id \in DOMAIN rows
      PROVE  /\ IsRow(rows[id])
             /\ \E c \in ToSet(concepts) : rows[id].intent = {c.node}
             /\ rows[id].structure = built(id) /\ rows[id].behavior = seen(id)
  BY <1>2, <1>3, <1>6
<1> QED
  BY <1>4, <1>5, <1>6, <1>7 DEF rows, DomainRows

StructRows(classOf) ==
    [id \in {StructId(e.name) : e \in DOMAIN classOf} |->
        LET e == CHOOSE e \in DOMAIN classOf : StructId(e.name) = id
        IN structRow(e, classOf[e])]

\* The row of an entity without a concept: the entity.
LooseRows(rows, loose) ==
    /\ DOMAIN rows = {StructId(e.name) : e \in loose}
    /\ \A e \in loose :
          /\ IsRow(rows[StructId(e.name)])
          /\ rows[StructId(e.name)].intent = {} /\ rows[StructId(e.name)].behavior = {}
          /\ rows[StructId(e.name)].structure = {e.node}

LEMMA StructRowsAre ==
    ASSUME NEW loose, \A d, e \in loose : d.name = e.name => d = e,
           NEW classOf, DOMAIN classOf = loose
    PROVE  LooseRows(StructRows(classOf), loose)
<1> DEFINE the(id) == CHOOSE e \in DOMAIN classOf : StructId(e.name) = id
           rows == StructRows(classOf)
<1>1. rows = [id \in {StructId(e.name) : e \in DOMAIN classOf} |->
                 structRow(the(id), classOf[the(id)])]
  BY Zenon DEF StructRows
<1>2. ASSUME NEW e \in loose PROVE the(StructId(e.name)) = e
  <2>1. \A d \in loose : StructId(d.name) = StructId(e.name) => d = e
    BY DEF StructId
  <2> QED
    BY <2>1
<1>3. \A e, class : /\ IsRow(structRow(e, class)) /\ structRow(e, class).intent = {}
                    /\ structRow(e, class).structure = {e.node}
                    /\ structRow(e, class).behavior = {}
  BY DEF structRow, Row, IsRow
<1> HIDE DEF the, rows
<1>4. DOMAIN rows = {StructId(e.name) : e \in loose}
  BY <1>1
<1>5. \A e \in loose : rows[StructId(e.name)] = structRow(e, classOf[e])
  BY <1>1, <1>2
<1> QED
  BY <1>3, <1>4, <1>5 DEF rows, LooseRows

\* The row of a route no concept has, and of observations nobody claims.
LeftoverRows(rows, routes, behavior, built, loose) ==
    /\ DOMAIN rows = {RouteId(k) : k \in built \cup {KeyOf(n) : n \in loose}}
    /\ \A k : RouteId(k) \in DOMAIN rows =>
          /\ IsRow(rows[RouteId(k)])
          /\ rows[RouteId(k)].intent = {} /\ rows[RouteId(k)].structure \subseteq ToSet(routes)
          /\ \A n : n \in rows[RouteId(k)].behavior <=>
                /\ n \in ToSet(behavior) /\ KeyOf(n) = k
                /\ k \in built \/ n \in loose
          /\ rows[RouteId(k)].state = IF k \notin built THEN "unmatched"
                                      ELSE IF \E n \in ToSet(behavior) : KeyOf(n) = k THEN "aligned"
                                      ELSE "code-only"

LEMMA RouteRowsAre ==
    ASSUME NEW routes, IsSequence(routes), NEW behavior, NEW anchor,
           NEW built, built = {KeyOf(r) : r \in ToSet(routes)} \ DOMAIN anchor,
           NEW loose, loose = {n \in ToSet(behavior) :
                                  n.nodeId \notin Consumed(behavior, DOMAIN anchor, built)}
    PROVE  LeftoverRows(buildRouteConcepts(routes, behavior, anchor), routes, behavior, built, loose)
<1> DEFINE lastRoute(key) == routes[SelectLastInSeq(routes, LAMBDA r : KeyOf(r) = key)]
           seen(key) == Observed(behavior, key)
           Built(key) ==
               IF seen(key) # {}
               THEN [Row("aligned") EXCEPT !.structure = {lastRoute(key)}, !.behavior = seen(key)]
               ELSE [Row("code-only") EXCEPT !.structure = {lastRoute(key)},
                       !.divergences = {Divergence("structure-behavior", "never observed", {})}]
           rest(key) == {n \in loose : KeyOf(n) = key}
           Unclaimed(key) ==
              [Row("unmatched") EXCEPT !.behavior = rest(key),
                 !.divergences = {Divergence("structure-behavior", "absent from structure", {})}]
           keys == built \cup {KeyOf(n) : n \in loose}
           rows == buildRouteConcepts(routes, behavior, anchor)
<1>1. rows = [id \in {RouteId(k) : k \in keys} |->
                 IF id[2] \in built THEN Built(id[2]) ELSE Unclaimed(id[2])]
  BY Zenon DEF buildRouteConcepts
<1>2. \A key \in built : lastRoute(key) \in ToSet(routes)
  <2>1. \A key \in {KeyOf(r) : r \in ToSet(routes)} : lastRoute(key) \in ToSet(routes)
    BY LastKeyed
  <2> HIDE DEF lastRoute
  <2> QED
    BY <2>1
<1>3. \A key, n : n \in seen(key) <=> n \in ToSet(behavior) /\ KeyOf(n) = key
  BY DEF Observed
<1>4. \A key, n : n \in rest(key) <=> n \in ToSet(behavior) /\ KeyOf(n) = key /\ n \in loose
  OBVIOUS
<1>5. ASSUME NEW key
      PROVE  /\ IsRow(Built(key)) /\ Built(key).intent = {} /\ Built(key).structure = {lastRoute(key)}
             /\ Built(key).behavior = seen(key)
             /\ Built(key).state = IF seen(key) # {} THEN "aligned" ELSE "code-only"
  <2> HIDE DEF lastRoute, seen
  <2>1. CASE seen(key) = {}
    BY <2>1 DEF Row, IsRow
  <2>2. CASE seen(key) # {}
    BY <2>2 DEF Row, IsRow
  <2> QED
    BY <2>1, <2>2
<1>6. ASSUME NEW key
      PROVE  /\ IsRow(Unclaimed(key)) /\ Unclaimed(key).intent = {}
             /\ Unclaimed(key).structure = {} /\ Unclaimed(key).behavior = rest(key)
             /\ Unclaimed(key).state = "unmatched"
  <2> HIDE DEF rest
  <2> QED
    BY DEF Row, IsRow
<1> HIDE DEF rows, Built, Unclaimed, lastRoute, seen, rest
<1>7. DOMAIN rows = {RouteId(k) : k \in keys}
      /\ \A k : RouteId(k) \in DOMAIN rows =>
            /\ k \in keys
            /\ rows[RouteId(k)] = IF k \in built THEN Built(k) ELSE Unclaimed(k)
  <2>1. \A j, k : RouteId(j) = RouteId(k) => j = k
    BY DEF RouteId
  <2>2. \A k : RouteId(k)[2] = k
    BY DEF RouteId
  <2> HIDE DEF keys
  <2> QED
    BY <1>1, <2>1, <2>2
<1>8. ASSUME NEW k, RouteId(k) \in DOMAIN rows
      PROVE  /\ IsRow(rows[RouteId(k)])
             /\ rows[RouteId(k)].intent = {}
             /\ rows[RouteId(k)].structure \subseteq ToSet(routes)
             /\ \A n : n \in rows[RouteId(k)].behavior <=>
                   /\ n \in ToSet(behavior) /\ KeyOf(n) = k
                   /\ k \in built \/ n \in loose
             /\ rows[RouteId(k)].state = IF k \notin built THEN "unmatched"
                                         ELSE IF \E n \in ToSet(behavior) : KeyOf(n) = k THEN "aligned"
                                         ELSE "code-only"
  <2>1. CASE k \in built
    <3>1. rows[RouteId(k)] = Built(k) /\ lastRoute(k) \in ToSet(routes)
      BY <1>2, <1>7, <1>8, <2>1
    <3>2. \A n : n \in seen(k) <=> n \in ToSet(behavior) /\ KeyOf(n) = k
      BY <1>3
    <3>3. seen(k) # {} <=> \E n \in ToSet(behavior) : KeyOf(n) = k
      BY <3>2
    <3>4. /\ IsRow(Built(k)) /\ Built(k).intent = {} /\ Built(k).structure = {lastRoute(k)}
          /\ Built(k).behavior = seen(k)
          /\ Built(k).state = IF seen(k) # {} THEN "aligned" ELSE "code-only"
      BY <1>5
    <3> QED
      BY <2>1, <3>1, <3>2, <3>3, <3>4
  <2>2. CASE k \notin built
    <3>1. rows[RouteId(k)] = Unclaimed(k)
      BY <1>7, <1>8, <2>2
    <3>2. \A n : n \in rest(k) <=> n \in ToSet(behavior) /\ KeyOf(n) = k /\ n \in loose
      BY <1>4
    <3> QED
      BY <1>6, <2>2, <3>1, <3>2
  <2> QED
    BY <2>1, <2>2
<1> QED
  BY <1>7, <1>8 DEF rows, LeftoverRows

-------------------------------------------------------------------------------
(* Every node has its place.                                                 *)

InputsOK(in) ==
    IntentNodesOK(in.intent) /\ StructureNodesOK(in.structure) /\ BehaviorNodesOK(in.behavior)

\* The rows hold nodes of the layers, at most one of the glossary; every entity is
\* in one row and so is every observation told by its id.
WellPlaced(rows, in) ==
    /\ \A id \in DOMAIN rows :
          /\ rows[id].intent \subseteq ConceptNodes(in.intent)
          /\ \A m, n \in rows[id].intent : m = n
          /\ rows[id].structure \subseteq EntityNodes(in.structure) \cup RouteNodes(in.structure)
          /\ rows[id].behavior \subseteq ToSet(in.behavior)
    /\ \A n \in EntityNodes(in.structure) : \E home \in DOMAIN rows :
          \A id \in DOMAIN rows : n \in rows[id].structure <=> id = home
    /\ \A n \in ToSet(in.behavior) : IsTold(n, in.behavior) =>
          \E home \in DOMAIN rows : \A id \in DOMAIN rows : n \in rows[id].behavior <=> id = home

\* The route of a row was declared or not, observed or not, as its state says.
RoutesTold(rows, in) ==
    \A k : RouteId(k) \in DOMAIN rows =>
        LET declared == \E n \in RouteNodes(in.structure) : KeyOf(n) = k
            observed == \E n \in ToSet(in.behavior) : KeyOf(n) = k
        IN rows[RouteId(k)].state = IF ~declared THEN "unmatched"
                                    ELSE IF observed THEN "aligned" ELSE "code-only"

Reconciled(out, in) ==
    /\ WellPlaced(out.unified, in)
    /\ RoutesTold(out.unified, in)
    /\ out.registry.concepts = [id \in DOMAIN out.unified |-> asConcept(out.unified[id])]

LEMMA AssembledIs ==
    ASSUME NEW in, NEW routes, NEW anchor, NEW placed, NEW human, NEW queued, NEW classOf, NEW ruled,
           NEW out, out = assemble(in, routes, anchor, placed, human, queued, classOf, ruled)
    PROVE  /\ out.unified = Over(buildRouteConcepts(routes, in.behavior, anchor), Final(ruled))
           /\ out.registry.concepts = [id \in DOMAIN out.unified |-> asConcept(out.unified[id])]
<1> DEFINE rows == Over(buildRouteConcepts(routes, in.behavior, anchor), Final(ruled))
<1>1. PICK adrFile, relations, queue :
         assemble(in, routes, anchor, placed, human, queued, classOf, ruled)
             = [registry |-> [concepts |-> [id \in DOMAIN rows |-> asConcept(rows[id])],
                              adrs |-> adrFile, relations |-> relations],
                unified  |-> rows, queue |-> queue]
  BY Zenon DEF assemble, Final
<1> HIDE DEF rows
<1>2. out.unified = rows /\ out.registry.concepts = [id \in DOMAIN rows |-> asConcept(rows[id])]
  BY <1>1
<1> QED
  BY Zenon, <1>2 DEF rows

\* Where a human, the matcher, the classification and the routes put the nodes.
LEMMA RowsAre ==
    ASSUME NEW in, InputsOK(in), NEW concepts, concepts = intentConcepts(in.intent),
           NEW entities, entities = structureEntities(in.structure),
           NEW routes, routes = Only(in.structure, RouteNodes(in.structure)),
           NEW placed, DOMAIN placed \subseteq {e.name : e \in ToSet(entities)},
           \A n \in DOMAIN placed : placed[n] \in {c.conceptId : c \in ToSet(concepts)},
           NEW human, NEW queued
    PROVE  Reconciled(classify(in, concepts, entities, routes, placed, human, queued), in)
<1> DEFINE ids == {c.conceptId : c \in ToSet(concepts)}
           loose == {e \in ToSet(entities) : e.name \notin DOMAIN placed}
           anchor == routeKeyToConcept(routes, placed)
           out == classify(in, concepts, entities, routes, placed, human, queued)
<1>1. PICK classOf :
         /\ DOMAIN classOf = loose
         /\ out = overlay(in, concepts, entities, routes, anchor, placed, human, queued, classOf)
  <2>1. PICK roots : out = overlay(in, concepts, entities, routes, anchor, placed, human, queued,
                       [e \in loose |-> classifyUnmatchedEntity(e, placed, roots, queued)])
    BY Zenon DEF classify
  <2>2. PICK classOf : classOf = [e \in loose |-> classifyUnmatchedEntity(e, placed, roots, queued)]
    OBVIOUS
  <2>3. DOMAIN classOf = loose
    BY <2>2
  <2> HIDE DEF loose, out, anchor
  <2> QED
    BY Zenon, <2>1, <2>2, <2>3
<1> DEFINE domain == intentRows(concepts, entities, placed, in.behavior, anchor)
           struct == StructRows(classOf)
           unruled == Over(domain, struct)
           ruled == applyAdrOverlay(unruled, entities, placed, in.adrs)
           final == Final(ruled)
           route == buildRouteConcepts(routes, in.behavior, anchor)
           built == {KeyOf(r) : r \in ToSet(routes)} \ DOMAIN anchor
           rest == {n \in ToSet(in.behavior) :
                       n.nodeId \notin Consumed(in.behavior, DOMAIN anchor, built)}
           rows == out.unified
<1>2. /\ rows = Over(route, final)
      /\ out.registry.concepts = [id \in DOMAIN rows |-> asConcept(rows[id])]
  <2>1. out = assemble(in, routes, anchor, placed, human, queued, classOf, ruled)
    <3> HIDE DEF anchor, out, loose
    <3>1. overlay(in, concepts, entities, routes, anchor, placed, human, queued, classOf)
          = assemble(in, routes, anchor, placed, human, queued, classOf, ruled)
      BY Zenon DEF overlay, StructRows
    <3> QED
      BY Zenon, <1>1, <3>1
  <2>2. PICK a, r, o : a = anchor /\ r = ruled /\ o = out
    OBVIOUS
  <2> HIDE DEF anchor, out, loose, ruled
  <2>3. /\ o.unified = Over(buildRouteConcepts(routes, in.behavior, a), Final(r))
        /\ o.registry.concepts = [id \in DOMAIN o.unified |-> asConcept(o.unified[id])]
    BY <2>1, <2>2, AssembledIs
  <2> QED
    BY <2>2, <2>3
<1>3. /\ IsSequence(concepts) /\ IsSequence(entities) /\ IsSequence(routes)
      /\ \A c \in ToSet(concepts) : /\ c.node \in ConceptNodes(in.intent)
                                    /\ c.conceptId[1] = "concept"
      /\ \A e \in ToSet(entities) : /\ e.node \in EntityNodes(in.structure)
                                    /\ e.name = e.node.localName
      /\ \A n \in EntityNodes(in.structure) : \E e \in ToSet(entities) :
            e.node = n /\ e.name = n.localName
      /\ \A r \in ToSet(routes) : r \in RouteNodes(in.structure) /\ ~isEntityNode(r)
  <2>1. IsSequence(in.intent) /\ IsSequence(in.structure)
    BY DEF InputsOK, IntentNodesOK, StructureNodesOK
  <2>2. \A n \in ConceptNodes(in.intent) : n.raw.conceptId[1] = "concept"
    BY DEF InputsOK, IntentNodesOK, ConceptNodes
  <2>3. IsSequence(routes) /\ ToSet(routes) = ToSet(in.structure) \cap RouteNodes(in.structure)
    BY <2>1, OnlyOf
  <2>4. \A r \in RouteNodes(in.structure) : ~isEntityNode(r)
    BY DEF RouteNodes, isRouteNode, isEntityNode
  <2>5. IsSequence(concepts) /\ \A c : c \in ToSet(concepts)
                        <=> \E n \in ConceptNodes(in.intent) : c = asIntentConcept(n)
    BY <2>1, ConceptsAre
  <2>6. IsSequence(entities) /\ \A e : e \in ToSet(entities)
                        <=> \E n \in EntityNodes(in.structure) : e = asStructureEntity(n)
    BY <2>1, EntitiesAre
  <2>7. \A n : asIntentConcept(n).node = n /\ asIntentConcept(n).conceptId = n.raw.conceptId
    BY DEF asIntentConcept
  <2>8. \A n : asStructureEntity(n).node = n /\ asStructureEntity(n).name = n.localName
    BY DEF asStructureEntity
  <2>9. \A c \in ToSet(concepts) : /\ c.node \in ConceptNodes(in.intent)
                                    /\ c.conceptId[1] = "concept"
    BY <2>2, <2>5, <2>7
  <2>10. \A e \in ToSet(entities) : /\ e.node \in EntityNodes(in.structure)
                                     /\ e.name = e.node.localName
    BY <2>6, <2>8
  <2>11. \A n \in EntityNodes(in.structure) : \E e \in ToSet(entities) :
            e.node = n /\ e.name = n.localName
    BY <2>6, <2>8
  <2>12. \A r \in ToSet(routes) : r \in RouteNodes(in.structure) /\ ~isEntityNode(r)
    BY <2>3, <2>4
  <2> QED
    BY <2>3, <2>5, <2>6, <2>9, <2>10, <2>11, <2>12
<1>4. \A d, e \in ToSet(entities) : d.name = e.name => d = e
  <2>1. \A m, n \in EntityNodes(in.structure) : m.localName = n.localName => m = n
    BY DEF InputsOK, StructureNodesOK
  <2>2. IsSequence(in.structure)
    BY DEF InputsOK, StructureNodesOK
  <2>3. \A e : e \in ToSet(entities)
                        <=> \E n \in EntityNodes(in.structure) : e = asStructureEntity(n)
    BY <2>2, EntitiesAre
  <2>4. \A n : asStructureEntity(n).name = n.localName
    BY DEF asStructureEntity
  <2> QED
    BY <2>1, <2>3, <2>4
<1>5. /\ DOMAIN domain = ids
      /\ \A id \in ids :
            /\ IsRow(domain[id]) /\ domain[id].intent \subseteq ConceptNodes(in.intent)
            /\ \A m, n \in domain[id].intent : m = n
            /\ \A x : x \in domain[id].structure <=>
                  \E e \in ToSet(entities) : /\ x = e.node /\ e.name \in DOMAIN placed
                                             /\ placed[e.name] = id
            /\ \A x : x \in domain[id].behavior <=>
                  /\ x \in ToSet(in.behavior) /\ KeyOf(x) \in DOMAIN anchor
                  /\ anchor[KeyOf(x)] = id
  <2>1. PICK a, b : a = anchor /\ b = in.behavior
    OBVIOUS
  <2>2. DomainRows(intentRows(concepts, entities, placed, b, a), concepts, entities, placed, b, a)
    BY <1>3, IntentRowsAre
  <2>3. DomainRows(domain, concepts, entities, placed, in.behavior, anchor)
    BY <2>1, <2>2
  <2> HIDE DEF domain, anchor
  <2>4. \A id \in ids : /\ domain[id].intent \subseteq ConceptNodes(in.intent)
                         /\ \A m, n \in domain[id].intent : m = n
    BY <1>3, <2>3 DEF DomainRows
  <2> QED
    BY <2>3, <2>4 DEF DomainRows
<1>6. /\ DOMAIN struct = {StructId(e.name) : e \in loose}
      /\ \A e \in loose :
            /\ IsRow(struct[StructId(e.name)]) /\ struct[StructId(e.name)].intent = {}
            /\ struct[StructId(e.name)].structure = {e.node}
            /\ struct[StructId(e.name)].behavior = {}
  <2>1. PICK free : free = loose
    OBVIOUS
  <2>2. DOMAIN classOf = free /\ \A d, e \in free : d.name = e.name => d = e
    BY <1>1, <1>4, <2>1
  <2>3. LooseRows(StructRows(classOf), free)
    BY <2>2, StructRowsAre
  <2>4. LooseRows(struct, loose)
    BY <2>1, <2>3
  <2> HIDE DEF loose, struct
  <2> QED
    BY <2>4 DEF LooseRows
<1>7. /\ DOMAIN route = {RouteId(k) : k \in built \cup {KeyOf(n) : n \in rest}}
      /\ \A k : RouteId(k) \in DOMAIN route =>
            /\ IsRow(route[RouteId(k)]) /\ route[RouteId(k)].intent = {}
            /\ route[RouteId(k)].structure \subseteq ToSet(routes)
            /\ \A n : n \in route[RouteId(k)].behavior <=>
                  /\ n \in ToSet(in.behavior) /\ KeyOf(n) = k
                  /\ k \in built \/ n \in rest
            /\ route[RouteId(k)].state = IF k \notin built THEN "unmatched"
                                         ELSE IF \E n \in ToSet(in.behavior) : KeyOf(n) = k
                                         THEN "aligned" ELSE "code-only"
  <2>1. PICK a, b : a = anchor /\ b = in.behavior
    OBVIOUS
  <2>2. PICK own, left : own = built /\ left = rest
    OBVIOUS
  <2> HIDE DEF anchor
  <2>3. /\ own = {KeyOf(r) : r \in ToSet(routes)} \ DOMAIN a
        /\ left = {n \in ToSet(b) : n.nodeId \notin Consumed(b, DOMAIN a, own)}
    BY <2>1, <2>2
  <2> HIDE DEF built, rest
  <2>4. LeftoverRows(buildRouteConcepts(routes, b, a), routes, b, own, left)
    BY <1>3, <2>3, RouteRowsAre
  <2>5. LeftoverRows(route, routes, in.behavior, built, rest)
    BY <2>1, <2>2, <2>4
  <2> HIDE DEF route
  <2> QED
    BY <2>5 DEF LeftoverRows
<1>8. \A id \in ids : id[1] = "concept"
  BY <1>3
<1>9. \A key \in DOMAIN anchor : anchor[key] \in ids
  BY <1>3, AnchorIs
<1>10. \A n \in ToSet(in.behavior) : IsTold(n, in.behavior) =>
          (n \in rest <=> KeyOf(n) \notin DOMAIN anchor \cup built)
  <2> HIDE DEF anchor, built
  <2> QED
    BY DEF Consumed, IsTold
<1>11. \A n \in rest : KeyOf(n) \notin DOMAIN anchor \cup built
  <2> HIDE DEF anchor, built
  <2> QED
    BY DEF Consumed
<1>12. DOMAIN anchor \cap built = {}
  OBVIOUS
<1>13. \A n \in ToSet(in.behavior) : KeyOf(n) = KeyOf(n)
  OBVIOUS
<1> DEFINE structIds == {StructId(e.name) : e \in loose}
           routeIds == {RouteId(k) : k \in built \cup {KeyOf(n) : n \in rest}}
<1> HIDE DEF domain, struct, route, anchor, built, rest, rows, out
<1>14. /\ \A id \in ids : id \notin structIds /\ id \notin routeIds
       /\ \A id \in structIds : id \notin routeIds
  BY <1>8 DEF StructId, RouteId
<1>15. /\ DOMAIN unruled = ids \cup structIds
       /\ \A id \in ids : unruled[id] = domain[id]
       /\ \A id \in structIds : unruled[id] = struct[id]
  <2> HIDE DEF loose
  <2> QED
    BY <1>5, <1>6, <1>14 DEF Over
<1> HIDE DEF unruled
<1>16. \A id \in DOMAIN unruled : IsRow(unruled[id])
  <2> HIDE DEF loose
  <2>1. ASSUME NEW e \in loose PROVE IsRow(struct[StructId(e.name)])
    BY <1>6
  <2> QED
    BY <1>5, <1>15, <2>1
<1>17. DOMAIN final = DOMAIN unruled /\ \A id \in DOMAIN unruled : Keeps(final[id], unruled[id])
  <2>1. PICK adrFile, all, out2 : adrFile = in.adrs /\ all = unruled /\ out2 = final
    OBVIOUS
  <2>2. out2 = Final(applyAdrOverlay(all, entities, placed, adrFile))
    BY <2>1
  <2> HIDE DEF final
  <2>3. DOMAIN out2 = DOMAIN all /\ \A id \in DOMAIN all : Keeps(out2[id], all[id])
    BY <1>16, <2>1, <2>2, RuledKeeps
  <2> QED
    BY <2>1, <2>3
<1> HIDE DEF final, ruled
<1>18. /\ DOMAIN rows = ids \cup structIds \cup routeIds
       /\ \A id \in routeIds : rows[id] = route[id]
       /\ \A id \in ids \cup structIds : rows[id] = final[id]
  <2> HIDE DEF loose
  <2> QED
    BY <1>2, <1>7, <1>14, <1>15, <1>17 DEF Over
<1>19. ASSUME NEW id \in ids
       PROVE  /\ id \in DOMAIN rows
              /\ rows[id].intent = domain[id].intent /\ rows[id].structure = domain[id].structure
              /\ rows[id].behavior = domain[id].behavior
  BY <1>15, <1>17, <1>18 DEF Keeps
<1>20. ASSUME NEW e \in loose
       PROVE  LET id == StructId(e.name)
              IN /\ id \in DOMAIN rows /\ rows[id].intent = {} /\ rows[id].structure = {e.node}
                 /\ rows[id].behavior = {}
  <2>1. PICK id : id = StructId(e.name)
    OBVIOUS
  <2>2. id \in structIds
    BY <2>1
  <2>3. struct[id].intent = {} /\ struct[id].structure = {e.node} /\ struct[id].behavior = {}
    BY <1>6, <2>1
  <2> HIDE DEF loose, structIds, ids, routeIds
  <2>4. id \in DOMAIN rows /\ rows[id] = final[id] /\ Keeps(final[id], struct[id])
    BY <1>15, <1>17, <1>18, <2>2
  <2> QED
    BY <2>1, <2>3, <2>4 DEF Keeps
<1>21. ASSUME NEW k, RouteId(k) \in routeIds
       PROVE  LET id == RouteId(k)
              IN /\ id \in DOMAIN rows /\ rows[id].intent = {}
                 /\ rows[id].structure \subseteq ToSet(routes)
                 /\ \A n : n \in rows[id].behavior <=>
                       /\ n \in ToSet(in.behavior) /\ KeyOf(n) = k
                       /\ k \in built \/ n \in rest
  BY <1>7, <1>18, <1>21
<1>22. \A id \in DOMAIN rows : \/ id \in ids
                               \/ \E e \in loose : id = StructId(e.name)
                               \/ \E k : id = RouteId(k) /\ RouteId(k) \in routeIds
  BY <1>18
<1>23. ASSUME NEW id \in DOMAIN rows
       PROVE  /\ rows[id].intent \subseteq ConceptNodes(in.intent)
              /\ \A m, n \in rows[id].intent : m = n
              /\ rows[id].structure \subseteq EntityNodes(in.structure) \cup RouteNodes(in.structure)
              /\ rows[id].behavior \subseteq ToSet(in.behavior)
  <2> HIDE DEF ids, loose, routeIds
  <2>1. CASE id \in ids
    BY <1>3, <1>5, <1>19, <2>1
  <2>2. ASSUME NEW e \in loose, id = StructId(e.name)
        PROVE  /\ rows[id].intent = {} /\ rows[id].structure = {e.node} /\ rows[id].behavior = {}
               /\ e.node \in EntityNodes(in.structure)
    BY <1>3, <1>20, <2>2 DEF loose
  <2>3. ASSUME NEW k, id = RouteId(k), RouteId(k) \in routeIds
        PROVE  /\ rows[id].intent = {} /\ rows[id].structure \subseteq EntityNodes(in.structure) \cup RouteNodes(in.structure)
               /\ rows[id].behavior \subseteq ToSet(in.behavior)
    BY <1>3, <1>21, <2>3
  <2> QED
    BY <1>22, <2>1, <2>2, <2>3
<1>24. ASSUME NEW n \in EntityNodes(in.structure)
       PROVE  \E home \in DOMAIN rows : \A id \in DOMAIN rows : n \in rows[id].structure <=> id = home
  <2>1. PICK e \in ToSet(entities) : e.node = n /\ e.name = n.localName
    BY <1>3
  <2>2. \A d \in ToSet(entities) : d.node = n => d = e
    BY <1>3, <1>4, <2>1
  <2>3. isEntityNode(n)
    BY DEF EntityNodes
  <2> DEFINE home == IF e.name \in DOMAIN placed THEN placed[e.name] ELSE StructId(e.name)
  <2>4. home \in DOMAIN rows
    <3>1. CASE e.name \in DOMAIN placed
      BY <1>19, <3>1
    <3>2. CASE e.name \notin DOMAIN placed
      BY <1>20, <3>2
    <3> QED
      BY <3>1, <3>2
  <2>5. ASSUME NEW id \in ids PROVE n \in rows[id].structure <=> id = home
    <3>1. n \in rows[id].structure <=> e.name \in DOMAIN placed /\ placed[e.name] = id
      <4> HIDE DEF ids
      <4> QED
        BY <1>5, <1>19, <2>1, <2>2, <2>5
    <3>2. id # StructId(e.name)
      BY <1>8, <2>5 DEF StructId
    <3> QED
      BY <3>1, <3>2
  <2>6. ASSUME NEW d \in loose PROVE n \in rows[StructId(d.name)].structure <=> StructId(d.name) = home
    <3>1. n \in rows[StructId(d.name)].structure <=> d = e
      BY <1>20, <2>1, <2>2
    <3>2. StructId(d.name) = StructId(e.name) => d = e
      BY <1>4 DEF StructId
    <3>3. e.name \in DOMAIN placed => placed[e.name] # StructId(d.name)
      <4>1. e.name \in DOMAIN placed => placed[e.name][1] = "concept"
        BY <1>8
      <4> QED
        BY <4>1 DEF StructId
    <3>4. d.name \notin DOMAIN placed
      OBVIOUS
    <3> HIDE DEF loose
    <3> QED
      BY <3>1, <3>2, <3>3, <3>4
  <2>7. ASSUME NEW k, RouteId(k) \in routeIds
        PROVE  n \notin rows[RouteId(k)].structure /\ RouteId(k) # home
    <3>1. n \notin rows[RouteId(k)].structure
      <4> HIDE DEF routeIds
      <4> QED
        BY <1>3, <1>21, <2>3, <2>7
    <3>2. RouteId(k)[1] = "concept:route" /\ StructId(e.name)[1] = "concept:struct"
      BY DEF RouteId, StructId
    <3>3. e.name \in DOMAIN placed => placed[e.name][1] = "concept"
      BY <1>8
    <3> QED
      BY <3>1, <3>2, <3>3
  <2> HIDE DEF home, ids, loose, routeIds
  <2> QED
    BY <1>22, <2>4, <2>5, <2>6, <2>7
<1>25. ASSUME NEW n \in ToSet(in.behavior), IsTold(n, in.behavior)
       PROVE  \E home \in DOMAIN rows : \A id \in DOMAIN rows : n \in rows[id].behavior <=> id = home
  <2> DEFINE key == KeyOf(n)
             home == IF key \in DOMAIN anchor THEN anchor[key] ELSE RouteId(key)
  <2>1. n \in rest <=> key \notin DOMAIN anchor \cup built
    BY <1>10, <1>25
  <2>2. home \in DOMAIN rows
    <3>1. CASE key \in DOMAIN anchor
      <4> HIDE DEF ids, key
      <4> QED
        BY <1>9, <1>19, <3>1
    <3>2. CASE key \notin DOMAIN anchor
      <4>1. RouteId(key) \in routeIds
        BY <2>1, <3>2
      <4> HIDE DEF routeIds, key
      <4> QED
        BY <1>21, <3>2, <4>1
    <3> QED
      BY <3>1, <3>2
  <2>3. ASSUME NEW id \in ids PROVE n \in rows[id].behavior <=> id = home
    <3>1. n \in rows[id].behavior <=> key \in DOMAIN anchor /\ anchor[key] = id
      <4> HIDE DEF ids
      <4> QED
        BY <1>5, <1>19, <2>3
    <3>2. id # RouteId(key)
      BY <1>8, <2>3 DEF RouteId
    <3> HIDE DEF key
    <3> QED
      BY <3>1, <3>2
  <2>4. ASSUME NEW e \in loose PROVE n \notin rows[StructId(e.name)].behavior /\ StructId(e.name) # home
    <3>1. n \notin rows[StructId(e.name)].behavior
      BY <1>20
    <3>2. RouteId(key)[1] = "concept:route" /\ StructId(e.name)[1] = "concept:struct"
      BY DEF RouteId, StructId
    <3>3. key \in DOMAIN anchor => anchor[key][1] = "concept"
      BY <1>8, <1>9
    <3> HIDE DEF key
    <3> QED
      BY <3>1, <3>2, <3>3
  <2>5. ASSUME NEW k, RouteId(k) \in routeIds
        PROVE  n \in rows[RouteId(k)].behavior <=> RouteId(k) = home
    <3>1. n \in rows[RouteId(k)].behavior <=> key = k /\ (k \in built \/ n \in rest)
      <4> HIDE DEF routeIds
      <4> QED
        BY <1>21, <2>5
    <3>2. RouteId(k) = RouteId(key) => k = key
      BY DEF RouteId
    <3>3. key \in DOMAIN anchor => anchor[key] # RouteId(k)
      <4>1. key \in DOMAIN anchor => anchor[key][1] = "concept"
        BY <1>8, <1>9
      <4> QED
        BY <4>1 DEF RouteId
    <3> HIDE DEF key
    <3> QED
      BY <1>12, <2>1, <3>1, <3>2, <3>3
  <2> HIDE DEF home, ids, loose, routeIds
  <2> QED
    BY <1>22, <2>2, <2>3, <2>4, <2>5
<1>26. WellPlaced(rows, in)
  BY <1>23, <1>24, <1>25 DEF WellPlaced
<1>27. RoutesTold(rows, in)
  <2> SUFFICES ASSUME NEW k, RouteId(k) \in DOMAIN rows
               PROVE  rows[RouteId(k)].state
                        = IF ~\E n \in RouteNodes(in.structure) : KeyOf(n) = k THEN "unmatched"
                          ELSE IF \E n \in ToSet(in.behavior) : KeyOf(n) = k THEN "aligned"
                          ELSE "code-only"
    BY Zenon DEF RoutesTold
  <2>1. RouteId(k) \in routeIds
    <3>1. RouteId(k)[1] = "concept:route" /\ \A e : StructId(e.name)[1] = "concept:struct"
      BY DEF RouteId, StructId
    <3>2. \A id \in ids : id # RouteId(k)
      BY <1>8, <3>1
    <3>3. \A e \in loose : RouteId(k) # StructId(e.name)
      BY DEF RouteId, StructId
    <3> HIDE DEF ids, loose, routeIds
    <3>4. CASE \E j : RouteId(k) = RouteId(j) /\ RouteId(j) \in routeIds
      BY <3>4
    <3> QED
      BY <1>22, <3>2, <3>3, <3>4
  <2>2. k \in built \/ \E n \in rest : KeyOf(n) = k
    <3>1. \A j : RouteId(j) = RouteId(k) => j = k
      BY DEF RouteId
    <3> QED
      BY <2>1, <3>1
  <2>3. k \in built <=> \E n \in RouteNodes(in.structure) : KeyOf(n) = k
    <3>1. \A n : n \in ToSet(routes) <=> n \in RouteNodes(in.structure)
      <4>1. IsSequence(in.structure)
        BY DEF InputsOK, StructureNodesOK
      <4>2. ToSet(routes) = ToSet(in.structure) \cap RouteNodes(in.structure)
        BY <4>1, OnlyOf
      <4> QED
        BY <4>2 DEF RouteNodes
    <3>2. k \notin DOMAIN anchor
      BY <1>11, <1>12, <2>2
    <3> QED
      BY <3>1, <3>2 DEF built
  <2>4. RouteId(k) \in DOMAIN route
    BY <1>7, <2>1
  <2>5. rows[RouteId(k)] = route[RouteId(k)]
    <3> HIDE DEF routeIds
    <3> QED
      BY <1>18, <2>1
  <2>6. rows[RouteId(k)].state
          = IF k \notin built THEN "unmatched"
            ELSE IF \E n \in ToSet(in.behavior) : KeyOf(n) = k THEN "aligned" ELSE "code-only"
    BY <1>7, <2>4, <2>5
  <2> HIDE DEF routeIds
  <2> QED
    BY Zenon, <2>3, <2>6
<1> QED
  BY <1>2, <1>26, <1>27 DEF rows, out, Reconciled

LEMMA ReconciledIs ==
    ASSUME NEW in, InputsOK(in), NEW prior, NEW file
    PROVE  Reconciled(reconcile(in, prior, file), in)
<1> DEFINE concepts == intentConcepts(in.intent)
           entities == structureEntities(in.structure)
           routes == Only(in.structure, RouteNodes(in.structure))
           match == matchIntentToStructure(concepts, entities)
           ids   == {c.conceptId : c \in ToSet(concepts)}
           decided == resolveDecisions(prior, file)
           human == HumanMatched(match, decided, ids)
           placed == ConceptOfEntity(match, decided, ids)
           queued == {n \in DOMAIN match : match[n].how = "queued"} \ human
           out == reconcile(in, prior, file)
<1>1. out = classify(in, concepts, entities, routes, placed, human, queued)
  <2>1. out = place(in, concepts, entities, match, decided)
    BY Zenon DEF reconcile, reconcileNodes
  <2>2. place(in, concepts, entities, match, decided)
          = classify(in, concepts, entities, routes, placed, human, queued)
    BY Zenon DEF place
  <2> QED
    BY Zenon, <2>1, <2>2
<1>2. IsSequence(concepts) /\ \A c \in ToSet(concepts) : \A e \in ToSet(entities) : Comparable(c, e)
  <2>1. IsSequence(in.intent) /\ IsSequence(in.structure)
    BY DEF InputsOK, IntentNodesOK, StructureNodesOK
  <2>2. IsSequence(concepts) /\ \A c : c \in ToSet(concepts)
                        <=> \E n \in ConceptNodes(in.intent) : c = asIntentConcept(n)
    BY <2>1, ConceptsAre
  <2>3. \A e : e \in ToSet(entities)
                        <=> \E n \in EntityNodes(in.structure) : e = asStructureEntity(n)
    BY <2>1, EntitiesAre
  <2>4. \A n \in ConceptNodes(in.intent) :
           n.localName \in Name /\ {n.raw.aliases, n.raw.attributes, n.raw.dependsOn} \subseteq SUBSET Name
    BY DEF InputsOK, IntentNodesOK, ConceptNodes
  <2>5. \A n \in EntityNodes(in.structure) : EntityNodeOK(n)
    BY DEF InputsOK, StructureNodesOK, EntityNodes
  <2>6. \A m \in ConceptNodes(in.intent) : \A n \in EntityNodes(in.structure) :
           Comparable(asIntentConcept(m), asStructureEntity(n))
    BY <2>4, <2>5 DEF Comparable, asIntentConcept, asStructureEntity, EntityNodeOK
  <2> HIDE DEF concepts, entities
  <2> QED
    BY <2>2, <2>3, <2>6
<1> HIDE DEF concepts, entities
<1>3. /\ DOMAIN match = {e.name : e \in ToSet(entities)}
      /\ \A n \in DOMAIN match : match[n].how = "accepted" => match[n].concept \in ids
  BY <1>2, MatchedIs
<1> HIDE DEF match
<1>4. DOMAIN placed \subseteq {e.name : e \in ToSet(entities)}
      /\ \A n \in DOMAIN placed : placed[n] \in ids
  <2>1. PICK all, d : all = ids /\ d = decided
    OBVIOUS
  <2> HIDE DEF ids, decided
  <2>2. \A n \in DOMAIN match : match[n].how = "accepted" => match[n].concept \in all
    BY <1>3, <2>1
  <2>3. DOMAIN ConceptOfEntity(match, d, all) \subseteq DOMAIN match
        /\ \A n \in DOMAIN ConceptOfEntity(match, d, all) : ConceptOfEntity(match, d, all)[n] \in all
    BY <2>2, PlacedIs
  <2> QED
    BY <1>3, <2>1, <2>3
<1>5. PICK p, h, q, r : p = placed /\ h = human /\ q = queued /\ r = routes
  OBVIOUS
<1> HIDE DEF placed, human, queued, out
<1>6. PICK c, e : c = concepts /\ e = entities
  OBVIOUS
<1>7. Reconciled(classify(in, c, e, r, p, h, q), in)
  <2>1. /\ c = intentConcepts(in.intent) /\ e = structureEntities(in.structure)
        /\ r = Only(in.structure, RouteNodes(in.structure))
    BY <1>5, <1>6 DEF concepts, entities
  <2>2. DOMAIN p \subseteq {x.name : x \in ToSet(e)}
        /\ \A n \in DOMAIN p : p[n] \in {x.conceptId : x \in ToSet(c)}
    BY <1>4, <1>5, <1>6
  <2> QED
    BY <2>1, <2>2, RowsAre
<1>8. out = classify(in, c, e, r, p, h, q)
  BY Zenon, <1>1, <1>5, <1>6
<1> QED
  BY <1>7, <1>8 DEF out

LEMMA InputsAreOK == ASSUME SpineInv PROVE InputsOK(Inputs)
<1>1. /\ Inputs.intent = disk.intent /\ Inputs.structure = disk.structure
      /\ Inputs.behavior = disk.behavior
  BY DEF Inputs
<1> QED
  BY <1>1 DEF InputsOK, SpineInv, LayersInv

LEMMA OneHome ==
    ASSUME NEW S, NEW home \in S, NEW set \in SUBSET S, \A id \in S : id \in set <=> id = home
    PROVE  Cardinality(set) = 1
<1>1. set = {home}
  OBVIOUS
<1> QED
  BY <1>1, FS_Singleton

\* Every structure entity and every observation told by its id has its place in
\* exactly one concept of the view, whatever the layers, the human and the prior
\* registry say (pipeline.ts: entityNameToConceptId, consumedBehavior and the
\* synthesized concepts partition the nodes).
THEOREM SpineEveryNodeHasOneConcept == Spec => []EveryNodeHasOneConcept
<1>1. SpineInv => EveryNodeHasOneConcept
  <2> DEFINE rows == job.out.unified
             Homes(node) == {id \in DOMAIN rows :
                                node \in rows[id].structure \cup rows[id].behavior}
  <2> SUFFICES ASSUME SpineInv, job.stage = "registry",
                      NEW node \in EntityNodes(disk.structure)
                         \cup {n \in ToSet(disk.behavior) : IsTold(n, disk.behavior)}
               PROVE  Cardinality(Homes(node)) = 1
    BY Zenon DEF EveryNodeHasOneConcept
  <2>1. /\ Inputs.intent = disk.intent /\ Inputs.structure = disk.structure
        /\ Inputs.behavior = disk.behavior
    BY DEF Inputs
  <2>2. job.out = reconcile(Inputs, Registry, decisions)
    BY DEF SpineInv, DerivedInv, JobIsCurrent, ReconcileStages, Now
  <2>3. WellPlaced(rows, Inputs)
    <3>1. PICK in, prior, file : in = Inputs /\ prior = Registry /\ file = decisions
      OBVIOUS
    <3>2. Reconciled(reconcile(in, prior, file), in)
      BY <3>1, InputsAreOK, ReconciledIs
    <3> QED
      BY <2>2, <3>1, <3>2 DEF Reconciled
  <2>4. \A n \in EntityNodes(disk.structure) : n.raw.kind = "entity"
    BY DEF EntityNodes, isEntityNode
  <2>5. \A n \in ToSet(disk.behavior) : n.raw.kind # "entity"
    BY DEF SpineInv, LayersInv, BehaviorNodesOK
  <2> HIDE DEF rows
  <2>6. PICK home \in DOMAIN rows : \A id \in DOMAIN rows :
           node \in rows[id].structure \cup rows[id].behavior <=> id = home
    <3>1. CASE node \in EntityNodes(disk.structure)
      <4>1. \A id \in DOMAIN rows : node \notin rows[id].behavior
        BY <2>1, <2>3, <2>4, <2>5, <3>1 DEF WellPlaced
      <4>2. \E home \in DOMAIN rows : \A id \in DOMAIN rows : node \in rows[id].structure <=> id = home
        BY <2>1, <2>3, <3>1 DEF WellPlaced
      <4> QED
        BY <4>1, <4>2
    <3>2. CASE node \in ToSet(disk.behavior) /\ IsTold(node, disk.behavior)
      <4>1. \A id \in DOMAIN rows : node \notin rows[id].structure
        <5>1. node.raw.kind \notin {"entity", "route"}
          BY <3>2 DEF SpineInv, LayersInv, BehaviorNodesOK
        <5>2. \A n \in EntityNodes(disk.structure) \cup RouteNodes(disk.structure) :
                 n.raw.kind \in {"entity", "route"}
          BY DEF EntityNodes, RouteNodes, isEntityNode, isRouteNode
        <5> QED
          BY <2>1, <2>3, <5>1, <5>2 DEF WellPlaced
      <4>2. \E home \in DOMAIN rows : \A id \in DOMAIN rows : node \in rows[id].behavior <=> id = home
        BY <2>1, <2>3, <3>2 DEF WellPlaced
      <4> QED
        BY <4>1, <4>2
    <3> QED
      BY <3>1, <3>2
  <2>7. \A id \in DOMAIN rows : id \in Homes(node) <=> id = home
    BY <2>6
  <2> QED
    BY <2>7, OneHome
<1> QED
  BY SpineAlways, <1>1, PTL

-------------------------------------------------------------------------------
(* What the derived files tell of each other.                                *)

PlaceOf(id, n, aggregates) ==
    [node |-> n.nodeId, concept |-> id,
     aggregate |-> IF AggregateOf(id, n.localName, aggregates) = 0 THEN NoId
                   ELSE aggregates[AggregateOf(id, n.localName, aggregates)].conceptId]

LEMMA MappingIs ==
    ASSUME NEW unified, NEW aggregates
    PROVE  \A p : p \in deriveAggregateEntityMapping(unified, aggregates) <=>
              \E id \in DOMAIN unified : \E n \in unified[id].structure :
                  n.nodeId[1] = "structure:entity" /\ p = PlaceOf(id, n, aggregates)
<1>1. \A id, row : Placements(id, row, aggregates)
         = {PlaceOf(id, n, aggregates) :
              n \in {n \in row.structure : n.nodeId[1] = "structure:entity"}}
  BY Zenon DEF Placements, PlaceOf
<1>2. deriveAggregateEntityMapping(unified, aggregates)
        = UNION {Placements(id, unified[id], aggregates) : id \in DOMAIN unified}
  BY Zenon DEF deriveAggregateEntityMapping
<1> QED
  BY <1>1, <1>2

\* An entity of a concept is an entity of the structure, and has one placement.
LEMMA MappedOnce ==
    ASSUME NEW in, InputsOK(in), NEW rows, WellPlaced(rows, in), NEW aggregates,
           NEW id \in DOMAIN rows,
           NEW node \in NodeIds(rows[id].intent \cup rows[id].structure \cup rows[id].behavior),
           node[1] = "structure:entity"
    PROVE  /\ IsFiniteSet({p \in deriveAggregateEntityMapping(rows, aggregates) : p.node = node})
           /\ Cardinality({p \in deriveAggregateEntityMapping(rows, aggregates) : p.node = node}) = 1
<1>1. /\ \A n \in ConceptNodes(in.intent) : n.nodeId[1] = "intent:concept"
      /\ \A n \in ToSet(in.behavior) : n.nodeId[1] # "structure:entity"
  BY DEF InputsOK, IntentNodesOK, BehaviorNodesOK, ConceptNodes, isConceptNode
<1>2. \A n \in EntityNodes(in.structure) \cup RouteNodes(in.structure) :
         n.nodeId[1] = "structure:entity" =>
            n \in EntityNodes(in.structure) /\ n.nodeId = EntityId(n.localName)
  BY DEF InputsOK, StructureNodesOK, EntityNodes, RouteNodes, isEntityNode, EntityNodeOK
<1>3. PICK n \in rows[id].structure : n.nodeId = node
  <2>1. PICK n \in rows[id].intent \cup rows[id].structure \cup rows[id].behavior : n.nodeId = node
    BY DEF NodeIds
  <2> QED
    BY <1>1, <2>1 DEF WellPlaced
<1>4. n \in EntityNodes(in.structure)
  BY <1>2, <1>3 DEF WellPlaced
<1>5. ASSUME NEW j \in DOMAIN rows, NEW m \in rows[j].structure, m.nodeId = node
      PROVE  m = n /\ j = id
  <2>1. m \in EntityNodes(in.structure) /\ EntityId(m.localName) = EntityId(n.localName)
    BY <1>2, <1>3, <1>4, <1>5 DEF WellPlaced
  <2>2. m = n
    BY <1>4, <2>1 DEF InputsOK, StructureNodesOK, EntityId
  <2>3. PICK home \in DOMAIN rows : \A i \in DOMAIN rows : n \in rows[i].structure <=> i = home
    BY <1>4 DEF WellPlaced
  <2> QED
    BY <1>3, <1>5, <2>2, <2>3
<1>6. \A p : p \in {q \in deriveAggregateEntityMapping(rows, aggregates) : q.node = node}
                <=> p = PlaceOf(id, n, aggregates)
  <2>1. \A i, m : PlaceOf(i, m, aggregates).node = m.nodeId
    BY DEF PlaceOf
  <2> QED
    BY <1>3, <1>5, <2>1, MappingIs
<1>7. {p \in deriveAggregateEntityMapping(rows, aggregates) : p.node = node}
        = {PlaceOf(id, n, aggregates)}
  BY <1>6
<1> QED
  BY <1>7, FS_Singleton

LEMMA FindingsAre ==
    ASSUME NEW unified, NEW f \in verifyUnified(unified)
    PROVE  /\ f.concept \in DOMAIN unified
           /\ f.category # "runtime-error" => f.category = discrepancyFor[unified[f.concept].state]
<1>1. \/ \E id \in DOMAIN unified : f = Finding(id, discrepancyFor[unified[id].state])
      \/ \E id \in DOMAIN unified : f = Finding(id, "runtime-error")
  BY DEF verifyUnified
<1>2. \A id, category : Finding(id, category).concept = id /\ Finding(id, category).category = category
  BY DEF Finding
<1> QED
  BY <1>1, <1>2

\* No command, crash or rejected write leaves a registry or a view the next
\* command cannot read, and the files derived from the current inputs tell one
\* story (index.ts: reconcile and verify; validate.ts; aggregate-mapping.ts).
THEOREM SpineDerivedFilesAgree == Spec => []DerivedFilesAgree
<1>1. SpineInv => DerivedFilesAgree
  <2> SUFFICES ASSUME SpineInv PROVE DerivedFilesAgree
    OBVIOUS
  <2>1. PICK out : out = Now
    OBVIOUS
  <2>2. InputsOK(Inputs) /\ Reconciled(out, Inputs)
    <3>1. PICK in, prior, file : in = Inputs /\ prior = Registry /\ file = decisions
      OBVIOUS
    <3>2. InputsOK(in) /\ Reconciled(reconcile(in, prior, file), in)
      BY <3>1, InputsAreOK, ReconciledIs
    <3> QED
      BY <2>1, <3>1, <3>2 DEF Now
  <2>3. /\ "registry" \in fresh => disk.registry = <<out.registry>>
        /\ fresh \cap {"unified", "findings", "mapping"} # {} =>
              "registry" \in fresh /\ disk.unified = <<out.unified>>
        /\ "findings" \in fresh => disk.findings = <<verifyUnified(out.unified)>>
        /\ "mapping" \in fresh =>
              disk.mapping = <<deriveAggregateEntityMapping(out.unified, disk.aggregates[1])>>
    BY <2>1 DEF SpineInv, DerivedInv, FreshIsCurrent
  <2>4. /\ DOMAIN out.registry.concepts = DOMAIN out.unified
        /\ \A id \in DOMAIN out.unified :
              /\ out.registry.concepts[id].state = out.unified[id].state
              /\ out.registry.concepts[id].nodes
                   = NodeIds(out.unified[id].intent \cup out.unified[id].structure
                             \cup out.unified[id].behavior)
    BY <2>2 DEF Reconciled, asConcept
  <2>5. FilesAreValid
    BY DEF SpineInv, DerivedInv
  <2>6. ASSUME {"registry", "unified"} \subseteq fresh
        PROVE  /\ DOMAIN disk.unified[1] = DOMAIN disk.registry[1].concepts
               /\ \A id \in DOMAIN disk.unified[1] :
                     disk.unified[1][id].state = disk.registry[1].concepts[id].state
    <3>1. disk.registry = <<out.registry>> /\ disk.unified = <<out.unified>>
      BY <2>3, <2>6
    <3>2. disk.registry[1] = out.registry /\ disk.unified[1] = out.unified
      BY <3>1
    <3> QED
      BY Zenon, <2>4, <3>2
  <2>7. ASSUME {"registry", "findings"} \subseteq fresh
        PROVE  \A f \in disk.findings[1] :
                  /\ f.concept \in DOMAIN disk.registry[1].concepts
                  /\ f.category # "runtime-error" =>
                        discrepancyFor[disk.registry[1].concepts[f.concept].state] = f.category
    <3>1. /\ disk.findings = <<verifyUnified(out.unified)>>
          /\ disk.registry = <<out.registry>>
      BY <2>3, <2>7
    <3>2. disk.findings[1] = verifyUnified(out.unified) /\ disk.registry[1] = out.registry
      BY <3>1
    <3>3. PICK rows : rows = out.unified
      OBVIOUS
    <3>4. \A f \in verifyUnified(rows) :
             /\ f.concept \in DOMAIN rows
             /\ f.category # "runtime-error" => f.category = discrepancyFor[rows[f.concept].state]
      BY FindingsAre
    <3> QED
      BY Zenon, <2>4, <3>2, <3>3, <3>4
  <2>8. ASSUME "mapping" \in fresh
        PROVE  \A id \in DOMAIN disk.registry[1].concepts :
                  \A node \in disk.registry[1].concepts[id].nodes :
                      node[1] = "structure:entity" =>
                          Cardinality({p \in disk.mapping[1] : p.node = node}) = 1
    <3>1. /\ disk.mapping[1] = deriveAggregateEntityMapping(out.unified, disk.aggregates[1])
          /\ disk.registry[1].concepts = out.registry.concepts
      BY <2>3, <2>8
    <3>2. PICK in, rows, aggregates :
             in = Inputs /\ rows = out.unified /\ aggregates = disk.aggregates[1]
      OBVIOUS
    <3>3. InputsOK(in) /\ WellPlaced(rows, in)
      BY <2>2, <3>2 DEF Reconciled
    <3>4. \A id \in DOMAIN rows :
             \A node \in NodeIds(rows[id].intent \cup rows[id].structure \cup rows[id].behavior) :
                node[1] = "structure:entity" =>
                   Cardinality({p \in deriveAggregateEntityMapping(rows, aggregates) :
                                   p.node = node}) = 1
      BY <3>3, MappedOnce
    <3>5. PICK concepts, places :
             concepts = disk.registry[1].concepts /\ places = disk.mapping[1]
      OBVIOUS
    <3>6. /\ DOMAIN concepts = DOMAIN rows
          /\ places = deriveAggregateEntityMapping(rows, aggregates)
          /\ \A id \in DOMAIN rows : concepts[id].nodes
                = NodeIds(rows[id].intent \cup rows[id].structure \cup rows[id].behavior)
      BY Zenon, <2>4, <3>1, <3>2, <3>5
    <3>7. \A id \in DOMAIN concepts : \A node \in concepts[id].nodes :
             node[1] = "structure:entity" =>
                Cardinality({p \in places : p.node = node}) = 1
      <4> SUFFICES ASSUME NEW id \in DOMAIN concepts, NEW node \in concepts[id].nodes,
                          node[1] = "structure:entity"
                   PROVE  Cardinality({p \in places : p.node = node}) = 1
        BY Zenon
      <4>1. PICK ids : ids = NodeIds(rows[id].intent \cup rows[id].structure \cup rows[id].behavior)
        OBVIOUS
      <4>2. id \in DOMAIN rows /\ node \in ids
        BY Zenon, <3>6, <4>1
      <4>3. Cardinality({p \in deriveAggregateEntityMapping(rows, aggregates) :
                            p.node = node}) = 1
        BY Zenon, <3>4, <4>1, <4>2
      <4> QED
        BY Zenon, <3>6, <4>3
    <3> QED
      BY Zenon, <3>5, <3>7
  <2> QED
    BY <2>5, <2>6, <2>7, <2>8 DEF DerivedFilesAgree, FilesAreValid
<1> QED
  BY SpineAlways, <1>1, PTL

-------------------------------------------------------------------------------
(* What the two checks tell of each other.                                   *)

BoundaryInv ==
    fresh \cap {"findings", "boundary"} # {} =>
        disk.boundary = <<buildBoundaryReport(disk.structure, disk.behavior)>>

LEMMA BoundaryNext == ASSUME DerivedInv, BoundaryInv, [Next]_vars PROVE BoundaryInv'
<1>1. /\ {"structure", "behavior", "boundary"} \subseteq DOMAIN disk
      /\ DOMAIN disk = DOMAIN emptyDisk
  BY DEF DerivedInv, FilesOK, emptyDisk
<1>2. CASE Edit
  BY <1>2 DEF Edit, BoundaryInv
<1>3. CASE WriteAggregates \/ EmitStructure \/ EmitBehavior \/ BridgeTransactions \/ WriteSitemap
  <2>1. fresh = {} /\ fresh' \subseteq {"behavior"}
    BY <1>3 DEF DerivedInv, FreshIsCurrent, LayerStages, WriteAggregates, EmitStructure,
       EmitBehavior, BridgeTransactions, WriteSitemap
  <2> QED
    BY <2>1 DEF BoundaryInv
<1>4. CASE StartReconcile \/ WriteRegistry \/ WriteUnified \/ WriteMapping \/ EndRejected
           \/ Verify \/ Crash
  <2>1. \/ disk' = disk
        \/ \E file \in {"registry", "unified", "mapping", "findings"} :
              \E new : disk' = [disk EXCEPT ![file] = new]
    BY <1>4 DEF StartReconcile, WriteRegistry, WriteUnified, WriteMapping, EndRejected, Verify, Crash
  <2>2. /\ disk'.structure = disk.structure /\ disk'.behavior = disk.behavior
        /\ disk'.boundary = disk.boundary
    BY <1>1, <2>1
  <2>3. fresh' \cap {"findings", "boundary"} = fresh \cap {"findings", "boundary"}
    BY <1>4 DEF StartReconcile, WriteRegistry, WriteUnified, WriteMapping, EndRejected, Verify, Crash
  <2> QED
    BY <2>2, <2>3 DEF BoundaryInv
<1>5. CASE WriteBoundary
  <2>1. disk' = [disk EXCEPT !.boundary = <<buildBoundaryReport(disk.structure, disk.behavior)>>]
    BY <1>5 DEF WriteBoundary
  <2>2. /\ disk'.structure = disk.structure /\ disk'.behavior = disk.behavior
        /\ disk'.boundary = <<buildBoundaryReport(disk.structure, disk.behavior)>>
    BY <1>1, <2>1
  <2> QED
    BY <2>2 DEF BoundaryInv
<1>6. CASE UNCHANGED vars
  BY <1>6 DEF vars, BoundaryInv
<1> QED
  BY <1>2, <1>3, <1>4, <1>5, <1>6
     DEF Next, EditAdrs, Decide, RecordCorrection, EmitIntent, AnalyzeStructure, Crawl, Clear

LEMMA BoundaryAlways == Spec => []BoundaryInv
<1>1. Init => BoundaryInv
  BY DEF Init, BoundaryInv
<1> QED
  BY <1>1, DerivedAlways, BoundaryNext, PTL DEF Spec

\* A sequence is empty as the set of its elements is.
LEMMA EmptyIs == ASSUME NEW s, IsSequence(s) PROVE s # <<>> <=> ToSet(s) # {}
<1>1. PICK T : T = ToSet(s)
  OBVIOUS
<1>2. s \in Seq(T) /\ T = {s[i] : i \in DOMAIN s}
  BY <1>1 DEF IsSequence, ToSet
<1>3. DOMAIN s = 1..Len(s) /\ Len(s) \in Nat
  BY <1>2
<1>4. s = <<>> <=> Len(s) = 0
  BY <1>2
<1> QED
  BY <1>1, <1>2, <1>3, <1>4

\* A route is in the report with the sides it was seen on.
LEMMA BoundaryIs ==
    ASSUME NEW structure, IsSequence(structure), NEW behavior, IsSequence(behavior),
           NEW b \in buildBoundaryReport(structure, behavior).routes
    PROVE  /\ b.structure <=> \E n \in RouteNodes(structure) : KeyOf(n) = b.route
           /\ b.behavior <=> \E n \in Visits(behavior) : KeyOf(n) = b.route
<1> DEFINE declares(key) == Only(structure, {n \in RouteNodes(structure) : KeyOf(n) = key})
           observes(key) == Only(behavior, {n \in Visits(behavior) : KeyOf(n) = key})
<1>1. ASSUME NEW key
      PROVE  LET one == assembleBoundary(key, structure, behavior)
             IN /\ one.route = key
                /\ one.inStructure = (declares(key) # <<>>)
                /\ one.inBehavior = (observes(key) # <<>>)
  <2>1. PICK inputs, persists, items, saved :
           assembleBoundary(key, structure, behavior)
             = [route |-> key, inStructure |-> declares(key) # <<>>,
                inBehavior |-> observes(key) # <<>>, declaredInputs |-> inputs,
                persists |-> persists, observedInputs |-> items, saved |-> saved]
    BY Zenon DEF assembleBoundary
  <2> HIDE DEF declares, observes
  <2> QED
    BY <2>1
<1>2. PICK key : LET one == assembleBoundary(key, structure, behavior)
                 IN /\ b.route = one.route /\ b.structure = one.inStructure
                    /\ b.behavior = one.inBehavior
  BY DEF buildBoundaryReport, verifyBoundaries, assembleBoundaries
<1>3. b.route = key /\ b.structure = (declares(key) # <<>>) /\ b.behavior = (observes(key) # <<>>)
  <2> HIDE DEF declares, observes
  <2> QED
    BY <1>1, <1>2
<1>4. ToSet(declares(key)) = {n \in RouteNodes(structure) : KeyOf(n) = key}
      /\ IsSequence(declares(key))
  <2>1. PICK set : set = {n \in RouteNodes(structure) : KeyOf(n) = key}
    OBVIOUS
  <2>2. IsSequence(Only(structure, set)) /\ ToSet(Only(structure, set)) = ToSet(structure) \cap set
    BY OnlyOf
  <2> QED
    BY <2>1, <2>2 DEF RouteNodes
<1>5. ToSet(observes(key)) = {n \in Visits(behavior) : KeyOf(n) = key}
      /\ IsSequence(observes(key))
  <2>1. PICK set : set = {n \in Visits(behavior) : KeyOf(n) = key}
    OBVIOUS
  <2>2. IsSequence(Only(behavior, set)) /\ ToSet(Only(behavior, set)) = ToSet(behavior) \cap set
    BY OnlyOf
  <2> QED
    BY <2>1, <2>2 DEF Visits
<1>6. /\ declares(key) # <<>> <=> ToSet(declares(key)) # {}
      /\ observes(key) # <<>> <=> ToSet(observes(key)) # {}
  <2> HIDE DEF declares, observes
  <2> QED
    BY <1>4, <1>5, EmptyIs
<1> HIDE DEF declares, observes
<1> QED
  BY <1>3, <1>4, <1>5, <1>6

\* What is reported of a row is what its state stands for.
LEMMA ReportedIs ==
    ASSUME NEW unified, NEW id
    PROVE  /\ \A f \in verifyUnified(unified) : f.concept = id /\ f.category = "unverified-build" =>
                 id \in DOMAIN unified /\ unified[id].state = "code-only"
           /\ \A f \in verifyUnified(unified) : f.concept = id /\ f.category = "undocumented-runtime" =>
                 id \in DOMAIN unified /\ unified[id].state = "unmatched"
           /\ id \in DOMAIN unified /\ unified[id].state = "code-only" =>
                 \E f \in verifyUnified(unified) : f.concept = id /\ f.category = "unverified-build"
<1>1. /\ DOMAIN discrepancyFor = {"violates-decision", "code-only", "intent-only", "unmatched"}
      /\ discrepancyFor["code-only"] = "unverified-build"
      /\ \A s \in DOMAIN discrepancyFor :
            /\ discrepancyFor[s] = "unverified-build" => s = "code-only"
            /\ discrepancyFor[s] = "undocumented-runtime" => s = "unmatched"
  BY DEF discrepancyFor
<1>2. \A i, c : Finding(i, c).concept = i /\ Finding(i, c).category = c
  BY DEF Finding
<1>3. \A f : f \in verifyUnified(unified) <=>
         \/ \E i \in DOMAIN unified : /\ unified[i].state \in DOMAIN discrepancyFor
                                      /\ f = Finding(i, discrepancyFor[unified[i].state])
         \/ \E i \in DOMAIN unified : behaviorErrors(unified[i]) # {}
                                      /\ f = Finding(i, "runtime-error")
  BY DEF verifyUnified
<1>4. ASSUME NEW f \in verifyUnified(unified), f.concept = id,
             f.category \in {"unverified-build", "undocumented-runtime"}
      PROVE  /\ id \in DOMAIN unified /\ unified[id].state \in DOMAIN discrepancyFor
             /\ discrepancyFor[unified[id].state] = f.category
  BY <1>2, <1>3, <1>4
<1>5. ASSUME id \in DOMAIN unified, unified[id].state = "code-only"
      PROVE  \E f \in verifyUnified(unified) : f.concept = id /\ f.category = "unverified-build"
  <2>1. Finding(id, discrepancyFor["code-only"]) \in verifyUnified(unified)
    BY <1>1, <1>3, <1>5
  <2> QED
    BY <1>1, <1>2, <2>1
<1> QED
  BY <1>1, <1>4, <1>5

\* The two checks agree on what was observed (verify.ts; boundary.ts).
THEOREM SpineChecksAgree == Spec => []ChecksAgree
<1>1. SpineInv /\ BoundaryInv => ChecksAgree
  <2> SUFFICES ASSUME SpineInv, BoundaryInv, {"unified", "findings"} \subseteq fresh
               PROVE  ChecksAgree
    BY DEF ChecksAgree
  <2> DEFINE view == disk.unified[1]
             reported(key) == {f.category : f \in {f \in disk.findings[1] :
                                                   f.concept = RouteId(key)}}
             folded == {KeyOf(n) : n \in {n \in ToSet(disk.structure) :
                           isRouteNode(n) /\ RouteId(KeyOf(n)) \notin DOMAIN view}}
             reached == {KeyOf(n) : n \in {n \in ToSet(disk.behavior) :
                           n.raw.kind = "transition"}}
  <2>1. PICK rows : /\ disk.unified = <<rows>> /\ disk.findings = <<verifyUnified(rows)>>
                    /\ RoutesTold(rows, Inputs)
    <3>1. PICK out : out = Now
      OBVIOUS
    <3>2. RoutesTold(out.unified, Inputs)
      <4>1. PICK in, prior, file : in = Inputs /\ prior = Registry /\ file = decisions
        OBVIOUS
      <4>2. Reconciled(reconcile(in, prior, file), in)
        BY <4>1, InputsAreOK, ReconciledIs
      <4> QED
        BY <3>1, <4>1, <4>2 DEF Now, Reconciled
    <3>3. disk.unified = <<out.unified>> /\ disk.findings = <<verifyUnified(out.unified)>>
      BY <3>1 DEF SpineInv, DerivedInv, FreshIsCurrent
    <3> QED
      BY Zenon, <3>2, <3>3
  <2>2. view = rows /\ disk.findings[1] = verifyUnified(rows)
    BY <2>1
  <2>3. disk.boundary[1] = buildBoundaryReport(disk.structure, disk.behavior)
    BY DEF BoundaryInv
  <2>4. IsSequence(disk.structure) /\ IsSequence(disk.behavior)
        /\ \A n \in ToSet(disk.behavior) : n.raw.kind \in {"page", "transition", "transaction"}
    BY DEF SpineInv, LayersInv, StructureNodesOK, BehaviorNodesOK
  <2>5. \A k : RouteId(k) \in DOMAIN rows =>
           rows[RouteId(k)].state
             = IF ~\E n \in RouteNodes(disk.structure) : KeyOf(n) = k THEN "unmatched"
               ELSE IF \E n \in ToSet(disk.behavior) : KeyOf(n) = k THEN "aligned"
               ELSE "code-only"
    <3>1. Inputs.structure = disk.structure /\ Inputs.behavior = disk.behavior
      BY DEF Inputs
    <3> QED
      BY Zenon, <2>1, <3>1 DEF RoutesTold
  <2>6. ASSUME NEW b \in disk.boundary[1].routes
        PROVE  /\ "unverified-build" \in reported(b.route) => ~b.behavior
               /\ "undocumented-runtime" \in reported(b.route) => ~b.structure
               /\ b.structure /\ ~b.behavior =>
                     \/ "unverified-build" \in reported(b.route)
                     \/ b.route \in folded \cup reached
    <3>1. PICK id : id = RouteId(b.route)
      OBVIOUS
    <3>2. /\ b.structure <=> \E n \in RouteNodes(disk.structure) : KeyOf(n) = b.route
          /\ b.behavior <=> \E n \in Visits(disk.behavior) : KeyOf(n) = b.route
      BY <2>3, <2>4, <2>6, BoundaryIs
    <3>3. /\ "unverified-build" \in reported(b.route) =>
                id \in DOMAIN rows /\ rows[id].state = "code-only"
          /\ "undocumented-runtime" \in reported(b.route) =>
                id \in DOMAIN rows /\ rows[id].state = "unmatched"
          /\ id \in DOMAIN rows /\ rows[id].state = "code-only" =>
                "unverified-build" \in reported(b.route)
      BY <2>2, <3>1, ReportedIs
    <3>4. \A n : n \in Visits(disk.behavior) <=>
             n \in ToSet(disk.behavior) /\ n.raw.kind # "transition"
      BY <2>4 DEF Visits
    <3>5. b.structure /\ id \notin DOMAIN rows => b.route \in folded
      BY <2>2, <3>1, <3>2 DEF RouteNodes
    <3>6. \A n \in ToSet(disk.behavior) : KeyOf(n) = b.route /\ n.raw.kind = "transition" =>
             b.route \in reached
      OBVIOUS
    <3> HIDE DEF reported, folded, reached
    <3> QED
      BY <2>5, <3>1, <3>2, <3>3, <3>4, <3>5, <3>6
  <2> QED
    BY <2>6 DEF ChecksAgree
<1> QED
  BY SpineAlways, BoundaryAlways, <1>1, PTL

-------------------------------------------------------------------------------
(* What a correction does, and what it leaves alone.                         *)

LEMMA AddIs ==
    ASSUME NEW state \in Corrected, NEW c \in Correction,
           c.kind = "add-entity", ~Knows(state.entities, c.entity)
    PROVE  LET new == Correct(state, c)
           IN /\ \E x : x.name = c.entity /\ ToSet(new.entities) = ToSet(state.entities) \cup {x}
              /\ new.overrides = state.overrides
<1>1. PICK x : x = [name |-> c.entity, attributes |-> c.attributes, dependsOn |-> c.dependsOn]
  OBVIOUS
<1>2. Correct(state, c) = [state EXCEPT !.entities = Append(@, x),
                                        !.corrected = @ \cup {c.entity}]
  BY <1>1 DEF Correct
<1>3. DOMAIN state = {"entities", "overrides", "corrected"} /\ IsSequence(state.entities)
  BY TypedIs DEF Corrected
<1>4. Correct(state, c).entities = Append(state.entities, x)
      /\ Correct(state, c).overrides = state.overrides
  BY <1>2, <1>3
<1>5. PICK s, n : s = state.entities /\ n = Len(s)
  OBVIOUS
<1>6. n \in Nat /\ DOMAIN s = 1..n /\ s \in Seq(ToSet(s))
  BY <1>3, <1>5, SequenceIs DEF IsSequence
<1>7. /\ DOMAIN Append(s, x) = 1..n + 1
      /\ \A i \in 1..n + 1 : Append(s, x)[i] = IF i = n + 1 THEN x ELSE s[i]
  <2>1. PICK T : T = ToSet(s) \cup {x}
    OBVIOUS
  <2>2. s \in Seq(T) /\ x \in T
    BY <1>6, <2>1
  <2> QED
    BY <1>5, <1>6, <2>2
<1>8. ToSet(Append(s, x)) = ToSet(s) \cup {x}
  <2>1. 1..n + 1 = (1..n) \cup {n + 1} /\ n + 1 \notin 1..n
    BY <1>6
  <2> QED
    BY <1>6, <1>7, <2>1 DEF ToSet
<1> QED
  BY <1>1, <1>4, <1>5, <1>8

LEMMA RemoveIs ==
    ASSUME NEW state \in Corrected, NEW c \in Correction,
           c.kind = "remove-entity", Knows(state.entities, c.entity)
    PROVE  LET new == Correct(state, c)
           IN /\ ToSet(new.entities) = {e \in ToSet(state.entities) : e.name # c.entity}
              /\ DOMAIN new.overrides = DOMAIN state.overrides \ {c.entity}
              /\ \A n \in DOMAIN new.overrides : new.overrides[n] = state.overrides[n]
<1>1. PICK set : set = {e \in ToSet(state.entities) : e.name # c.entity}
  OBVIOUS
<1>2. Correct(state, c) = [state EXCEPT !.entities = Only(@, set),
                                        !.overrides = Without(@, c.entity)]
  BY <1>1 DEF Correct
<1>3. DOMAIN state = {"entities", "overrides", "corrected"} /\ IsSequence(state.entities)
  BY TypedIs DEF Corrected
<1>4. Correct(state, c).entities = Only(state.entities, set)
      /\ Correct(state, c).overrides = Without(state.overrides, c.entity)
  BY <1>2, <1>3
<1>5. ToSet(Only(state.entities, set)) = ToSet(state.entities) \cap set
  BY <1>3, OnlyOf
<1>6. LET o == Without(state.overrides, c.entity)
      IN /\ DOMAIN o = DOMAIN state.overrides \ {c.entity}
         /\ \A n \in DOMAIN o : o[n] = state.overrides[n]
  BY DEF Without, Restrict
<1> QED
  BY <1>1, <1>4, <1>5, <1>6

LEMMA RenameIs ==
    ASSUME NEW state \in Corrected, NEW c \in Correction,
           c.kind = "rename-entity", Knows(state.entities, c.entity)
    PROVE  LET new == Correct(state, c)
               old == state.entities
           IN /\ DOMAIN new.entities = DOMAIN old
              /\ \A k \in DOMAIN old :
                    /\ new.entities[k].name = IF k = FirstOf(old, c.entity) THEN c.to
                                              ELSE old[k].name
                    /\ new.entities[k].attributes = old[k].attributes
                    /\ new.entities[k].dependsOn = ReplaceAll(old[k].dependsOn, c.entity, c.to)
              /\ \A n : n \notin {c.entity, c.to} =>
                    /\ n \in DOMAIN new.overrides <=> n \in DOMAIN state.overrides
                    /\ n \in DOMAIN state.overrides => new.overrides[n] = state.overrides[n]
<1> DEFINE old == state.entities
           named == [old EXCEPT ![FirstOf(old, c.entity)].name = c.to]
           relinked == [k \in DOMAIN named |->
                          [named[k] EXCEPT !.dependsOn = ReplaceAll(@, c.entity, c.to)]]
           o == IF c.entity \in DOMAIN state.overrides
                THEN [n \in (DOMAIN state.overrides \cup {c.to}) \ {c.entity} |->
                        state.overrides[IF n = c.to THEN c.entity ELSE n]]
                ELSE state.overrides
<1>1. Correct(state, c) = Renamed(state, c.entity, c.to)
  BY DEF Correct
<1>2. Renamed(state, c.entity, c.to)
        = [entities |-> relinked, overrides |-> o, corrected |-> state.corrected \cup {c.to}]
  BY Zenon DEF Renamed
<1>3. Correct(state, c).entities = relinked /\ Correct(state, c).overrides = o
  <2> HIDE DEF relinked, o
  <2> QED
    BY <1>1, <1>2
<1>4. PICK first : first = FirstOf(old, c.entity)
  OBVIOUS
<1>5. \A k \in DOMAIN old : old[k] \in Entity
  BY DEF Corrected
<1>6. DOMAIN named = DOMAIN old
      /\ \A k \in DOMAIN old : named[k] = IF k = first THEN [old[k] EXCEPT !.name = c.to] ELSE old[k]
  BY <1>4
<1>7. \A k \in DOMAIN old :
         /\ DOMAIN named[k] = {"name", "attributes", "dependsOn"}
         /\ named[k].name = IF k = first THEN c.to ELSE old[k].name
         /\ named[k].attributes = old[k].attributes /\ named[k].dependsOn = old[k].dependsOn
  <2> HIDE DEF named, old
  <2> QED
    BY <1>5, <1>6 DEF Entity
<1> HIDE DEF named, old
<1>8. DOMAIN relinked = DOMAIN old
      /\ \A k \in DOMAIN old :
            relinked[k] = [named[k] EXCEPT !.dependsOn = ReplaceAll(@, c.entity, c.to)]
  BY <1>6
<1> HIDE DEF relinked
<1>9. \A k \in DOMAIN old :
         /\ relinked[k].name = named[k].name /\ relinked[k].attributes = named[k].attributes
         /\ relinked[k].dependsOn = ReplaceAll(named[k].dependsOn, c.entity, c.to)
  BY <1>7, <1>8
<1>10. \A n : n \notin {c.entity, c.to} =>
          /\ n \in DOMAIN o <=> n \in DOMAIN state.overrides
          /\ n \in DOMAIN state.overrides => o[n] = state.overrides[n]
  OBVIOUS
<1> HIDE DEF o
<1>11. /\ DOMAIN relinked = DOMAIN old
       /\ \A k \in DOMAIN old :
             /\ relinked[k].name = IF k = FirstOf(old, c.entity) THEN c.to ELSE old[k].name
             /\ relinked[k].attributes = old[k].attributes
             /\ relinked[k].dependsOn = ReplaceAll(old[k].dependsOn, c.entity, c.to)
  BY <1>4, <1>7, <1>8, <1>9
<1> QED
  BY <1>3, <1>10, <1>11 DEF old

Rewriting == {"set-attributes", "add-attributes", "set-depends-on"}

LEMMA RewriteIs ==
    ASSUME NEW state \in Corrected, NEW c \in Correction,
           c.kind \in Rewriting, Knows(state.entities, c.entity)
    PROVE  LET new == Correct(state, c)
               old == state.entities
               first == FirstOf(old, c.entity)
           IN /\ DOMAIN new.entities = DOMAIN old /\ first \in DOMAIN old
              /\ \A k \in DOMAIN old : k # first => new.entities[k] = old[k]
              /\ new.entities[first].name = c.entity /\ old[first].name = c.entity
              /\ c.kind = "set-attributes" => new.entities[first].attributes = c.attributes
              /\ c.kind = "add-attributes" => c.attributes \subseteq new.entities[first].attributes
              /\ c.kind = "set-depends-on" => new.entities[first].dependsOn = c.dependsOn
              /\ new.overrides = state.overrides
<1>1. PICK old, first : old = state.entities /\ first = FirstOf(old, c.entity)
  OBVIOUS
<1>2. first \in DOMAIN old /\ old[first].name = c.entity /\ old[first] \in Entity
  <2>1. old \in Seq(Entity)
    BY <1>1 DEF Corrected
  <2>2. first \in DOMAIN old /\ old[first].name = c.entity
    BY <1>1, <2>1, FirstIs
  <2> QED
    BY <2>1, <2>2
<1>3. PICK e : /\ Correct(state, c) = [state EXCEPT !.entities = [old EXCEPT ![first] = e],
                                                    !.corrected = @ \cup {c.entity}]
               /\ e.name = c.entity
               /\ c.kind = "set-attributes" => e.attributes = c.attributes
               /\ c.kind = "add-attributes" => c.attributes \subseteq e.attributes
               /\ c.kind = "set-depends-on" => e.dependsOn = c.dependsOn
  <2>1. DOMAIN state = {"entities", "overrides", "corrected"}
    BY DEF Corrected
  <2>2. DOMAIN old[first] = {"name", "attributes", "dependsOn"}
    BY <1>2 DEF Entity
  <2>3. CASE c.kind = "set-attributes"
    <3>1. PICK e : e = [old[first] EXCEPT !.attributes = c.attributes]
      OBVIOUS
    <3>2. Correct(state, c) = [state EXCEPT !.entities = [old EXCEPT ![first] = e],
                                            !.corrected = @ \cup {c.entity}]
      BY <1>1, <2>1, <2>3, <3>1 DEF Correct, Rewrite
    <3>3. e.name = c.entity /\ e.attributes = c.attributes
      BY <1>2, <2>2, <3>1
    <3> QED
      BY <2>3, <3>2, <3>3
  <2>4. CASE c.kind = "add-attributes"
    <3>1. PICK e : e = [old[first] EXCEPT !.attributes = @ \cup c.attributes]
      OBVIOUS
    <3>2. Correct(state, c) = [state EXCEPT !.entities = [old EXCEPT ![first] = e],
                                            !.corrected = @ \cup {c.entity}]
      BY <1>1, <2>1, <2>4, <3>1 DEF Correct, Rewrite
    <3>3. e.name = c.entity /\ c.attributes \subseteq e.attributes
      BY <1>2, <2>2, <3>1
    <3> QED
      BY <2>4, <3>2, <3>3
  <2>5. CASE c.kind = "set-depends-on"
    <3>1. PICK e : e = [old[first] EXCEPT !.dependsOn = c.dependsOn]
      OBVIOUS
    <3>2. Correct(state, c) = [state EXCEPT !.entities = [old EXCEPT ![first] = e],
                                            !.corrected = @ \cup {c.entity}]
      BY <1>1, <2>1, <2>5, <3>1 DEF Correct, Rewrite
    <3>3. e.name = c.entity /\ e.dependsOn = c.dependsOn
      BY <1>2, <2>2, <3>1
    <3> QED
      BY <2>5, <3>2, <3>3
  <2> QED
    BY <2>3, <2>4, <2>5 DEF Rewriting
<1>4. DOMAIN state = {"entities", "overrides", "corrected"}
  BY DEF Corrected
<1>5. PICK new : new = Correct(state, c)
  OBVIOUS
<1>6. new.entities = [old EXCEPT ![first] = e] /\ new.overrides = state.overrides
  BY <1>3, <1>4, <1>5
<1>7. /\ DOMAIN new.entities = DOMAIN old /\ new.entities[first] = e
      /\ \A k \in DOMAIN old : k # first => new.entities[k] = old[k]
  BY <1>2, <1>6
<1> QED
  BY <1>1, <1>2, <1>3, <1>5, <1>6, <1>7

LEMMA CrudIs ==
    ASSUME NEW state \in Corrected, NEW c \in Correction,
           c.kind \in {"set-crud", "add-crud"}, Knows(state.entities, c.entity)
    PROVE  LET new == Correct(state, c)
           IN /\ new.entities = state.entities
              /\ DOMAIN new.overrides = DOMAIN state.overrides \cup {c.entity}
              /\ \A n \in DOMAIN state.overrides :
                    n # c.entity => new.overrides[n] = state.overrides[n]
              /\ c.kind = "set-crud" => new.overrides[c.entity] = c.crud
              /\ c.kind = "add-crud" => c.crud \subseteq new.overrides[c.entity]
<1>1. PICK crud : /\ Correct(state, c) = WithOverride(state, c.entity, crud)
                  /\ c.kind = "set-crud" => crud = c.crud
                  /\ c.kind = "add-crud" => c.crud \subseteq crud
  <2>1. CASE c.kind = "set-crud"
    BY <2>1 DEF Correct
  <2>2. CASE c.kind = "add-crud"
    <3>1. Correct(state, c) = WithOverride(state, c.entity,
             c.crud \cup IF c.entity \in DOMAIN state.overrides
                         THEN state.overrides[c.entity] ELSE {})
      BY <2>2 DEF Correct
    <3> QED
      BY <2>2, <3>1
  <2> QED
    BY <2>1, <2>2
<1>2. PICK o : o = [n \in DOMAIN state.overrides \cup {c.entity} |->
                      IF n = c.entity THEN crud ELSE state.overrides[n]]
  OBVIOUS
<1>3. DOMAIN state = {"entities", "overrides", "corrected"}
  BY DEF Corrected
<1>4. Correct(state, c).entities = state.entities /\ Correct(state, c).overrides = o
  BY <1>1, <1>2, <1>3 DEF WithOverride
<1>5. /\ DOMAIN o = DOMAIN state.overrides \cup {c.entity} /\ o[c.entity] = crud
      /\ \A n \in DOMAIN state.overrides : n # c.entity => o[n] = state.overrides[n]
  BY <1>2
<1> QED
  BY <1>1, <1>4, <1>5

\* One that names an unknown entity, or adds a known one, is skipped.
Heeded(state, c) ==
    IF c.kind = "add-entity" THEN ~Knows(state.entities, c.entity)
    ELSE Knows(state.entities, c.entity)

LEMMA SkipIs ==
    ASSUME NEW state, NEW c \in Correction, ~Heeded(state, c)
    PROVE  Correct(state, c) = state
  BY DEF Heeded, Correct

Named(entities, name) == {e \in ToSet(entities) : e.name = name}

LEMMA KnowsIs ==
    ASSUME NEW entities, NEW name
    PROVE  Knows(entities, name) <=> Named(entities, name) # {}
  BY DEF Knows, Named, ToSet

\* From the entities s and overrides o to t and p, the correction d leaves a name
\* as it was, but for the references of its records.
Leaves(d, name, s, o, t, p) ==
    /\ Named(t, name) = {} <=> Named(s, name) = {}
    /\ \A e \in Named(t, name) : \E f \in Named(s, name) :
          /\ e.attributes = f.attributes
          /\ e.dependsOn \in {f.dependsOn, ReplaceAll(f.dependsOn, d.entity, d.to)}
    /\ name \in DOMAIN p <=> name \in DOMAIN o
    /\ name \in DOMAIN o => p[name] = o[name]

LEMMA CorrectLeaves ==
    ASSUME NEW state \in Corrected, NEW d \in Correction, NEW name, name \notin About(d)
    PROVE  Leaves(d, name, state.entities, state.overrides,
                  Correct(state, d).entities, Correct(state, d).overrides)
<1>1. PICK s, o, t, p : /\ s = state.entities /\ o = state.overrides
                        /\ t = Correct(state, d).entities /\ p = Correct(state, d).overrides
  OBVIOUS
<1>2. name # d.entity /\ (d.kind = "rename-entity" => name # d.to)
  BY DEF About
<1>3. CASE ~Heeded(state, d)
  <2>1. t = s /\ p = o
    BY <1>1, <1>3, SkipIs
  <2> QED
    BY <1>1, <2>1 DEF Leaves
<1>4. CASE Heeded(state, d) /\ d.kind = "add-entity"
  <2>1. ~Knows(state.entities, d.entity)
    BY <1>4 DEF Heeded
  <2>2. p = o /\ \E x : x.name = d.entity /\ ToSet(t) = ToSet(s) \cup {x}
    BY <1>1, <1>4, <2>1, AddIs
  <2>3. Named(t, name) = Named(s, name)
    BY <1>2, <2>2 DEF Named
  <2> QED
    BY <1>1, <2>2, <2>3 DEF Leaves
<1>5. CASE Heeded(state, d) /\ d.kind = "remove-entity"
  <2>1. Knows(state.entities, d.entity)
    BY <1>5 DEF Heeded
  <2>2. /\ ToSet(t) = {e \in ToSet(s) : e.name # d.entity}
        /\ DOMAIN p = DOMAIN o \ {d.entity} /\ \A n \in DOMAIN p : p[n] = o[n]
    BY <1>1, <1>5, <2>1, RemoveIs
  <2>3. Named(t, name) = Named(s, name)
    BY <1>2, <2>2 DEF Named
  <2>4. (name \in DOMAIN p <=> name \in DOMAIN o) /\ (name \in DOMAIN o => p[name] = o[name])
    BY <1>2, <2>2
  <2> QED
    BY <1>1, <2>3, <2>4 DEF Leaves
<1>6. CASE Heeded(state, d) /\ d.kind = "rename-entity"
  <2>1. Knows(state.entities, d.entity)
    BY <1>6 DEF Heeded
  <2>2. PICK first : first = FirstOf(s, d.entity)
    OBVIOUS
  <2>3. first \in DOMAIN s /\ s[first].name = d.entity
    BY <1>1, <2>1, <2>2, FirstIs DEF Corrected
  <2>4. /\ DOMAIN t = DOMAIN s
        /\ \A k \in DOMAIN s :
              /\ t[k].name = IF k = first THEN d.to ELSE s[k].name
              /\ t[k].attributes = s[k].attributes
              /\ t[k].dependsOn = ReplaceAll(s[k].dependsOn, d.entity, d.to)
        /\ \A n : n \notin {d.entity, d.to} =>
              (n \in DOMAIN p <=> n \in DOMAIN o) /\ (n \in DOMAIN o => p[n] = o[n])
    BY <1>1, <1>6, <2>1, <2>2, RenameIs
  <2>5. \A k \in DOMAIN s : t[k].name = name <=> s[k].name = name
    BY <1>2, <1>6, <2>3, <2>4
  <2>6. Named(t, name) = {} <=> Named(s, name) = {}
    BY <2>4, <2>5 DEF Named, ToSet
  <2>7. ASSUME NEW e \in Named(t, name)
        PROVE  \E f \in Named(s, name) :
                  /\ e.attributes = f.attributes
                  /\ e.dependsOn = ReplaceAll(f.dependsOn, d.entity, d.to)
    <3>1. PICK k \in DOMAIN s : e = t[k]
      BY <2>4 DEF Named, ToSet
    <3>2. s[k] \in Named(s, name)
      BY <2>5, <3>1 DEF Named, ToSet
    <3> QED
      BY <2>4, <3>1, <3>2
  <2>8. (name \in DOMAIN p <=> name \in DOMAIN o) /\ (name \in DOMAIN o => p[name] = o[name])
    BY <1>2, <1>6, <2>4
  <2> QED
    BY <1>1, <2>6, <2>7, <2>8 DEF Leaves
<1>7. CASE Heeded(state, d) /\ d.kind \in Rewriting
  <2>1. Knows(state.entities, d.entity)
    BY <1>7 DEF Heeded, Rewriting
  <2>2. PICK first : first = FirstOf(s, d.entity)
    OBVIOUS
  <2>3. /\ DOMAIN t = DOMAIN s /\ first \in DOMAIN s
        /\ \A k \in DOMAIN s : k # first => t[k] = s[k]
        /\ t[first].name = d.entity /\ s[first].name = d.entity /\ p = o
    BY <1>1, <1>7, <2>1, <2>2, RewriteIs
  <2>4. Named(t, name) = Named(s, name)
    BY <1>2, <2>3 DEF Named, ToSet
  <2> QED
    BY <1>1, <2>3, <2>4 DEF Leaves
<1>8. CASE Heeded(state, d) /\ d.kind \in {"set-crud", "add-crud"}
  <2>1. Knows(state.entities, d.entity)
    BY <1>8 DEF Heeded
  <2>2. /\ t = s /\ DOMAIN p = DOMAIN o \cup {d.entity}
        /\ \A n \in DOMAIN o : n # d.entity => p[n] = o[n]
    BY <1>1, <1>8, <2>1, CrudIs
  <2>3. (name \in DOMAIN p <=> name \in DOMAIN o) /\ (name \in DOMAIN o => p[name] = o[name])
    BY <1>2, <2>2
  <2> QED
    BY <1>1, <2>2, <2>3 DEF Leaves
<1> QED
  BY <1>3, <1>4, <1>5, <1>6, <1>7, <1>8 DEF Correction, Rewriting

\* What a correction of the entities found is in those it left.
Stands(c, found, entities, overrides) ==
    LET mine == Named(entities, c.entity)
    IN CASE c.kind = "remove-entity" -> mine = {}
         [] c.kind = "rename-entity" ->
              /\ c.entity # c.to => mine = {}
              /\ Knows(found, c.entity) => Named(entities, c.to) # {}
         [] c.kind = "add-entity" -> mine # {}
         [] c.kind = "set-crud" ->
              mine # {} => c.entity \in DOMAIN overrides /\ overrides[c.entity] = c.crud
         [] c.kind = "add-crud" ->
              mine # {} => c.entity \in DOMAIN overrides /\ c.crud \subseteq overrides[c.entity]
         [] c.kind = "set-attributes" -> \A e \in mine : e.attributes = c.attributes
         [] c.kind = "add-attributes" -> \A e \in mine : c.attributes \subseteq e.attributes
         [] OTHER -> \A e \in mine : e.dependsOn = c.dependsOn

LEMMA ReplaceNone ==
    ASSUME NEW T, NEW s \in Seq(T), NEW from, NEW to, from \notin ToSet(s)
    PROVE  ReplaceAll(s, from, to) = s
<1>1. DOMAIN s = 1..Len(s) /\ s = [i \in 1..Len(s) |-> s[i]] /\ \A i \in 1..Len(s) : s[i] # from
  BY DEF ToSet
<1>2. ReplaceAll(s, from, to) = [i \in 1..Len(s) |-> s[i]]
  BY <1>1 DEF ReplaceAll
<1> QED
  BY <1>1, <1>2

LEMMA StandsStays ==
    ASSUME NEW c \in Correction, NEW found, NEW d \in Correction,
           About(d) \cap (About(c) \cup ToSet(c.dependsOn)) = {},
           NEW s, NEW o, NEW t, NEW p, Stands(c, found, s, o),
           \A name : name \notin About(d) => Leaves(d, name, s, o, t, p)
    PROVE  Stands(c, found, t, p)
<1>1. c.entity \notin About(d) /\ d.entity \notin ToSet(c.dependsOn)
  BY DEF About
<1>2. /\ Named(t, c.entity) = {} <=> Named(s, c.entity) = {}
      /\ \A e \in Named(t, c.entity) : \E f \in Named(s, c.entity) :
            /\ e.attributes = f.attributes
            /\ e.dependsOn \in {f.dependsOn, ReplaceAll(f.dependsOn, d.entity, d.to)}
      /\ c.entity \in DOMAIN p <=> c.entity \in DOMAIN o
      /\ c.entity \in DOMAIN o => p[c.entity] = o[c.entity]
  BY <1>1 DEF Leaves
<1>3. CASE c.kind = "rename-entity"
  <2>1. c.to \notin About(d)
    BY <1>3 DEF About
  <2>2. Named(t, c.to) = {} <=> Named(s, c.to) = {}
    BY <2>1 DEF Leaves
  <2> QED
    BY <1>2, <1>3, <2>2 DEF Stands
<1>4. CASE c.kind = "set-depends-on"
  <2>1. \A f \in Named(s, c.entity) : f.dependsOn = c.dependsOn
    BY <1>4 DEF Stands
  <2>2. ReplaceAll(c.dependsOn, d.entity, d.to) = c.dependsOn
    <3>1. c.dependsOn \in Seq(Name)
      BY DEF Correction
    <3> QED
      BY <1>1, <3>1, ReplaceNone
  <2>3. \A e \in Named(t, c.entity) : e.dependsOn = c.dependsOn
    BY <1>2, <2>1, <2>2
  <2> QED
    BY <1>4, <2>3 DEF Stands
<1>5. CASE c.kind \in {"remove-entity", "add-entity"}
  BY <1>2, <1>5 DEF Stands
<1>6. CASE c.kind \in {"set-crud", "add-crud"}
  BY <1>2, <1>6 DEF Stands
<1>7. CASE c.kind = "set-attributes"
  <2>1. \A f \in Named(s, c.entity) : f.attributes = c.attributes
    BY <1>7 DEF Stands
  <2> QED
    BY <1>2, <1>7, <2>1 DEF Stands
<1>8. CASE c.kind = "add-attributes"
  <2>1. \A f \in Named(s, c.entity) : c.attributes \subseteq f.attributes
    BY <1>8 DEF Stands
  <2>2. \A e \in Named(t, c.entity) : c.attributes \subseteq e.attributes
    BY <1>2, <2>1
  <2> QED
    BY <1>8, <2>2 DEF Stands
<1> QED
  BY <1>3, <1>4, <1>5, <1>6, <1>7, <1>8 DEF Correction

LEMMA StandsAtOnce ==
    ASSUME NEW state \in Corrected, NEW c \in Correction, ToldOnce(state.entities, c.entity)
    PROVE  Stands(c, state.entities, Correct(state, c).entities, Correct(state, c).overrides)
<1>1. PICK s, o, t, p : /\ s = state.entities /\ o = state.overrides
                        /\ t = Correct(state, c).entities /\ p = Correct(state, c).overrides
  OBVIOUS
<1>2. Knows(s, c.entity) <=> Named(s, c.entity) # {}
  BY KnowsIs
<1>3. CASE ~Heeded(state, c)
  <2>1. t = s /\ p = o
    BY <1>1, <1>3, SkipIs
  <2>2. CASE c.kind = "add-entity"
    BY <1>1, <1>2, <1>3, <2>1, <2>2 DEF Heeded, Stands
  <2>3. CASE c.kind # "add-entity"
    <3>1. Named(t, c.entity) = {} /\ ~Knows(s, c.entity)
      BY <1>1, <1>2, <1>3, <2>1, <2>3 DEF Heeded
    <3> QED
      BY <1>1, <2>3, <3>1 DEF Stands
  <2> QED
    BY <2>2, <2>3
<1>4. CASE Heeded(state, c) /\ c.kind = "add-entity"
  <2>1. \E x : x.name = c.entity /\ ToSet(t) = ToSet(s) \cup {x}
    BY <1>1, <1>4, AddIs DEF Heeded
  <2>2. Named(t, c.entity) # {}
    BY <2>1 DEF Named
  <2> QED
    BY <1>1, <1>4, <2>2 DEF Stands
<1>5. CASE Heeded(state, c) /\ c.kind = "remove-entity"
  <2>1. ToSet(t) = {e \in ToSet(s) : e.name # c.entity}
    BY <1>1, <1>5, RemoveIs DEF Heeded
  <2>2. Named(t, c.entity) = {}
    BY <2>1 DEF Named
  <2> QED
    BY <1>1, <1>5, <2>2 DEF Stands
<1>6. CASE Heeded(state, c) /\ c.kind = "rename-entity"
  <2>1. Knows(s, c.entity)
    BY <1>1, <1>6 DEF Heeded
  <2>2. PICK first : first = FirstOf(s, c.entity)
    OBVIOUS
  <2>3. first \in DOMAIN s /\ s[first].name = c.entity
    BY <1>1, <2>1, <2>2, FirstIs DEF Corrected
  <2>4. /\ DOMAIN t = DOMAIN s
        /\ \A k \in DOMAIN s : t[k].name = IF k = first THEN c.to ELSE s[k].name
    BY <1>1, <1>6, <2>1, <2>2, RenameIs
  <2>5. Named(t, c.to) # {}
    BY <2>3, <2>4 DEF Named, ToSet
  <2>6. ASSUME c.entity # c.to PROVE Named(t, c.entity) = {}
    <3>1. \A k \in DOMAIN s : s[k].name = c.entity => k = first
      BY <1>1, <2>3 DEF ToldOnce
    <3>2. \A k \in DOMAIN t : t[k].name # c.entity
      BY <2>4, <2>6, <3>1
    <3> QED
      BY <3>2 DEF Named, ToSet
  <2> QED
    BY <1>1, <1>6, <2>5, <2>6 DEF Stands
<1>7. CASE Heeded(state, c) /\ c.kind \in Rewriting
  <2>1. Knows(s, c.entity)
    BY <1>1, <1>7 DEF Heeded, Rewriting
  <2>2. PICK first : first = FirstOf(s, c.entity)
    OBVIOUS
  <2>3. /\ DOMAIN t = DOMAIN s /\ first \in DOMAIN s
        /\ \A k \in DOMAIN s : k # first => t[k] = s[k]
        /\ s[first].name = c.entity
        /\ c.kind = "set-attributes" => t[first].attributes = c.attributes
        /\ c.kind = "add-attributes" => c.attributes \subseteq t[first].attributes
        /\ c.kind = "set-depends-on" => t[first].dependsOn = c.dependsOn
    BY <1>1, <1>7, <2>1, <2>2, RewriteIs
  <2>4. ASSUME NEW e \in Named(t, c.entity) PROVE e = t[first]
    <3>1. PICK k \in DOMAIN t : e = t[k] /\ t[k].name = c.entity
      BY DEF Named, ToSet
    <3>2. k = first
      <4>1. CASE k # first
        <5>1. s[k].name = c.entity
          BY <2>3, <3>1, <4>1
        <5> QED
          BY <1>1, <2>3, <5>1 DEF ToldOnce
      <4> QED
        BY <4>1
    <3> QED
      BY <3>1, <3>2
  <2>5. CASE c.kind = "set-attributes"
    BY <1>1, <2>3, <2>4, <2>5 DEF Stands
  <2>6. CASE c.kind = "add-attributes"
    BY <1>1, <2>3, <2>4, <2>6 DEF Stands
  <2>7. CASE c.kind = "set-depends-on"
    BY <1>1, <2>3, <2>4, <2>7 DEF Stands
  <2> QED
    BY <1>7, <2>5, <2>6, <2>7 DEF Rewriting
<1>8. CASE Heeded(state, c) /\ c.kind \in {"set-crud", "add-crud"}
  <2>1. /\ DOMAIN p = DOMAIN o \cup {c.entity}
        /\ c.kind = "set-crud" => p[c.entity] = c.crud
        /\ c.kind = "add-crud" => c.crud \subseteq p[c.entity]
    BY <1>1, <1>8, CrudIs DEF Heeded
  <2> QED
    BY <1>1, <1>8, <2>1 DEF Stands
<1> QED
  BY <1>3, <1>4, <1>5, <1>6, <1>7, <1>8 DEF Correction, Rewriting

\* No later correction of its names undoes what a correction of a name told once
\* at most left behind.
LEMMA StandsForever ==
    ASSUME NEW extract, ExtractShape(extract), NEW made \in Seq(Correction),
           NEW i \in DOMAIN made,
           \A j \in DOMAIN made :
              j > i => About(made[j]) \cap (About(made[i]) \cup ToSet(made[i].dependsOn)) = {},
           NEW found, found = Overlaid(extract, made)[i - 1].entities,
           ToldOnce(found, made[i].entity)
    PROVE  Stands(made[i], found, applyCorrections(extract, made).extract.entities,
                  applyCorrections(extract, made).extract.overrides)
<1>1. PICK after : after = Overlaid(extract, made)
  OBVIOUS
<1>2. Len(made) \in Nat /\ DOMAIN made = 1..Len(made) /\ i \in 1..Len(made)
  OBVIOUS
<1>3. /\ \A n \in 1..Len(made) : after[n] = Correct(after[n - 1], made[n])
      /\ \A n \in 0..Len(made) : after[n] \in Corrected
  BY ZenonT(40), <1>1, OverlaidIs
<1>4. PICK c \in Correction : c = made[i]
  BY <1>2
<1> DEFINE S == {n \in Nat : i <= n /\ n <= Len(made) =>
                    Stands(c, found, after[n].entities, after[n].overrides)}
<1>5. 0 \in S
  BY <1>2
<1>6. ASSUME NEW n \in Nat, n \in S PROVE n + 1 \in S
  <2>1. SUFFICES ASSUME i <= n + 1, n + 1 <= Len(made)
                 PROVE  Stands(c, found, after[n + 1].entities, after[n + 1].overrides)
    OBVIOUS
  <2>2. n + 1 \in 1..Len(made) /\ n \in 0..Len(made) /\ (n + 1) - 1 = n
    BY <1>2, <2>1
  <2>3. PICK state, d : state = after[n] /\ d = made[n + 1]
    OBVIOUS
  <2>4. state \in Corrected /\ d \in Correction /\ after[n + 1] = Correct(state, d)
    BY <1>2, <1>3, <2>2, <2>3
  <2>5. CASE n + 1 = i
    <3>1. d = c /\ found = state.entities
      BY <1>1, <1>4, <2>2, <2>3, <2>5
    <3>2. Stands(c, state.entities, Correct(state, c).entities, Correct(state, c).overrides)
      BY <1>4, <2>4, <3>1, StandsAtOnce
    <3> QED
      BY <2>4, <3>1, <3>2
  <2>6. CASE n + 1 # i
    <3>1. i <= n /\ n <= Len(made) /\ n + 1 > i
      BY <1>2, <2>1, <2>6
    <3>2. Stands(c, found, state.entities, state.overrides)
      BY <1>6, <2>3, <3>1
    <3>3. About(d) \cap (About(c) \cup ToSet(c.dependsOn)) = {}
      BY <1>2, <1>4, <2>2, <2>3, <3>1
    <3>4. PICK s, o, t, p : /\ s = state.entities /\ o = state.overrides
                            /\ t = Correct(state, d).entities /\ p = Correct(state, d).overrides
      OBVIOUS
    <3>5. ASSUME NEW name, name \notin About(d) PROVE Leaves(d, name, s, o, t, p)
      BY <2>4, <3>4, <3>5, CorrectLeaves
    <3>6. Stands(c, found, t, p)
      BY <2>4, <3>2, <3>3, <3>4, <3>5, StandsStays
    <3> QED
      BY <2>4, <3>4, <3>6
  <2> QED
    BY <2>5, <2>6
<1>7. Len(made) \in S
  <2> HIDE DEF S
  <2> QED
    BY <1>2, <1>5, <1>6, NatSetInduction
<1>8. Stands(c, found, after[Len(made)].entities, after[Len(made)].overrides)
  BY <1>2, <1>7
<1>9. /\ applyCorrections(extract, made).extract.entities = after[Len(made)].entities
      /\ applyCorrections(extract, made).extract.overrides = after[Len(made)].overrides
  BY <1>1, CorrectedIs
<1> QED
  BY <1>4, <1>8, <1>9

\* The nodes told of corrected entities show what stands in them.
LEMMA ShownIs ==
    ASSUME NEW nodes, NEW extract, NEW corrected, EntitiesTold(nodes, extract, corrected),
           NEW c \in Correction, NEW found,
           Stands(c, found, extract.entities, extract.overrides)
    PROVE  Shows(c, found, nodes)
<1>1. PICK mine, overrides : mine = Named(extract.entities, c.entity)
                             /\ overrides = extract.overrides
  OBVIOUS
<1> DEFINE named(n) == {x \in ToSet(nodes) : isEntityNode(x) /\ x.localName = n}
<1>2. ASSUME NEW n
      PROVE  /\ named(n) = {} <=> Named(extract.entities, n) = {}
             /\ \A x \in named(n) : \E e \in Named(extract.entities, n) :
                   x = entityNode(e, extract, corrected)
  <2>1. \A x \in named(n) : \E e \in ToSet(extract.entities) :
           x = entityNode(e, extract, corrected) /\ x.localName = e.name
    <3> SUFFICES ASSUME NEW x \in named(n)
                 PROVE  \E e \in ToSet(extract.entities) :
                           x = entityNode(e, extract, corrected) /\ x.localName = e.name
      OBVIOUS
    <3>1. PICK e \in ToSet(extract.entities) : x = entityNode(e, extract, corrected)
      BY DEF EntitiesTold, EntityNodes
    <3>2. x.localName = e.name
      BY <3>1 DEF entityNode
    <3> QED
      BY <3>1, <3>2
  <2>2. \A x \in named(n) : \E e \in Named(extract.entities, n) :
           x = entityNode(e, extract, corrected)
    BY <2>1 DEF Named
  <2>3. \A e \in Named(extract.entities, n) : \E x \in named(n) : TRUE
    BY DEF EntitiesTold, EntityNodes, Named
  <2> QED
    BY <2>2, <2>3
<1>3. ASSUME NEW x \in named(c.entity)
      PROVE  \E e \in mine :
                /\ x.raw.attributes = e.attributes /\ x.raw.dependsOn = e.dependsOn
                /\ c.entity \in DOMAIN overrides => x.raw.crud = overrides[c.entity]
  <2>1. PICK e \in mine : x = entityNode(e, extract, corrected)
    BY <1>1, <1>2
  <2>2. /\ x.raw.attributes = e.attributes /\ x.raw.dependsOn = e.dependsOn
        /\ x.raw.crud = entityCrud(e.name, extract)
    BY <2>1 DEF entityNode
  <2>3. e.name = c.entity
    BY <1>1 DEF Named
  <2>4. c.entity \in DOMAIN overrides => entityCrud(c.entity, extract) = overrides[c.entity]
    BY Zenon, <1>1 DEF entityCrud
  <2> QED
    BY <2>2, <2>3, <2>4
<1>4. named(c.entity) = {} <=> mine = {}
  BY <1>1, <1>2
<1>5. named(c.to) = {} <=> Named(extract.entities, c.to) = {}
  BY <1>2
<1>6. /\ c.kind = "remove-entity" => mine = {}
      /\ c.kind = "rename-entity" =>
            /\ c.entity # c.to => mine = {}
            /\ Knows(found, c.entity) => Named(extract.entities, c.to) # {}
      /\ c.kind = "add-entity" => mine # {}
      /\ c.kind = "set-crud" =>
            (mine # {} => c.entity \in DOMAIN overrides /\ overrides[c.entity] = c.crud)
      /\ c.kind = "add-crud" =>
            (mine # {} => c.entity \in DOMAIN overrides /\ c.crud \subseteq overrides[c.entity])
      /\ c.kind = "set-attributes" => \A e \in mine : e.attributes = c.attributes
      /\ c.kind = "add-attributes" => \A e \in mine : c.attributes \subseteq e.attributes
      /\ c.kind = "set-depends-on" => \A e \in mine : e.dependsOn = c.dependsOn
  BY <1>1 DEF Stands
<1>7. c.kind \in {"add-entity", "remove-entity", "rename-entity", "set-attributes",
                  "add-attributes", "set-depends-on", "set-crud", "add-crud"}
  BY DEF Correction
<1> HIDE DEF named
<1>8. CASE c.kind \in {"remove-entity", "rename-entity", "add-entity"}
  BY <1>4, <1>5, <1>6, <1>8 DEF Shows, named
<1>9. CASE c.kind = "set-crud"
  <2>1. \A x \in named(c.entity) : x.raw.crud = c.crud
    BY <1>3, <1>6, <1>9
  <2> QED
    BY <1>9, <2>1 DEF Shows, named
<1>10. CASE c.kind = "add-crud"
  <2>1. \A x \in named(c.entity) : c.crud \subseteq x.raw.crud
    BY <1>3, <1>6, <1>10
  <2> QED
    BY <1>10, <2>1 DEF Shows, named
<1>11. CASE c.kind = "set-attributes"
  <2>1. \A x \in named(c.entity) : x.raw.attributes = c.attributes
    BY <1>3, <1>6, <1>11
  <2> QED
    BY <1>11, <2>1 DEF Shows, named
<1>12. CASE c.kind = "add-attributes"
  <2>1. \A x \in named(c.entity) : c.attributes \subseteq x.raw.attributes
    BY <1>3, <1>6, <1>12
  <2> QED
    BY <1>12, <2>1 DEF Shows, named
<1>13. CASE c.kind = "set-depends-on"
  <2>1. \A x \in named(c.entity) : x.raw.dependsOn = c.dependsOn
    BY <1>3, <1>6, <1>13
  <2> QED
    BY <1>13, <2>1 DEF Shows, named
<1> QED
  BY <1>7, <1>8, <1>9, <1>10, <1>11, <1>12, <1>13

-------------------------------------------------------------------------------
(* An analysis under way.                                                    *)

AnalysisInv ==
    job.stage = "structure" =>
        /\ job.extract \in Extracts
        /\ "structure" \in DOMAIN job.out =>
              job.out.structure = StructureOutputs(job.extract, corrections).structure

LEMMA AnalysisNext == ASSUME DerivedInv, AnalysisInv, [Next]_vars PROVE AnalysisInv'
<1>1. Idle.stage = "idle"
  BY DEF Idle
<1>2. CASE AnalyzeStructure
  <2>1. PICK extract \in Extracts :
           job' = [stage |-> "structure", extract |-> extract,
                   out |-> StructureOutputs(extract, corrections)]
    BY <1>2 DEF AnalyzeStructure
  <2>2. corrections' = corrections
    BY <1>2 DEF AnalyzeStructure, humanVars
  <2>3. job'.extract = extract /\ job'.out = StructureOutputs(extract, corrections)
    BY <2>1
  <2>4. job'.extract \in Extracts
           /\ job'.out.structure = StructureOutputs(job'.extract, corrections').structure
    BY Zenon, <2>1, <2>2, <2>3
  <2>5. Extracts' = Extracts
    BY DEF Extracts
  <2> QED
    BY <2>4, <2>5 DEF AnalysisInv
<1>3. CASE EmitStructure
  <2>1. job.stage = "structure" /\ DOMAIN job = {"stage", "extract", "out"}
        /\ corrections' = corrections
    BY <1>3 DEF DerivedInv, JobOK, EmitStructure, Idle, ReconcileStages, Rejected, humanVars
  <2>2. PICK file : job' = IF DOMAIN job.out = {file} THEN Idle
                           ELSE [job EXCEPT !.out = Restrict(@, DOMAIN @ \ {file})]
    BY <1>3 DEF EmitStructure
  <2>3. CASE job' = Idle
    BY <1>1, <2>3 DEF AnalysisInv
  <2>4. CASE job' = [job EXCEPT !.out = Restrict(@, DOMAIN @ \ {file})]
    <3>1. PICK out : out = Restrict(job.out, DOMAIN job.out \ {file})
      OBVIOUS
    <3>2. job' = [job EXCEPT !.out = out]
      BY <2>4, <3>1
    <3>3. job'.extract = job.extract /\ job'.out = out
      BY <2>1, <3>2
    <3>4. "structure" \in DOMAIN out => /\ "structure" \in DOMAIN job.out
                                        /\ out.structure = job.out.structure
      BY <3>1 DEF Restrict
    <3>5. Extracts' = Extracts
      BY DEF Extracts
    <3>6. PICK nodes : nodes = StructureOutputs(job.extract, corrections).structure
      OBVIOUS
    <3>7. StructureOutputs(job'.extract, corrections').structure = nodes
      BY Zenon, <2>1, <3>3, <3>6
    <3>8. job.extract \in Extracts /\ ("structure" \in DOMAIN job.out => job.out.structure = nodes)
      BY <2>1, <3>6 DEF AnalysisInv
    <3>9. job'.extract \in Extracts
             /\ ("structure" \in DOMAIN job'.out => job'.out.structure = nodes)
      BY <3>3, <3>4, <3>8
    <3> QED
      BY Zenon, <3>5, <3>7, <3>9 DEF AnalysisInv
  <2> QED
    BY <2>2, <2>3, <2>4
<1>4. CASE UNCHANGED <<job, corrections>>
  BY <1>4 DEF AnalysisInv, Extracts
<1>5. CASE job'.stage # "structure"
  BY <1>5 DEF AnalysisInv
<1>6. CASE RecordCorrection
  BY <1>1, <1>5, <1>6 DEF RecordCorrection, Edit
<1>7. CASE WriteRegistry \/ WriteUnified
  <2>1. job.stage \in {"registry", "unified"}
    BY <1>7 DEF WriteRegistry, WriteUnified
  <2>2. "stage" \in DOMAIN job
    BY <1>1, <2>1 DEF DerivedInv, JobOK, ReconcileStages
  <2>3. PICK s : job' = [job EXCEPT !.stage = s] /\ s # "structure"
    BY <1>7 DEF WriteRegistry, WriteUnified
  <2>4. job'.stage = s
    BY <2>2, <2>3
  <2> QED
    BY <1>5, <2>3, <2>4
<1>8. CASE \/ EditAdrs \/ Decide \/ Clear \/ UNCHANGED vars
  <2>1. UNCHANGED <<job, corrections>>
    BY <1>8 DEF EditAdrs, Decide, Clear, vars, humanVars
  <2> QED
    BY <1>4, <2>1
<1>9. CASE WriteAggregates \/ WriteSitemap \/ WriteMapping \/ EndRejected \/ WriteBoundary \/ Crash
  <2>1. job' = Idle
    BY <1>9 DEF WriteAggregates, WriteSitemap, WriteMapping, EndRejected, WriteBoundary, Crash
  <2> QED
    BY <1>1, <1>5, <2>1
<1>10. CASE EmitIntent \/ Crawl \/ EmitBehavior \/ BridgeTransactions \/ StartReconcile \/ Verify
  <2>1. job'.stage # "structure"
    BY <1>10 DEF EmitIntent, Crawl, EmitBehavior, BridgeTransactions, StartReconcile, Verify
  <2> QED
    BY <1>5, <2>1
<1> QED
  BY <1>2, <1>3, <1>6, <1>7, <1>8, <1>9, <1>10 DEF Next

LEMMA AnalysisAlways == Spec => []AnalysisInv
<1>1. Init => AnalysisInv
  BY DEF Init, AnalysisInv, Idle
<1> QED
  BY <1>1, DerivedAlways, AnalysisNext, PTL DEF Spec

\* Whatever the code has become and whatever ran or crashed before, the structure
\* an analysis writes shows every correction none of whose names a later one is
\* about, of an entity it found told once at most.
THEOREM SpineCorrectionsShow == Spec => CorrectionsShow
<1> DEFINE Emits == job.stage = "structure" /\ disk'.structure # disk.structure =>
                       \A i \in DOMAIN corrections :
                           Untouched(i) /\ ToldOnce(Found(i), corrections[i].entity) =>
                               Shows(corrections[i], Found(i), disk'.structure)
<1>1. ASSUME DerivedInv, LayersInv, AnalysisInv, [Next]_vars PROVE Emits
  <2> SUFFICES ASSUME job.stage = "structure", disk'.structure # disk.structure,
                      NEW i \in DOMAIN corrections,
                      Untouched(i), ToldOnce(Found(i), corrections[i].entity)
               PROVE  Shows(corrections[i], Found(i), disk'.structure)
    OBVIOUS
  <2>1. EmitStructure
    <3>1. job.stage # "idle" /\ Idle.stage = "idle"
      BY DEF Idle
    <3>2. ~Edit /\ ~StartReconcile /\ ~Verify
      BY <3>1 DEF Edit, StartReconcile, Verify
    <3>3. ~UNCHANGED disk
      OBVIOUS
    <3>4. ~Crash /\ ~UNCHANGED vars
      BY <3>3 DEF Crash, vars
    <3> QED
      BY <1>1, <3>2, <3>4
         DEF Next, EditAdrs, Decide, RecordCorrection, EmitIntent, AnalyzeStructure, Crawl, Clear,
             WriteAggregates, EmitBehavior, BridgeTransactions, WriteSitemap, WriteRegistry,
             WriteUnified, WriteMapping, EndRejected, WriteBoundary
  <2>2. "structure" \in DOMAIN job.out /\ disk'.structure = job.out.structure
    <3>1. "structure" \in DOMAIN disk
      BY <1>1 DEF DerivedInv, FilesOK, emptyDisk
    <3>2. PICK file \in DOMAIN job.out : disk' = [disk EXCEPT ![file] = job.out[file]]
      BY <2>1 DEF EmitStructure
    <3> QED
      BY <3>1, <3>2
  <2>3. PICK extract : extract = job.extract /\ ExtractShape(extract)
    BY <1>1, ShapesAssumption DEF AnalysisInv
  <2>4. PICK made \in Seq(Correction) : made = corrections
    BY <1>1 DEF LayersInv
  <2>5. PICK out, touched : /\ out = applyCorrections(extract, made).extract
                            /\ touched = applyCorrections(extract, made).corrected
    OBVIOUS
  <2>6. disk'.structure = emitStructureNodes(out, touched)
    <3>1. disk'.structure = StructureOutputs(job.extract, corrections).structure
      BY <1>1, <2>2 DEF AnalysisInv
    <3>2. StructureOutputs(extract, made).structure = emitStructureNodes(out, touched)
      BY <2>5 DEF StructureOutputs
    <3> QED
      BY Zenon, <2>3, <2>4, <3>1, <3>2
  <2>7. EntitiesTold(disk'.structure, out, touched)
    <3>1. /\ out.entities \in Seq(Entity) /\ IsSequence(out.routes)
          /\ IsSequence(out.events) /\ IsSequence(out.transitions)
      BY <2>3, <2>5, CorrectedIs DEF ExtractShape
    <3>2. EntitiesTold(emitStructureNodes(out, touched), out, touched)
      BY <3>1, StructureEmitted
    <3> QED
      BY Zenon, <2>6, <3>2
  <2>8. PICK found : found = Overlaid(extract, made)[i - 1].entities
    OBVIOUS
  <2>9. Found(i) = found
    BY Zenon, <2>3, <2>4, <2>8 DEF Found
  <2>10. /\ i \in DOMAIN made /\ made[i] \in Correction /\ ToldOnce(found, made[i].entity)
         /\ \A j \in DOMAIN made :
               j > i => About(made[j]) \cap (About(made[i]) \cup ToSet(made[i].dependsOn)) = {}
    BY <2>4, <2>9 DEF Untouched
  <2>11. Stands(made[i], found, out.entities, out.overrides)
    BY <2>3, <2>5, <2>8, <2>10, StandsForever
  <2>12. Shows(made[i], found, disk'.structure)
    BY <2>7, <2>10, <2>11, ShownIs
  <2> QED
    BY Zenon, <2>4, <2>9, <2>12
<1>2. DerivedInv /\ LayersInv /\ AnalysisInv /\ [Next]_vars => [Emits]_vars
  BY <1>1
<1> QED
  BY <1>2, SpineAlways, AnalysisAlways, PTL DEF Spec, SpineInv, CorrectionsShow

-------------------------------------------------------------------------------
(* The intent menu.                                                          *)

\* A position in a sequence, or 0.
LEMMA PositionIs ==
    ASSUME NEW n \in Nat, NEW I \in SUBSET (1..n)
    PROVE  /\ (IF I # {} THEN Min(I) ELSE 0) \in 0..n
           /\ (IF I # {} THEN Max(I) ELSE 0) \in 0..n
<1>1. CASE I = {}
  BY <1>1
<1>2. CASE I # {}
  <2>1. Max(I) \in I
    BY <1>2, MaxIs
  <2>2. Min(I) \in I
    <3>1. I \in SUBSET Nat
      OBVIOUS
    <3>2. \E x \in I : \A y \in I : x <= y
      BY <1>2, <3>1, LeastNat
    <3> QED
      BY <3>2 DEF Min
  <2>3. \A x \in I : x \in 0..n
    OBVIOUS
  <2>4. Max(I) \in 0..n /\ Min(I) \in 0..n
    BY <2>1, <2>2, <2>3
  <2> QED
    BY Zenon, <1>2, <2>4
<1> QED
  BY <1>1, <1>2

LEMMA AggregateIs ==
    ASSUME NEW aggregates, IsSequence(aggregates), NEW id, NEW entity
    PROVE  AggregateOf(id, entity, aggregates) \in 0..Len(aggregates)
<1>1. PICK k \in Nat : k = Len(aggregates)
  BY SequenceIs
<1> DEFINE names(a) == {a.name} \cup {m.name : m \in ToSet(a.members)}
           E == {i \in 1..k : \E n \in names(aggregates[i]) : Letters[n] = Letters[entity]}
           P == {i \in 1..k : \E n \in names(aggregates[i]) :
                                 AlikeLetters(Letters[n], Letters[entity])}
           R == {i \in 1..k : aggregates[i].conceptId = id}
           M == {i \in 1..k : \E m \in ToSet(aggregates[i].members) : m.conceptId = id}
           exact == IF E # {} THEN Min(E) ELSE 0
           partial == IF P # {} THEN Min(P) ELSE 0
           root == IF R # {} THEN Max(R) ELSE 0
           member == IF M # {} THEN Min(M) ELSE 0
<1>2. bestNameMatch(entity, aggregates) = IF exact # 0 THEN exact ELSE partial
  BY <1>1 DEF bestNameMatch, SelectInSeq
<1>3. AggregateOf(id, entity, aggregates)
        = IF root # 0 THEN root
          ELSE IF member # 0 THEN member ELSE bestNameMatch(entity, aggregates)
  BY <1>1 DEF AggregateOf, SelectInSeq, SelectLastInSeq
<1>4. /\ E \in SUBSET (1..k) /\ P \in SUBSET (1..k)
      /\ R \in SUBSET (1..k) /\ M \in SUBSET (1..k)
  OBVIOUS
<1> HIDE DEF E, P, R, M
<1>5. exact \in 0..k /\ partial \in 0..k /\ root \in 0..k /\ member \in 0..k
  BY <1>4, PositionIs
<1> HIDE DEF exact, partial, root, member
<1> QED
  BY <1>1, <1>2, <1>3, <1>5

\* The place of an entity is an aggregate of the roster or among the unassigned.
LEMMA PlacedInRoster ==
    ASSUME NEW aggregates, IsSequence(aggregates), NEW id, NEW n
    PROVE  PlaceOf(id, n, aggregates).aggregate
              \in {aggregates[i].conceptId : i \in DOMAIN aggregates} \cup {NoId}
<1>1. PICK at : at = AggregateOf(id, n.localName, aggregates)
  OBVIOUS
<1>2. at \in 0..Len(aggregates)
  BY <1>1, AggregateIs
<1>3. PlaceOf(id, n, aggregates).aggregate = IF at = 0 THEN NoId ELSE aggregates[at].conceptId
  BY <1>1 DEF PlaceOf
<1>4. DOMAIN aggregates = 1..Len(aggregates) /\ Len(aggregates) \in Nat
  BY SequenceIs
<1> QED
  BY <1>2, <1>3, <1>4

\* Where a mapping places an entity, and where the menu shows it.
PlacesOf(mapping, node) == {p \in mapping : p.node = node}

ShownPlaces(files, node) ==
    LET menu == joinIntentModel(files)
        holders == {a \in ToSet(menu.aggregates) : \E p \in a.entities : p.node = node}
    IN {a.conceptId : a \in holders} \cup {NoId : p \in {p \in menu.unassigned : p.node = node}}

\* An entity that is placed once, in the roster or out of it, has one place in the menu.
LEMMA MenuIs ==
    ASSUME NEW files, NEW roster, files.aggregates = <<roster>>, IsSequence(roster),
           NEW mapping, files.mapping = <<mapping>>, NEW node,
           Cardinality(PlacesOf(mapping, node)) = 1, IsFiniteSet(PlacesOf(mapping, node)),
           \A p \in mapping :
              p.aggregate \in {roster[i].conceptId : i \in DOMAIN roster} \cup {NoId}
    PROVE  Cardinality(ShownPlaces(files, node)) = 1
<1> DEFINE inside(id) == {p \in mapping : p.aggregate = id}
           of(i) == [conceptId |-> roster[i].conceptId, members |-> roster[i].members,
                     entities |-> inside(roster[i].conceptId)]
           menu == joinIntentModel(files)
           holders == {a \in ToSet(menu.aggregates) : \E p \in a.entities : p.node = node}
           places == {a.conceptId : a \in holders}
                     \cup {NoId : p \in {p \in menu.unassigned : p.node = node}}
<1>1. PICK q : {p \in mapping : p.node = node} = {q}
  BY FS_Singleton DEF PlacesOf
<1>2. ContentOr(files.mapping, {}) = mapping /\ ContentOr(files.aggregates, <<>>) = roster
  BY DEF ContentOr
<1>3. PICK events, transitions : joinIntentModel(files)
         = [events |-> events, transitions |-> transitions,
            aggregates |-> [i \in DOMAIN roster |-> of(i)], unassigned |-> inside(NoId)]
  <2>1. joinIntentModel(files)
          = [events |-> OfKind(files.intent, "intent:event"),
             transitions |-> OfKind(files.intent, "intent:transition"),
             aggregates |-> [i \in DOMAIN roster |-> of(i)], unassigned |-> inside(NoId)]
    BY Zenon, <1>2 DEF joinIntentModel, MapSeq
  <2> HIDE DEF of, inside
  <2> QED
    BY <2>1
<1>4. menu.aggregates = [i \in DOMAIN roster |-> of(i)] /\ menu.unassigned = inside(NoId)
  <2> HIDE DEF of, inside
  <2> QED
    BY <1>3
<1>5. \A a : a \in ToSet(menu.aggregates) <=> \E i \in DOMAIN roster : a = of(i)
  <2> HIDE DEF of, inside, menu
  <2> QED
    BY <1>4 DEF ToSet
<1>6. \A id : (\E p \in inside(id) : p.node = node) <=> q.aggregate = id
  BY <1>1
<1>7. \A i \in DOMAIN roster : of(i) \in holders <=> q.aggregate = roster[i].conceptId
  <2>1. \A i : of(i).entities = inside(roster[i].conceptId)
    OBVIOUS
  <2> HIDE DEF of, inside, menu
  <2> QED
    BY <1>5, <1>6, <2>1
<1>8. \A c : (\E a \in holders : c = a.conceptId)
                <=> c = q.aggregate /\ \E i \in DOMAIN roster : c = roster[i].conceptId
  <2>1. \A i : of(i).conceptId = roster[i].conceptId
    OBVIOUS
  <2>2. \A a \in holders : \E i \in DOMAIN roster : a = of(i)
    <3> HIDE DEF menu, of
    <3> QED
      BY <1>5
  <2> HIDE DEF of, holders
  <2> QED
    BY <1>7, <2>1, <2>2
<1>9. \A c : c \in {NoId : p \in {p \in menu.unassigned : p.node = node}}
                <=> c = NoId /\ q.aggregate = NoId
  <2> HIDE DEF menu, inside
  <2> QED
    BY <1>4, <1>6
<1>10. q.aggregate \in {roster[i].conceptId : i \in DOMAIN roster} \cup {NoId}
  BY <1>1
<1>11. places = {q.aggregate}
  <2>1. \A c : c \in places <=> \/ \E a \in holders : c = a.conceptId
                                \/ c \in {NoId : p \in {p \in menu.unassigned : p.node = node}}
    <3> HIDE DEF holders, menu
    <3> QED
      OBVIOUS
  <2> HIDE DEF places, holders, menu
  <2> QED
    BY <1>8, <1>9, <1>10, <2>1
<1>12. ShownPlaces(files, node) = places
  BY Zenon DEF ShownPlaces
<1> HIDE DEF places
<1> QED
  BY <1>11, <1>12, FS_Singleton

-------------------------------------------------------------------------------
(* The traffic.                                                              *)

\* To normalize a route again changes nothing.
LEMMA NormalizedOnce ==
    ASSUME NEW route, route.path \in Seq(DOMAIN Lower),
           route = [method |-> route.method, path |-> route.path]
    PROVE  normalizeRoute(normalizeRoute(route)) = normalizeRoute(route)
<1> DEFINE Segment(s) == IF Lower[s] \in ParamSegment THEN ":id" ELSE Lower[s]
<1>1. \A r : normalizeRoute(r) = [method |-> r.method,
                                  path |-> [i \in DOMAIN r.path |-> Segment(r.path[i])]]
  BY DEF normalizeRoute
<1>2. \A s \in DOMAIN Lower : Segment(Segment(s)) = Segment(s)
  BY NamesAssumption
<1> HIDE DEF Segment
<1>3. PICK path : path = [i \in DOMAIN route.path |-> Segment(route.path[i])]
  OBVIOUS
<1>4. normalizeRoute(route) = [method |-> route.method, path |-> path]
  BY <1>1, <1>3
<1>5. normalizeRoute(normalizeRoute(route))
        = [method |-> route.method, path |-> [i \in DOMAIN path |-> Segment(path[i])]]
  BY <1>1, <1>4
<1>6. [i \in DOMAIN path |-> Segment(path[i])] = path
  <2>1. \A i \in DOMAIN route.path : route.path[i] \in DOMAIN Lower
    OBVIOUS
  <2>2. DOMAIN path = DOMAIN route.path
    BY <1>3
  <2>3. \A i \in DOMAIN path : Segment(path[i]) = path[i]
    BY <1>2, <1>3, <2>1, <2>2
  <2>4. path = [i \in DOMAIN path |-> path[i]]
    BY <1>3
  <2> QED
    BY <2>3, <2>4
<1> QED
  BY <1>4, <1>5, <1>6

\* The verdict of an emitted mutation is that of its route.
TransactionOf(n, tx, results) ==
    /\ n.raw.kind = "transaction" /\ n.nodeId[1] = "behavior:tx" /\ n.route = TxKey(tx)
    /\ "persisted" \in DOMAIN n => n.persisted = annotatePersistence(n.route, results[1])

\* A page or a transition is a visit without a verdict; a node of a mutation
\* tells a recorded one, and every recorded one is told.
BehaviorTold(nodes, txs, results) ==
    /\ \A n \in ToSet(nodes) :
          \/ /\ n.raw.kind \in {"page", "transition"} /\ n.route.method = "GET"
             /\ n.nodeId[1] # "behavior:tx" /\ "persisted" \notin DOMAIN n
          \/ \E tx \in ToSet(txs) : TransactionOf(n, tx, results)
    /\ \A tx \in ToSet(txs) : tx.method \in Mutating =>
          \E n \in ToSet(nodes) : TransactionOf(n, tx, results)

LEMMA TransactionIs ==
    ASSUME NEW tx, NEW saved, NEW results
    PROVE  TransactionOf(transactionNode(tx, saved, results), tx, results)
<1>1. PICK key : key = TxKey(tx)
  OBVIOUS
<1> DEFINE node ==
      [nodeId |-> <<"behavior:tx", key, tx.seq>>, route |-> key, seq |-> tx.seq,
       raw |-> [kind |-> "transaction", ok |-> tx.ok,
                saved |-> IF key \in DOMAIN saved THEN <<saved[key]>> ELSE <<>>]]
<1>2. \/ transactionNode(tx, saved, results) = node
      \/ transactionNode(tx, saved, results)
           = Over([persisted |-> annotatePersistence(key, results[1])], node)
  BY Zenon, <1>1 DEF transactionNode, TxKey
<1>3. TransactionOf(node, tx, results)
  BY <1>1 DEF TransactionOf
<1>4. \A x : LET n == Over([persisted |-> x], node)
             IN /\ n.raw = node.raw /\ n.nodeId = node.nodeId /\ n.route = node.route
                /\ n.persisted = x
  BY DEF Over
<1>5. node.route = key
  OBVIOUS
<1> HIDE DEF node
<1>6. PICK verdict : verdict = annotatePersistence(key, results[1])
  OBVIOUS
<1>7. PICK n : n = Over([persisted |-> verdict], node)
  OBVIOUS
<1>8. TransactionOf(n, tx, results)
  BY <1>3, <1>4, <1>5, <1>6, <1>7 DEF TransactionOf
<1> QED
  BY <1>2, <1>3, <1>6, <1>7, <1>8

LEMMA EmittedBehavior ==
    ASSUME NEW report, IsSequence(report.pages), IsSequence(report.transitions),
           NEW txs, IsSequence(txs), NEW saved, NEW results
    PROVE  BehaviorTold(emitBehaviorAll(report, txs, saved, results), txs, results)
<1> DEFINE a == MapSeq(report.pages, pageNode)
           b == MapSeq(report.transitions, behaviorTransitionNode)
           sent == Only(txs, {tx \in ToSet(txs) : tx.method \in Mutating})
           c == MapSeq(sent, LAMBDA tx : transactionNode(tx, saved, results))
           IsVisit(n) == /\ n.raw.kind \in {"page", "transition"} /\ n.route.method = "GET"
                         /\ n.nodeId[1] # "behavior:tx" /\ "persisted" \notin DOMAIN n
<1>1. IsSequence(a) /\ \A n \in ToSet(a) : IsVisit(n)
  <2>1. a = [i \in DOMAIN report.pages |-> pageNode(report.pages[i])]
    BY Zenon DEF MapSeq
  <2>2. \A p : IsVisit(pageNode(p))
    BY DEF pageNode, Visit
  <2> HIDE DEF a, IsVisit
  <2>3. IsSequence(a) /\ \A x \in ToSet(a) : \E i \in DOMAIN report.pages : x = a[i]
    BY <2>1, MapIs
  <2> QED
    BY <2>1, <2>2, <2>3
<1>2. IsSequence(b) /\ \A n \in ToSet(b) : IsVisit(n)
  <2>1. b = [i \in DOMAIN report.transitions |-> behaviorTransitionNode(report.transitions[i])]
    BY Zenon DEF MapSeq
  <2>2. \A t : IsVisit(behaviorTransitionNode(t))
    BY DEF behaviorTransitionNode, Visit
  <2> HIDE DEF b, IsVisit
  <2>3. IsSequence(b) /\ \A x \in ToSet(b) : \E i \in DOMAIN report.transitions : x = b[i]
    BY <2>1, MapIs
  <2> QED
    BY <2>1, <2>2, <2>3
<1>3. /\ IsSequence(c)
      /\ \A n \in ToSet(c) : \E tx \in ToSet(txs) : TransactionOf(n, tx, results)
      /\ \A tx \in ToSet(txs) : tx.method \in Mutating =>
            \E n \in ToSet(c) : TransactionOf(n, tx, results)
  <2>1. c = [i \in DOMAIN sent |-> transactionNode(sent[i], saved, results)]
    BY Zenon DEF MapSeq
  <2>2. IsSequence(sent) /\ ToSet(sent) = ToSet(txs) \cap {tx \in ToSet(txs) : tx.method \in Mutating}
    BY OnlyOf
  <2> HIDE DEF c, sent
  <2>3. IsSequence(c) /\ \A x \in ToSet(c) : \E i \in DOMAIN sent : x = c[i]
    BY <2>1, <2>2, MapIs
  <2>4. \A i \in DOMAIN sent : sent[i] \in ToSet(txs)
    BY <2>2 DEF ToSet
  <2>5. \A i \in DOMAIN sent : TransactionOf(c[i], sent[i], results) /\ c[i] \in ToSet(c)
    <3>1. \A i \in DOMAIN sent : c[i] \in ToSet(c)
      BY <2>1 DEF ToSet
    <3>2. \A i \in DOMAIN sent : c[i] = transactionNode(sent[i], saved, results)
      BY <2>1
    <3> QED
      BY <3>1, <3>2, TransactionIs
  <2>6. \A tx \in ToSet(txs) : tx.method \in Mutating => \E i \in DOMAIN sent : sent[i] = tx
    BY <2>2 DEF ToSet
  <2> QED
    BY <2>3, <2>4, <2>5, <2>6
<1>4. emitBehaviorAll(report, txs, saved, results) = a \o b \o c
  BY Zenon DEF emitBehaviorAll
<1> HIDE DEF a, b, c
<1>5. IsSequence(a \o b) /\ ToSet(a \o b) = ToSet(a) \cup ToSet(b)
  BY <1>1, <1>2, ConcatIs
<1>6. IsSequence(a \o b \o c) /\ ToSet(a \o b \o c) = ToSet(a \o b) \cup ToSet(c)
  BY <1>3, <1>5, ConcatIs
<1>7. PICK nodes : nodes = emitBehaviorAll(report, txs, saved, results)
  OBVIOUS
<1>8. /\ \A n \in ToSet(nodes) : IsVisit(n) \/ \E tx \in ToSet(txs) : TransactionOf(n, tx, results)
      /\ \A tx \in ToSet(txs) : tx.method \in Mutating =>
            \E n \in ToSet(nodes) : TransactionOf(n, tx, results)
  <2> HIDE DEF IsVisit
  <2> QED
    BY <1>1, <1>2, <1>3, <1>4, <1>5, <1>6, <1>7
<1>9. BehaviorTold(nodes, txs, results)
  BY Zenon, <1>8 DEF BehaviorTold
<1> QED
  BY <1>7, <1>9

\* The last of the nodes of a route.
LEMMA LastRouted ==
    ASSUME NEW nodes, IsSequence(nodes), NEW key, key \in {n.route : n \in ToSet(nodes)}
    PROVE  LET last == SelectLastInSeq(nodes, LAMBDA n : n.route = key)
           IN nodes[last] \in ToSet(nodes) /\ nodes[last].route = key
<1>1. PICK node \in ToSet(nodes) : key = node.route
  OBVIOUS
<1> DEFINE I == {j \in 1..Len(nodes) : nodes[j].route = key}
<1>2. SelectLastInSeq(nodes, LAMBDA n : n.route = key) = IF I # {} THEN Max(I) ELSE 0
  BY DEF SelectLastInSeq
<1>3. PICK n : n = Len(nodes) /\ n \in Nat /\ DOMAIN nodes = 1..n
               /\ \A i \in 1..n : nodes[i] \in ToSet(nodes)
  BY SequenceIs
<1>4. I \in SUBSET (1..n) /\ I # {}
  <2>1. PICK i \in DOMAIN nodes : nodes[i] = node
    BY DEF ToSet
  <2>2. i \in I
    BY <1>1, <1>3, <2>1
  <2> QED
    BY <1>3, <2>2
<1>5. Max(I) \in I
  <2> HIDE DEF I
  <2> QED
    BY <1>3, <1>4, MaxIs
<1> QED
  BY <1>1, <1>2, <1>3, <1>4, <1>5

\* The verdicts the viewer reads are those of the nodes.
LEMMA VerdictsAre ==
    ASSUME NEW behavior, IsSequence(behavior), NEW txs, NEW results,
           BehaviorTold(behavior, txs, results)
    PROVE  LET read == extractTxPersistence(behavior)
               judged(key) == {n.persisted : n \in {n \in ToSet(behavior) :
                                  n.route = key /\ "persisted" \in DOMAIN n}}
           IN \A key : judged(key) = IF key \in DOMAIN read THEN {read[key]} ELSE {}
<1> DEFINE Verdict(key) == annotatePersistence(key, results[1])
           set == {n \in ToSet(behavior) : n.nodeId[1] = "behavior:tx"
                                           /\ "persisted" \in DOMAIN n}
           all == Only(behavior, set)
           last(key) == SelectLastInSeq(all, LAMBDA n : n.route = key)
           read == extractTxPersistence(behavior)
           judged(key) == {n.persisted : n \in {n \in ToSet(behavior) :
                              n.route = key /\ "persisted" \in DOMAIN n}}
<1>1. read = [key \in {n.route : n \in ToSet(all)} |-> all[last(key)].persisted]
  BY Zenon DEF extractTxPersistence
<1>2. IsSequence(all) /\ ToSet(all) = set
  <2>1. PICK s : s = set
    OBVIOUS
  <2>2. IsSequence(Only(behavior, s)) /\ ToSet(Only(behavior, s)) = ToSet(behavior) \cap s
    BY OnlyOf
  <2> QED
    BY <2>1, <2>2
<1>3. ASSUME NEW n \in ToSet(behavior), "persisted" \in DOMAIN n
      PROVE  n \in set /\ n.persisted = Verdict(n.route)
  <2>1. PICK tx : TransactionOf(n, tx, results)
    BY <1>3 DEF BehaviorTold
  <2> QED
    BY <1>3, <2>1 DEF TransactionOf
<1>4. \A key : key \in {n.route : n \in ToSet(all)}
         => all[last(key)] \in set /\ all[last(key)].route = key
  <2> HIDE DEF all, set
  <2>1. ASSUME NEW key, key \in {n.route : n \in ToSet(all)}
        PROVE  all[last(key)] \in ToSet(all) /\ all[last(key)].route = key
    BY <1>2, <2>1, LastRouted
  <2> QED
    BY <1>2, <2>1
<1> HIDE DEF read, last, all
<1>5. ASSUME NEW key PROVE judged(key) = IF key \in DOMAIN read THEN {read[key]} ELSE {}
  <2>1. key \in DOMAIN read <=> \E n \in set : n.route = key
    BY <1>1, <1>2
  <2>2. key \in DOMAIN read => read[key] = Verdict(key)
    <3>1. SUFFICES ASSUME key \in DOMAIN read PROVE read[key] = Verdict(key)
      OBVIOUS
    <3>2. key \in {n.route : n \in ToSet(all)} /\ read[key] = all[last(key)].persisted
      BY <1>1, <3>1
    <3>3. all[last(key)] \in set /\ all[last(key)].route = key
      BY <1>4, <3>2
    <3>4. all[last(key)].persisted = Verdict(all[last(key)].route)
      <4>1. PICK n : n = all[last(key)]
        OBVIOUS
      <4> HIDE DEF Verdict
      <4> QED
        BY <1>3, <3>3, <4>1
    <3> HIDE DEF Verdict
    <3> QED
      BY <3>2, <3>3, <3>4
  <2>3. \A v : v \in judged(key) <=> v = Verdict(key) /\ \E n \in set : n.route = key
    <3>1. \A v : v \in judged(key) <=> \E n \in ToSet(behavior) :
                     n.route = key /\ "persisted" \in DOMAIN n /\ v = n.persisted
      OBVIOUS
    <3>2. \A n : n \in set => n \in ToSet(behavior) /\ "persisted" \in DOMAIN n
      OBVIOUS
    <3> HIDE DEF judged, Verdict, set
    <3> QED
      BY <1>3, <3>1, <3>2
  <2> HIDE DEF judged, Verdict, set
  <2> QED
    BY <2>1, <2>2, <2>3
<1> QED
  BY <1>5 DEF read

\* What was recorded is shown where the boundary saw the route on both sides.
LEMMA TrafficIs ==
    ASSUME NEW files, IsSequence(files.structure), IsSequence(files.behavior),
           NEW txs, IsSequence(txs), files.transactions = <<txs>>,
           \A tx \in ToSet(txs) : tx.path \in Seq(DOMAIN Lower),
           NEW results, BehaviorTold(files.behavior, txs, results),
           files.boundary = <<buildBoundaryReport(files.structure, files.behavior)>>
    PROVE  TrafficAgreesWithBoundary(files)
<1>1. PICK routes, read, structure, behavior :
         /\ structure = files.structure /\ behavior = files.behavior
         /\ routes = extractStructureRoutes(structure)
         /\ read = extractTxPersistence(behavior)
  OBVIOUS
<1>2. IsSequence(routes) /\ ToSet(routes) = RouteNodes(structure)
  <2>1. PICK set : set = RouteNodes(structure)
    OBVIOUS
  <2>2. IsSequence(Only(structure, set)) /\ ToSet(Only(structure, set)) = ToSet(structure) \cap set
    BY <1>1, OnlyOf
  <2> QED
    BY <1>1, <2>1, <2>2 DEF extractStructureRoutes, RouteNodes
<1> DEFINE traffic == buildTrafficModel(files).routes
           Known(key) == \E r \in RouteNodes(structure) : KeyOf(r) = key
           Sent(key) == \E t \in ToSet(txs) : TxKey(t) = key
           judged(key) == {n.persisted : n \in {n \in ToSet(behavior) :
                              n.route = key /\ "persisted" \in DOMAIN n}}
<1>3. traffic = joinTrafficRoutes(routes, txs, read)
  <2>1. ContentOr(files.transactions, <<>>) = txs
    BY DEF ContentOr
  <2>2. PICK pages : buildTrafficModel(files)
           = [routes |-> joinTrafficRoutes(routes, ContentOr(files.transactions, <<>>), read),
              pages |-> pages]
    BY Zenon, <1>1 DEF buildTrafficModel
  <2> QED
    BY <2>1, <2>2
<1>4. /\ \A key : key \in DOMAIN traffic <=> Known(key) /\ Sent(key)
      /\ \A key \in DOMAIN traffic :
            traffic[key].persisted = IF key \in DOMAIN read THEN <<read[key]>> ELSE <<>>
  <2> DEFINE keys == {KeyOf(r) : r \in ToSet(routes)} \cap {TxKey(t) : t \in ToSet(txs)}
             entry(key) == [route |-> routes[SelectInSeq(routes, LAMBDA r : KeyOf(r) = key)].route,
                            txs |-> Only(txs, {t \in ToSet(txs) : TxKey(t) = key}),
                            persisted |-> IF key \in DOMAIN read THEN <<read[key]>> ELSE <<>>]
  <2>1. traffic = [key \in keys |-> entry(key)]
    <3>1. joinTrafficRoutes(routes, txs, read) = [key \in keys |-> entry(key)]
      BY Zenon DEF joinTrafficRoutes
    <3> QED
      BY Zenon, <1>3, <3>1
  <2>2. \A key : entry(key).persisted = IF key \in DOMAIN read THEN <<read[key]>> ELSE <<>>
    OBVIOUS
  <2>3. \A key : key \in keys <=> Known(key) /\ Sent(key)
    BY <1>2
  <2> HIDE DEF traffic, keys, entry, Known, Sent
  <2> QED
    BY <2>1, <2>2, <2>3
<1>5. \A key : key.method \in Mutating =>
         (Sent(key) <=> \E n \in Visits(behavior) : KeyOf(n) = key)
  <2> SUFFICES ASSUME NEW key, key.method \in Mutating
               PROVE  Sent(key) <=> \E n \in Visits(behavior) : KeyOf(n) = key
    OBVIOUS
  <2>1. BehaviorTold(behavior, txs, results)
    BY <1>1
  <2>2. ASSUME NEW tx \in ToSet(txs), NEW n, TransactionOf(n, tx, results)
        PROVE  KeyOf(n) = TxKey(tx)
    <3>1. PICK route : route = [method |-> tx.method, path |-> tx.path]
      OBVIOUS
    <3>2. route.path \in Seq(DOMAIN Lower)
          /\ route = [method |-> route.method, path |-> route.path]
      BY <3>1
    <3>3. normalizeRoute(normalizeRoute(route)) = normalizeRoute(route)
      BY <3>2, NormalizedOnce
    <3> QED
      BY <2>2, <3>1, <3>3 DEF TransactionOf, TxKey, KeyOf
  <2>3. ASSUME NEW tx \in ToSet(txs), TxKey(tx) = key
        PROVE  \E n \in Visits(behavior) : KeyOf(n) = key
    <3>1. tx.method \in Mutating
      BY <2>3 DEF TxKey, normalizeRoute
    <3>2. PICK n \in ToSet(behavior) : TransactionOf(n, tx, results)
      BY <2>1, <3>1 DEF BehaviorTold
    <3>3. n \in Visits(behavior)
      BY <3>2 DEF Visits, TransactionOf
    <3> QED
      BY <2>2, <2>3, <3>2, <3>3
  <2>4. ASSUME NEW n \in Visits(behavior), KeyOf(n) = key PROVE Sent(key)
    <3>1. n.route.method = key.method
      BY <2>4 DEF KeyOf, normalizeRoute
    <3>2. PICK tx \in ToSet(txs) : TransactionOf(n, tx, results)
      BY <2>1, <3>1 DEF BehaviorTold, Visits, Mutating
    <3> QED
      BY <2>2, <2>4, <3>2
  <2> QED
    BY <2>3, <2>4
<1>6. \A b \in files.boundary[1].routes :
         /\ b.structure <=> Known(b.route)
         /\ b.behavior <=> \E n \in Visits(behavior) : KeyOf(n) = b.route
  <2>1. files.boundary[1] = buildBoundaryReport(structure, behavior)
    BY <1>1
  <2> QED
    BY <1>1, <2>1, BoundaryIs
<1>7. \A key : judged(key) = IF key \in DOMAIN read THEN {read[key]} ELSE {}
  BY <1>1, VerdictsAre
<1> HIDE DEF traffic, Known, Sent, judged
<1>8. \A b \in files.boundary[1].routes : b.route.method \in Mutating =>
         (b.route \in DOMAIN traffic <=> b.structure /\ b.behavior)
  BY <1>4, <1>5, <1>6
<1>9. \A key \in DOMAIN traffic : ToSet(traffic[key].persisted) = judged(key)
  <2>1. \A x : ToSet(<<x>>) = {x}
    BY DEF ToSet
  <2>2. ToSet(<<>>) = {}
    BY DEF ToSet
  <2> QED
    BY <1>4, <1>7, <2>1, <2>2
<1> QED
  BY <1>1, <1>8, <1>9 DEF TrafficAgreesWithBoundary, traffic, judged

-------------------------------------------------------------------------------
(* The diff.                                                                 *)

\* An event a route is traced to is an event of the structure.
EventsTold(nodes) ==
    \A n \in RouteNodes(nodes) : \A e \in n.raw.events :
        \E m \in ToSet(nodes) : m.nodeId[1] = "structure:event" /\ m.localName = e

LEMMA EventsEmitted ==
    ASSUME NEW extract, NEW corrected, extract.entities \in Seq(Entity),
           IsSequence(extract.routes), IsSequence(extract.events), IsSequence(extract.transitions),
           \A r \in ToSet(extract.routes) : r.events \subseteq {e.name : e \in ToSet(extract.events)}
    PROVE  EventsTold(emitStructureNodes(extract, corrected))
<1> DEFINE a == MapSeq(extract.routes, LAMBDA r : routeNode(r, extract))
           distinct == Distinct(extract.entities)
           b == MapSeq(distinct, LAMBDA e : entityNode(e, extract, corrected))
           c == MapSeq(extract.events, structureEventNode)
           d == MapSeq(extract.transitions, structureTransitionNode)
<1>1. /\ IsSequence(a)
      /\ \A n \in ToSet(a) : \E r \in ToSet(extract.routes) : n.raw.events = r.events
  <2>1. a = [i \in DOMAIN extract.routes |-> routeNode(extract.routes[i], extract)]
    BY Zenon DEF MapSeq
  <2>2. \A r : routeNode(r, extract).raw.events = r.events
    <3> SUFFICES ASSUME NEW r PROVE routeNode(r, extract).raw.events = r.events
      OBVIOUS
    <3>1. PICK anchor : anchor = RouteAnchor(extract, RouteKey(r))
      OBVIOUS
    <3>2. routeNode(r, extract)
             = [nodeId |-> <<"structure:route", RouteKey(r)>>, route |-> RouteKey(r),
                raw |-> [kind |-> "route", entity |-> anchor.entity, crud |-> anchor.crud,
                         inputs |-> r.inputs, events |-> r.events]]
      BY Zenon, <3>1 DEF routeNode
    <3> QED
      BY <3>2
  <2>3. \A i \in DOMAIN extract.routes : extract.routes[i] \in ToSet(extract.routes)
    BY DEF ToSet
  <2> HIDE DEF a
  <2>4. IsSequence(a) /\ \A x \in ToSet(a) : \E i \in DOMAIN extract.routes : x = a[i]
    BY <2>1, MapIs
  <2> QED
    BY <2>1, <2>2, <2>3, <2>4
<1>2. IsSequence(b) /\ \A n \in ToSet(b) : n.raw.kind = "entity"
  <2>1. b = [i \in DOMAIN distinct |-> entityNode(distinct[i], extract, corrected)]
    BY Zenon DEF MapSeq
  <2>2. \A e : entityNode(e, extract, corrected).raw.kind = "entity"
    BY DEF entityNode
  <2>3. IsSequence(distinct)
    BY DistinctIs
  <2> HIDE DEF b, distinct
  <2>4. IsSequence(b) /\ \A x \in ToSet(b) : \E i \in DOMAIN distinct : x = b[i]
    BY <2>1, <2>3, MapIs
  <2> QED
    BY <2>1, <2>2, <2>4
<1>3. /\ IsSequence(c) /\ \A n \in ToSet(c) : n.raw.kind = "event"
      /\ \A e \in ToSet(extract.events) :
            \E m \in ToSet(c) : m.nodeId[1] = "structure:event" /\ m.localName = e.name
  <2>1. c = [i \in DOMAIN extract.events |-> structureEventNode(extract.events[i])]
    BY Zenon DEF MapSeq
  <2>2. \A e : /\ structureEventNode(e).raw.kind = "event"
               /\ structureEventNode(e).nodeId[1] = "structure:event"
               /\ structureEventNode(e).localName = e.name
    BY DEF structureEventNode
  <2> HIDE DEF c
  <2>3. IsSequence(c) /\ \A x \in ToSet(c) : \E i \in DOMAIN extract.events : x = c[i]
    BY <2>1, MapIs
  <2>4. \A i \in DOMAIN extract.events : c[i] \in ToSet(c)
    BY <2>1 DEF ToSet
  <2>5. \A e \in ToSet(extract.events) : \E i \in DOMAIN extract.events : e = extract.events[i]
    BY DEF ToSet
  <2>6. \A n \in ToSet(c) : n.raw.kind = "event"
    <3> SUFFICES ASSUME NEW n \in ToSet(c) PROVE n.raw.kind = "event"
      OBVIOUS
    <3>1. PICK i \in DOMAIN extract.events : n = c[i]
      BY <2>3
    <3>2. n = structureEventNode(extract.events[i])
      BY <2>1, <3>1
    <3> QED
      BY <2>2, <3>2
  <2>7. \A e \in ToSet(extract.events) :
           \E m \in ToSet(c) : m.nodeId[1] = "structure:event" /\ m.localName = e.name
    <3> SUFFICES ASSUME NEW e \in ToSet(extract.events)
                 PROVE  \E m \in ToSet(c) : m.nodeId[1] = "structure:event" /\ m.localName = e.name
      OBVIOUS
    <3>1. PICK i \in DOMAIN extract.events : e = extract.events[i]
      BY <2>5
    <3>2. c[i] = structureEventNode(e)
      BY <2>1, <3>1
    <3>3. c[i].nodeId[1] = "structure:event" /\ c[i].localName = e.name
      BY <2>2, <3>2
    <3> QED
      BY <2>4, <3>1, <3>3
  <2> QED
    BY <2>3, <2>6, <2>7
<1>4. IsSequence(d) /\ \A n \in ToSet(d) : n.raw.kind = "transition"
  <2>1. d = [i \in DOMAIN extract.transitions |-> structureTransitionNode(extract.transitions[i])]
    BY Zenon DEF MapSeq
  <2>2. \A t : structureTransitionNode(t).raw.kind = "transition"
    BY DEF structureTransitionNode
  <2> HIDE DEF d
  <2>3. IsSequence(d) /\ \A x \in ToSet(d) : \E i \in DOMAIN extract.transitions : x = d[i]
    BY <2>1, MapIs
  <2> QED
    BY <2>1, <2>2, <2>3
<1>5. emitStructureNodes(extract, corrected) = a \o b \o c \o d
  BY Zenon DEF emitStructureNodes
<1> HIDE DEF a, b, c, d
<1>6. IsSequence(a \o b) /\ ToSet(a \o b) = ToSet(a) \cup ToSet(b)
  BY <1>1, <1>2, ConcatIs
<1>7. IsSequence(a \o b \o c) /\ ToSet(a \o b \o c) = ToSet(a \o b) \cup ToSet(c)
  BY <1>3, <1>6, ConcatIs
<1>8. IsSequence(a \o b \o c \o d) /\ ToSet(a \o b \o c \o d) = ToSet(a \o b \o c) \cup ToSet(d)
  BY <1>4, <1>7, ConcatIs
<1>9. PICK nodes : nodes = emitStructureNodes(extract, corrected)
  OBVIOUS
<1>10. ToSet(nodes) = ToSet(a) \cup ToSet(b) \cup ToSet(c) \cup ToSet(d)
  BY <1>5, <1>6, <1>7, <1>8, <1>9
<1>11. \A n \in RouteNodes(nodes) : n \in ToSet(a)
  BY <1>2, <1>3, <1>4, <1>10 DEF RouteNodes, isRouteNode
<1>12. EventsTold(nodes)
  <2> SUFFICES ASSUME NEW n \in RouteNodes(nodes), NEW e \in n.raw.events
               PROVE  \E m \in ToSet(nodes) : m.nodeId[1] = "structure:event" /\ m.localName = e
    BY DEF EventsTold
  <2>1. PICK r \in ToSet(extract.routes) : n.raw.events = r.events
    BY <1>1, <1>11
  <2>2. PICK x \in ToSet(extract.events) : e = x.name
    BY <2>1
  <2> QED
    BY <1>3, <1>10, <2>2
<1> QED
  BY <1>9, <1>12

LEMMA KindIs ==
    ASSUME NEW nodes, IsSequence(nodes), NEW kind
    PROVE  /\ IsSequence(OfKind(nodes, kind))
           /\ \A n : n \in ToSet(OfKind(nodes, kind)) <=> n \in ToSet(nodes) /\ n.nodeId[1] = kind
<1>1. PICK set : set = {n \in ToSet(nodes) : n.nodeId[1] = kind}
  OBVIOUS
<1>2. IsSequence(Only(nodes, set)) /\ ToSet(Only(nodes, set)) = ToSet(nodes) \cap set
  BY OnlyOf
<1>3. OfKind(nodes, kind) = Only(nodes, set)
  BY <1>1 DEF OfKind
<1> QED
  BY <1>1, <1>2, <1>3

\* Every event of the code is a row or a candidate.
LEMMA EventRowsAre ==
    ASSUME NEW files, IsSequence(files.intent), IsSequence(files.structure)
    PROVE  LET diff == diffEvents(files)
               known == {norm(r.name) : r \in {r \in ToSet(diff.rows) : r.aligned}}
           IN \A n \in ToSet(structureEvents(files)) :
                 (norm(n.localName) \in known) # (n.localName \in diff.candidates)
<1> DEFINE rows == intentEvents(files)
           code == structureEvents(files)
           inCode == NormNames(code)
           row(i) == [name |-> rows[i].localName, aligned |-> norm(rows[i].localName) \in inCode]
           diff == diffEvents(files)
           known == {norm(r.name) : r \in {r \in ToSet(diff.rows) : r.aligned}}
<1>1. IsSequence(rows)
  BY KindIs DEF intentEvents
<1>2. diff = [rows |-> [i \in DOMAIN rows |-> row(i)],
              candidates |-> {n.localName : n \in {n \in ToSet(code) :
                                 norm(n.localName) \notin NormNames(rows)}}]
  BY Zenon DEF diffEvents, MapSeq
<1>3. \A i : row(i).name = rows[i].localName /\ row(i).aligned = (norm(rows[i].localName) \in inCode)
  OBVIOUS
<1> HIDE DEF row, diff, rows, code, inCode
<1>4. /\ diff.rows = [i \in DOMAIN rows |-> row(i)]
      /\ diff.candidates = {n.localName : n \in {n \in ToSet(code) :
                               norm(n.localName) \notin NormNames(rows)}}
  BY <1>2
<1>5. \A r : r \in ToSet(diff.rows) <=> \E i \in DOMAIN rows : r = row(i)
  BY <1>4 DEF ToSet
<1>6. \A k : k \in NormNames(rows) <=> \E i \in DOMAIN rows : k = norm(rows[i].localName)
  BY DEF NormNames, ToSet
<1>7. \A n \in ToSet(code) : norm(n.localName) \in inCode
  BY DEF NormNames, inCode
<1>8. \A n \in ToSet(code) : norm(n.localName) \in known <=> norm(n.localName) \in NormNames(rows)
  <2>1. \A k : k \in known <=> \E i \in DOMAIN rows : k = norm(row(i).name) /\ row(i).aligned
    BY <1>5
  <2> HIDE DEF known
  <2> QED
    BY <1>3, <1>6, <1>7, <2>1
<1>9. \A n \in ToSet(code) : n.localName \in diff.candidates <=> norm(n.localName) \notin NormNames(rows)
  BY <1>4
<1> HIDE DEF known
<1>10. \A n \in ToSet(code) : (norm(n.localName) \in known) # (n.localName \in diff.candidates)
  BY <1>8, <1>9
<1> QED
  BY <1>10 DEF known, diff, code

\* An event with each route the code traced it to.
LEMMA EventRoutesAre ==
    ASSUME NEW files, IsSequence(files.structure), EventsTold(files.structure),
           NEW n \in RouteNodes(files.structure), NEW e \in n.raw.events
    PROVE  \E row \in eventRoutes(files) : row.event = norm(e) /\ row.route = <<n.route>>
<1> DEFINE of(key) == {r.route : r \in {r \in RouteNodes(files.structure) :
                                           \E x \in r.raw.events : norm(x) = key}}
           keys == NormNames(intentEvents(files)) \cup NormNames(structureEvents(files))
           Row0(key, route) ==
               [event |-> key, route |-> route,
                intent |-> key \in NormNames(intentEvents(files)),
                structure |-> key \in NormNames(structureEvents(files)),
                observed |-> \E r \in ToSet(route) : normPath(r.path) \in observedPaths(files)]
<1>1. eventRoutes(files)
        = UNION {IF of(key) = {} THEN {Row0(key, <<>>)}
                 ELSE {Row0(key, <<route>>) : route \in of(key)} : key \in keys}
  BY Zenon DEF eventRoutes
<1>2. norm(e) \in keys
  <2>1. PICK m \in ToSet(files.structure) : m.nodeId[1] = "structure:event" /\ m.localName = e
    BY DEF EventsTold
  <2>2. m \in ToSet(structureEvents(files))
    BY <2>1, KindIs DEF structureEvents
  <2> QED
    BY <2>1, <2>2 DEF NormNames
<1>3. n.route \in of(norm(e))
  OBVIOUS
<1>4. \A key, route : Row0(key, route).event = key /\ Row0(key, route).route = route
  OBVIOUS
<1> HIDE DEF Row0, of, keys
<1>5. Row0(norm(e), <<n.route>>) \in eventRoutes(files)
  BY <1>1, <1>2, <1>3
<1> QED
  BY <1>4, <1>5

\* The diff leaves nothing out.
LEMMA DiffIs ==
    ASSUME NEW files, IsSequence(files.intent), IsSequence(files.structure),
           EventsTold(files.structure),
           \A f \in ContentOr(files.findings, {}) :
              f.verdict.classification \in {"bug", "uncertain", "unnecessary"}
    PROVE  DiffKeepsEveryChange(files)
<1> DEFINE diff == assembleDiff(files)
           found == ContentOr(files.findings, {})
<1>1. diff.events = diffEvents(files) /\ diff.eventRoutes = eventRoutes(files)
      /\ diff.findings = sortedFindings(found)
  <2>1. PICK boundary : boundary = ContentOr(files.boundary, [routes |-> {}, findings |-> {}])
    OBVIOUS
  <2>2. assembleDiff(files)
          = [events |-> diffEvents(files), transitions |-> diffTransitions(files),
             eventRoutes |-> eventRoutes(files), findings |-> sortedFindings(found),
             boundaries |-> boundary.findings, boundaryRoutes |-> boundary.routes]
    BY Zenon, <2>1 DEF assembleDiff
  <2> HIDE DEF found
  <2> QED
    BY <2>2
<1>2. UNION ToSet(diff.findings) = found
  <2> DEFINE of(class) == {f \in found : f.verdict.classification = class}
             classes == <<"bug", "uncertain", "unnecessary">>
  <2>1. diff.findings = [i \in DOMAIN classes |-> of(classes[i])]
    <3>1. sortedFindings(found) = [i \in DOMAIN classes |-> of(classes[i])]
      BY Zenon DEF sortedFindings, MapSeq
    <3> QED
      BY Zenon, <1>1, <3>1
  <2>2. DOMAIN classes = {1, 2, 3} /\ classes[1] = "bug" /\ classes[2] = "uncertain"
        /\ classes[3] = "unnecessary"
    OBVIOUS
  <2>3. UNION {of("bug"), of("uncertain"), of("unnecessary")} = found
    BY DEF of
  <2> HIDE DEF of, classes, diff, found
  <2>4. ToSet(diff.findings) = {of("bug"), of("uncertain"), of("unnecessary")}
    BY <2>1, <2>2 DEF ToSet
  <2> QED
    BY <2>3, <2>4
<1>3. \A n \in ToSet(files.structure) : isRouteNode(n) =>
         \A e \in n.raw.events : \E row \in diff.eventRoutes :
             row.event = norm(e) /\ row.route = <<n.route>>
  <2> HIDE DEF diff
  <2> QED
    BY <1>1, EventRoutesAre DEF RouteNodes
<1> DEFINE known == {norm(r.name) : r \in {r \in ToSet(diff.events.rows) : r.aligned}}
<1>4. \A n \in ToSet(structureEvents(files)) :
         (norm(n.localName) \in known) # (n.localName \in diff.events.candidates)
  <2> HIDE DEF diff
  <2> QED
    BY <1>1, EventRowsAre
<1> QED
  BY Zenon, <1>2, <1>3, <1>4 DEF DiffKeepsEveryChange

-------------------------------------------------------------------------------
(* The overview.                                                             *)

LEMMA ElementsAreFinite == ASSUME NEW s, IsSequence(s) PROVE IsFiniteSet(ToSet(s))
<1>1. PICK n \in Nat : n = Len(s) /\ DOMAIN s = 1..n
  BY SequenceIs
<1>2. IsFiniteSet(1..n)
  BY FS_Interval
<1>3. ToSet(s) = {s[i] : i \in 1..n}
  BY <1>1 DEF ToSet
<1> QED
  BY <1>1, <1>2, <1>3, ImageIsFinite

LEMMA ThreeParts ==
    ASSUME NEW a, IsFiniteSet(a), NEW b, IsFiniteSet(b), NEW c, IsFiniteSet(c),
           a \cap b = {}, a \cap c = {}, b \cap c = {}
    PROVE  /\ IsFiniteSet(a \cup b \cup c)
           /\ Cardinality(a \cup b \cup c) = Cardinality(a) + Cardinality(b) + Cardinality(c)
<1>1. /\ Cardinality(a) \in Nat /\ Cardinality(b) \in Nat /\ Cardinality(c) \in Nat
      /\ Cardinality({}) = 0
  BY FS_CardinalityType, FS_EmptySet
<1>2. PICK d : d = a \cup b
  OBVIOUS
<1>3. IsFiniteSet(d) /\ Cardinality(d) = Cardinality(a) + Cardinality(b)
  <2>1. IsFiniteSet(a \cup b) /\ Cardinality(a \cup b) = Cardinality(a) + Cardinality(b) - Cardinality(a \cap b)
    BY FS_Union
  <2>2. Cardinality(a \cap b) = 0
    BY Zenon, <1>1
  <2> QED
    BY <1>1, <1>2, <2>1, <2>2
<1>4. d \cap c = {}
  BY <1>2
<1>5. /\ IsFiniteSet(d \cup c)
      /\ Cardinality(d \cup c) = Cardinality(d) + Cardinality(c) - Cardinality(d \cap c)
  BY <1>3, FS_Union
<1>6. Cardinality(d \cap c) = 0
  BY Zenon, <1>1, <1>4
<1> QED
  BY <1>1, <1>2, <1>3, <1>5, <1>6

\* Nodes told apart by their ids are as many as the ids.
LEMMA ToldByIds ==
    ASSUME NEW nodes, IsFiniteSet(nodes),
           \A m, n \in nodes : m.nodeId = n.nodeId => m = n
    PROVE  Cardinality(NodeIds(nodes)) = Cardinality(nodes)
<1> DEFINE f == [n \in nodes |-> n.nodeId]
           T == {n.nodeId : n \in nodes}
<1>1. f \in Surjection(nodes, T)
  BY DEF Surjection
<1>2. f \in Injection(nodes, T)
  BY DEF Injection, IsInjective
<1>3. Cardinality(T) = Cardinality(nodes)
  <2> HIDE DEF f
  <2> QED
    BY <1>1, <1>2, FS_Surjection
<1> QED
  BY <1>3 DEF NodeIds

\* A row counts as many nodes as its concept lists.
LEMMA RowCounts ==
    ASSUME NEW in, InputsOK(in), NEW rows, WellPlaced(rows, in), NEW id \in DOMAIN rows,
           NEW row, row = rows[id],
           \A m, n \in row.intent \cup row.structure \cup row.behavior :
              m.nodeId = n.nodeId => m = n
    PROVE  Cardinality(row.structure) + Cardinality(row.behavior)
             + (IF row.intent # {} THEN 1 ELSE 0)
           = Cardinality(NodeIds(row.intent \cup row.structure \cup row.behavior))
<1>1. PICK a, b, c : a = row.intent /\ b = row.structure /\ c = row.behavior
  OBVIOUS
<1>2. /\ a \subseteq ConceptNodes(in.intent) /\ (\A m, n \in a : m = n)
      /\ b \subseteq EntityNodes(in.structure) \cup RouteNodes(in.structure)
      /\ c \subseteq ToSet(in.behavior)
  BY <1>1 DEF WellPlaced
<1>3. IsSequence(in.intent) /\ IsSequence(in.structure) /\ IsSequence(in.behavior)
  BY DEF InputsOK, IntentNodesOK, StructureNodesOK, BehaviorNodesOK
<1>4. IsFiniteSet(b) /\ IsFiniteSet(c)
  <2>1. b \subseteq ToSet(in.structure)
    BY <1>2 DEF EntityNodes, RouteNodes
  <2> QED
    BY <1>2, <1>3, <2>1, ElementsAreFinite, FS_Subset
<1>5. IsFiniteSet(a) /\ Cardinality(a) = IF a # {} THEN 1 ELSE 0
  <2>1. CASE a = {}
    BY <2>1, FS_EmptySet
  <2>2. CASE a # {}
    <3>1. PICK n : n \in a
      BY <2>2
    <3>2. a = {n}
      BY <1>2, <3>1
    <3> QED
      BY <2>2, <3>2, FS_Singleton
  <2> QED
    BY <2>1, <2>2
<1>6. /\ \A n \in a : n.nodeId[1] = "intent:concept"
      /\ \A n \in b : n.nodeId[1] \in {"structure:entity", "structure:route", "structure:event",
                                       "structure:transition"}
      /\ \A n \in c : n.nodeId[1] \in {"behavior:page", "behavior:transition", "behavior:tx"}
  <2>1. \A n \in a : n.nodeId[1] = "intent:concept"
    BY <1>2 DEF InputsOK, IntentNodesOK, ConceptNodes, isConceptNode
  <2>2. \A n \in EntityNodes(in.structure) \cup RouteNodes(in.structure) :
           n.nodeId[1] \in {"structure:entity", "structure:route", "structure:event",
                            "structure:transition"}
    <3> SUFFICES ASSUME NEW n \in EntityNodes(in.structure) \cup RouteNodes(in.structure)
                 PROVE  n.nodeId[1] \in {"structure:entity", "structure:route", "structure:event",
                                         "structure:transition"}
      OBVIOUS
    <3>1. n \in ToSet(in.structure)
      BY DEF EntityNodes, RouteNodes
    <3>2. CASE isEntityNode(n)
      <4>1. n.nodeId = EntityId(n.localName)
        BY <3>1, <3>2 DEF InputsOK, StructureNodesOK, EntityNodeOK
      <4> QED
        BY <4>1 DEF EntityId
    <3>3. CASE ~isEntityNode(n)
      BY <3>1, <3>3 DEF InputsOK, StructureNodesOK
    <3> QED
      BY <3>2, <3>3
  <2>3. \A n \in c : n.nodeId[1] \in {"behavior:page", "behavior:transition", "behavior:tx"}
    BY <1>2 DEF InputsOK, BehaviorNodesOK
  <2> QED
    BY <1>2, <2>1, <2>2, <2>3
<1>7. a \cap b = {} /\ a \cap c = {} /\ b \cap c = {}
  BY <1>6
<1>8. PICK all : all = a \cup b \cup c
  OBVIOUS
<1>9. IsFiniteSet(all) /\ Cardinality(all) = Cardinality(a) + Cardinality(b) + Cardinality(c)
  BY <1>4, <1>5, <1>7, <1>8, ThreeParts
<1>10. Cardinality(NodeIds(all)) = Cardinality(all)
  BY <1>1, <1>8, <1>9, ToldByIds
<1>11. Cardinality(b) \in Nat /\ Cardinality(c) \in Nat
  BY <1>4, FS_CardinalityType
<1>12. Cardinality(b) + Cardinality(c) + (IF a # {} THEN 1 ELSE 0) = Cardinality(NodeIds(all))
  BY <1>5, <1>9, <1>10, <1>11
<1> QED
  BY <1>1, <1>8, <1>12

\* The overview of a view just reconciled has the concepts of the registry.
LEMMA OverviewIs ==
    ASSUME NEW in, InputsOK(in), NEW out, Reconciled(out, in),
           NEW files, files.registry = <<out.registry>>, files.unified = <<out.unified>>
    PROVE  OverviewMatchesRegistry(files)
<1>1. PICK view, concepts : view = out.unified /\ concepts = out.registry.concepts
  OBVIOUS
<1>2. /\ files.unified[1] = view /\ files.registry[1].concepts = concepts
      /\ ContentOr(files.unified, <<>>) = view
  BY <1>1 DEF ContentOr
<1>3. concepts = [id \in DOMAIN view |-> asConcept(view[id])] /\ WellPlaced(view, in)
  BY Zenon, <1>1 DEF Reconciled
<1>4. PICK rows : rows = {reconcileRow(id, view[id]) : id \in DOMAIN view}
  OBVIOUS
<1>5. buildViewModel(files).reconcile = rows
  <2>1. \E a, b, c, d : buildViewModel(files)
            = [entities |-> a, relationships |-> b, usecases |-> c, routes |-> d,
               reconcile |-> {reconcileRow(id, view[id]) : id \in DOMAIN view}]
    BY Zenon, <1>2 DEF buildViewModel
  <2> QED
    BY <1>4, <2>1
<1> DEFINE nodes(row) == row.intent \cup row.structure \cup row.behavior
           told(id) == \A m, n \in nodes(view[id]) : m.nodeId = n.nodeId => m = n
<1>6. {row.conceptId : row \in rows} = DOMAIN concepts
  <2>1. DOMAIN concepts = DOMAIN view
    BY <1>3
  <2>2. \A id : reconcileRow(id, view[id]).conceptId = id
    BY DEF reconcileRow
  <2>3. \A id : id \in {row.conceptId : row \in rows} <=> id \in DOMAIN view
    BY <1>4, <2>2
  <2> QED
    BY Zenon, <2>1, <2>3
<1>7. ASSUME NEW row \in rows, told(row.conceptId)
      PROVE  row.structure + row.behavior + (IF row.intent THEN 1 ELSE 0)
             = Cardinality(concepts[row.conceptId].nodes)
  <2>1. PICK id \in DOMAIN view : row = reconcileRow(id, view[id])
    BY <1>4
  <2>2. PICK one : one = view[id]
    OBVIOUS
  <2>3. /\ row.conceptId = id /\ row.intent = (one.intent # {})
        /\ row.structure = Cardinality(one.structure)
        /\ row.behavior = Cardinality(one.behavior)
    BY <2>1, <2>2 DEF reconcileRow
  <2>4. concepts[id].nodes = NodeIds(one.intent \cup one.structure \cup one.behavior)
    BY <1>3, <2>2 DEF asConcept
  <2>5. \A m, n \in one.intent \cup one.structure \cup one.behavior :
           m.nodeId = n.nodeId => m = n
    BY <1>7, <2>2, <2>3
  <2>6. Cardinality(one.structure) + Cardinality(one.behavior)
             + (IF one.intent # {} THEN 1 ELSE 0)
           = Cardinality(NodeIds(one.intent \cup one.structure \cup one.behavior))
    BY <1>3, <2>2, <2>5, RowCounts
  <2> QED
    BY <2>3, <2>4, <2>6
<1> QED
  BY Zenon, <1>2, <1>5, <1>6, <1>7 DEF OverviewMatchesRegistry

-------------------------------------------------------------------------------
(* Which command writes which file.                                          *)

\* The layers are cleared whole: the nodes and what is derived with them.
LEMMA ClearIs ==
    ASSUME DerivedInv, Clear
    PROVE  \E gone :
              /\ disk' = [file \in DOMAIN disk |-> IF file \in gone THEN <<>> ELSE disk[file]]
              /\ "intent" \in gone <=> "aggregates" \in gone
              /\ "structure" \in gone <=> "rdra" \in gone
<1>1. PICK phase \in DOMAIN ClearedFiles :
         disk' = [file \in DOMAIN disk |->
                    IF file \in ClearedFiles[phase] THEN <<>> ELSE disk[file]]
  BY DEF Clear
<1>2. {"intent", "aggregates", "structure", "rdra"} \subseteq DOMAIN disk \ {"registry"}
  BY DEF DerivedInv, FilesOK, emptyDisk
<1>3. phase \in {"intent", "structure", "behavior", "everything", "all"}
  BY DEF ClearedFiles
<1>4. ClearedFiles[phase] = CASE phase = "intent"     -> {"intent", "aggregates"}
                              [] phase = "structure"  -> {"structure", "rdra"}
                              [] phase = "behavior"   -> {"behavior", "transactions", "edges", "sitemap"}
                              [] phase = "everything" -> DOMAIN disk \ {"registry"}
                              [] OTHER                -> DOMAIN disk
  BY <1>3 DEF ClearedFiles
<1>5. PICK gone : gone = ClearedFiles[phase]
  OBVIOUS
<1>6. /\ "intent" \in gone <=> "aggregates" \in gone
      /\ "structure" \in gone <=> "rdra" \in gone
  BY <1>2, <1>3, <1>4, <1>5
<1> QED
  BY <1>1, <1>5, <1>6

\* Every file has its writer.
LEMMA WrittenBy ==
    ASSUME DerivedInv, [Next]_vars
    PROVE  /\ disk'.intent # disk.intent => EmitIntent \/ Clear
           /\ disk'.aggregates # disk.aggregates => WriteAggregates \/ Clear
           /\ disk'.structure # disk.structure => EmitStructure \/ Clear
           /\ disk'.rdra # disk.rdra => EmitStructure \/ Clear
           /\ disk'.behavior # disk.behavior => EmitBehavior \/ Clear
           /\ disk'.transactions # disk.transactions => BridgeTransactions \/ Clear
           /\ disk'.findings # disk.findings => Verify \/ Clear
<1> DEFINE Ours == {"intent", "aggregates", "structure", "rdra", "behavior", "transactions",
                    "findings"}
<1>1. Ours \subseteq DOMAIN disk
  BY DEF DerivedInv, FilesOK, emptyDisk
<1>2. ASSUME NEW mine, \/ disk' = disk
                       \/ \E file : file \notin Ours \ {mine} /\ \E new : disk' = [disk EXCEPT ![file] = new]
      PROVE  \A file \in Ours \ {mine} : disk'[file] = disk[file]
  BY <1>1, <1>2
<1>3. CASE EditAdrs \/ Decide \/ RecordCorrection \/ AnalyzeStructure \/ StartReconcile \/ EndRejected
           \/ Crash \/ UNCHANGED vars
  BY <1>3 DEF EditAdrs, Decide, RecordCorrection, AnalyzeStructure, StartReconcile, EndRejected,
     Crash, vars
<1>4. CASE Crawl \/ WriteSitemap \/ WriteRegistry \/ WriteUnified \/ WriteMapping \/ WriteBoundary
  <2>1. \/ disk' = disk
        \/ \E file \in {"edges", "sitemap", "registry", "unified", "mapping", "boundary"} :
              \E new : disk' = [disk EXCEPT ![file] = new]
    BY <1>4 DEF Crawl, WriteSitemap, WriteRegistry, WriteUnified, WriteMapping, WriteBoundary
  <2>2. \A file \in Ours \ {"none"} : disk'[file] = disk[file]
    BY <1>2, <2>1
  <2> QED
    BY <2>2
<1>5. CASE EmitIntent
  <2>1. \E new : disk' = [disk EXCEPT !["intent"] = new]
    BY <1>5 DEF EmitIntent
  <2>2. \A file \in Ours \ {"intent"} : disk'[file] = disk[file]
    BY <1>2, <2>1
  <2> QED
    BY <1>5, <2>2
<1>6. CASE WriteAggregates
  <2>1. \E new : disk' = [disk EXCEPT !["aggregates"] = new]
    BY <1>6 DEF WriteAggregates
  <2>2. \A file \in Ours \ {"aggregates"} : disk'[file] = disk[file]
    BY <1>2, <2>1
  <2> QED
    BY <1>6, <2>2
<1>7. CASE EmitBehavior
  <2>1. \E new : disk' = [disk EXCEPT !["behavior"] = new]
    BY <1>7 DEF EmitBehavior
  <2>2. \A file \in Ours \ {"behavior"} : disk'[file] = disk[file]
    BY <1>2, <2>1
  <2> QED
    BY <1>7, <2>2
<1>8. CASE BridgeTransactions
  <2>1. \E new : disk' = [disk EXCEPT !["transactions"] = new]
    BY <1>8 DEF BridgeTransactions
  <2>2. \A file \in Ours \ {"transactions"} : disk'[file] = disk[file]
    BY <1>2, <2>1
  <2> QED
    BY <1>8, <2>2
<1>9. CASE Verify
  <2>1. \E new : disk' = [disk EXCEPT !["findings"] = new]
    BY <1>9 DEF Verify
  <2>2. \A file \in Ours \ {"findings"} : disk'[file] = disk[file]
    BY <1>2, <2>1
  <2> QED
    BY <1>9, <2>2
<1>10. CASE EmitStructure
  <2>1. DOMAIN job.out \subseteq {"structure", "rdra"}
    BY <1>10 DEF DerivedInv, JobOK, EmitStructure, Idle, ReconcileStages, Rejected
  <2>2. \E file \in {"structure", "rdra"} : \E new : disk' = [disk EXCEPT ![file] = new]
    BY <1>10, <2>1 DEF EmitStructure
  <2>3. \A file \in Ours \ {"structure", "rdra"} : disk'[file] = disk[file]
    BY <1>1, <2>2
  <2> QED
    BY <1>10, <2>3
<1>11. CASE Clear
  BY <1>11
<1> QED
  BY <1>3, <1>4, <1>5, <1>6, <1>7, <1>8, <1>9, <1>10, <1>11 DEF Next

\* A layer's command goes on, crashes or waits.
LEMMA GoesOn ==
    ASSUME DerivedInv, [Next]_vars
    PROVE  /\ job.stage = "aggregates" => WriteAggregates \/ Crash \/ UNCHANGED vars
           /\ job.stage = "structure" => EmitStructure \/ Crash \/ UNCHANGED vars
           /\ job.stage = "emit" => EmitBehavior \/ Crash \/ UNCHANGED vars
           /\ job.stage = "bridge" => BridgeTransactions \/ Crash \/ UNCHANGED vars
           /\ job.stage = "sitemap" => WriteSitemap \/ Crash \/ UNCHANGED vars
<1>1. job.stage \in LayerStages => job # Idle
  BY IdleIs
<1>2. job # Idle => ~Edit /\ ~StartReconcile /\ ~Verify
  BY DEF Edit, StartReconcile, Verify
<1>3. job.stage \in LayerStages =>
         ~WriteRegistry /\ ~WriteUnified /\ ~WriteMapping /\ ~EndRejected /\ ~WriteBoundary
  BY DEF WriteRegistry, WriteUnified, WriteMapping, EndRejected, WriteBoundary, LayerStages
<1>4. /\ WriteAggregates => job.stage = "aggregates"
      /\ EmitStructure => job.stage = "structure"
      /\ EmitBehavior => job.stage = "emit"
      /\ BridgeTransactions => job.stage = "bridge"
      /\ WriteSitemap => job.stage = "sitemap"
  BY DEF WriteAggregates, EmitStructure, EmitBehavior, BridgeTransactions, WriteSitemap
<1>5. EditAdrs \/ Decide \/ RecordCorrection \/ EmitIntent \/ AnalyzeStructure \/ Crawl \/ Clear
         => Edit
  BY DEF EditAdrs, Decide, RecordCorrection, EmitIntent, AnalyzeStructure, Crawl, Clear
<1> QED
  BY <1>1, <1>2, <1>3, <1>4, <1>5 DEF Next, LayerStages

\* How a command comes to a stage.
LEMMA ComesTo ==
    ASSUME DerivedInv, [Next]_vars
    PROVE  /\ job'.stage = "aggregates" => EmitIntent \/ job' = job
           /\ job'.stage = "structure" => AnalyzeStructure \/ EmitStructure \/ job' = job
           /\ job'.stage = "emit" => Crawl \/ job' = job
           /\ job'.stage = "bridge" => EmitBehavior \/ job' = job
           /\ job'.stage = "sitemap" => BridgeTransactions \/ job' = job
<1>1. Idle.stage = "idle"
  BY DEF Idle
<1>2. CASE EditAdrs \/ Decide \/ RecordCorrection \/ Clear \/ UNCHANGED vars
  BY <1>2 DEF EditAdrs, Decide, RecordCorrection, Clear, vars
<1>3. CASE WriteAggregates \/ WriteSitemap \/ WriteMapping \/ EndRejected \/ WriteBoundary \/ Crash
  BY <1>1, <1>3 DEF WriteAggregates, WriteSitemap, WriteMapping, EndRejected, WriteBoundary, Crash
<1>4. CASE EmitIntent
  BY <1>4 DEF EmitIntent
<1>5. CASE AnalyzeStructure
  BY <1>5 DEF AnalyzeStructure
<1>6. CASE Crawl \/ EmitBehavior \/ BridgeTransactions \/ StartReconcile \/ Verify
  BY <1>6 DEF Crawl, EmitBehavior, BridgeTransactions, StartReconcile, Verify
<1>7. CASE WriteRegistry \/ WriteUnified
  <2>1. job.stage \in {"registry", "unified"}
    BY <1>7 DEF WriteRegistry, WriteUnified
  <2>2. "stage" \in DOMAIN job
    BY <1>1, <2>1 DEF DerivedInv, JobOK, ReconcileStages
  <2>3. PICK stages : stages = {"unified", "mapping"} \cup Rejected
    OBVIOUS
  <2>4. \E s \in stages : job' = [job EXCEPT !.stage = s]
    BY Zenon, <1>7, <2>3 DEF WriteRegistry, WriteUnified, Rejected
  <2>5. job'.stage \in stages
    BY <2>2, <2>4
  <2> QED
    BY <2>3, <2>5 DEF LayerStages, Rejected
<1>8. CASE EmitStructure
  <2>1. job.stage = "structure" /\ DOMAIN job = {"stage", "extract", "out"}
    BY <1>8 DEF DerivedInv, JobOK, EmitStructure, Idle, ReconcileStages, Rejected
  <2>2. PICK file : job' = IF DOMAIN job.out = {file} THEN Idle
                           ELSE [job EXCEPT !.out = Restrict(@, DOMAIN @ \ {file})]
    BY <1>8 DEF EmitStructure
  <2>3. job'.stage \in {"idle", "structure"}
    BY <1>1, <2>1, <2>2
  <2> QED
    BY <1>8, <2>3
<1> QED
  BY <1>2, <1>3, <1>4, <1>5, <1>6, <1>7, <1>8 DEF Next

-------------------------------------------------------------------------------
(* The glossary's two files, in every state.                                 *)

\* A roster is there once the mapping is; without a crash in between the nodes
\* and the roster are of one glossary.
GlossaryInv ==
    /\ job.stage = "aggregates" =>
          GlossaryShape(job.glossary) /\ disk.intent = emitIntentNodes(job.glossary)
    /\ disk.aggregates = <<>> \/ \E roster : IsSequence(roster) /\ disk.aggregates = <<roster>>
    /\ "mapping" \in fresh => disk.aggregates # <<>>
    /\ crashes \in Nat
    /\ crashes = 0 /\ job.stage # "aggregates" /\ disk.intent = <<>> =>
          ContentOr(disk.aggregates, <<>>) = <<>>

LEMMA NoElements == IsSequence(<<>>) /\ ToSet(<<>>) = {}
  BY DEF IsSequence, ToSet

LEMMA RosterIs ==
    ASSUME NEW glossary, GlossaryShape(glossary)
    PROVE  /\ IsSequence(deriveAggregates(glossary))
           /\ emitIntentNodes(glossary) = <<>> => deriveAggregates(glossary) = <<>>
<1> DEFINE concepts == glossary.concepts
           Roster(root) ==
               [conceptId |-> canonicalId(root), name |-> root.name,
                members   |-> <<Member(root)>> \o
                   MapSeq(Only(concepts, {c \in ToSet(concepts) : c # root
                                                       /\ root.name \in c.dependsOn}), Member)]
           roots == Only(concepts, {c \in ToSet(concepts) : c.kind = "aggregate-root"})
           all == deriveAggregates(glossary)
           a == MapSeq(concepts, conceptNode)
           b == MapSeq(glossary.events, intentEventNode)
           c == MapSeq(glossary.transitions, intentTransitionNode)
<1>1. all = [i \in DOMAIN roots |-> Roster(roots[i])]
  BY Zenon DEF deriveAggregates, MapSeq
<1>2. IsSequence(concepts) /\ IsSequence(roots) /\ ToSet(roots) \subseteq ToSet(concepts)
  BY OnlyOf DEF GlossaryShape
<1> HIDE DEF all, roots, Roster
<1>3. IsSequence(all) /\ \A x \in ToSet(all) : \E i \in DOMAIN roots : x = all[i]
  BY <1>1, <1>2, MapIs
<1>4. ASSUME emitIntentNodes(glossary) = <<>> PROVE all = <<>>
  <2>1. a = [i \in DOMAIN concepts |-> conceptNode(concepts[i])]
        /\ b = [i \in DOMAIN glossary.events |-> intentEventNode(glossary.events[i])]
        /\ c = [i \in DOMAIN glossary.transitions |-> intentTransitionNode(glossary.transitions[i])]
    BY Zenon DEF MapSeq
  <2>2. emitIntentNodes(glossary) = a \o b \o c
    BY Zenon DEF emitIntentNodes
  <2> HIDE DEF a, b, c
  <2>3. IsSequence(a) /\ IsSequence(b) /\ IsSequence(c)
    BY <1>2, <2>1, MapIs DEF GlossaryShape
  <2>4. /\ IsSequence(a \o b) /\ ToSet(a \o b) = ToSet(a) \cup ToSet(b)
        /\ ToSet(a \o b \o c) = ToSet(a \o b) \cup ToSet(c)
    BY <2>3, ConcatIs
  <2>5. ToSet(a) = {}
    BY <1>4, <2>2, <2>4, NoElements
  <2>6. DOMAIN concepts = {}
    <3>1. \A i \in DOMAIN a : a[i] \in ToSet(a)
      BY DEF ToSet
    <3>2. DOMAIN a = DOMAIN concepts
      BY <2>1
    <3> QED
      BY <2>5, <3>1, <3>2
  <2>7. ToSet(roots) = {}
    <3>1. ToSet(concepts) = {}
      BY <2>6 DEF ToSet
    <3> QED
      BY <1>2, <3>1
  <2>8. \A i \in DOMAIN roots : roots[i] \in ToSet(roots)
    BY DEF ToSet
  <2>9. ToSet(all) = {}
    BY <1>3, <2>7, <2>8
  <2> QED
    BY <1>3, <2>9, EmptyIs
<1> QED
  BY <1>3, <1>4 DEF all

LEMMA GlossaryInit == Init => GlossaryInv
<1> SUFFICES ASSUME Init PROVE GlossaryInv
  OBVIOUS
<1>1. PICK old \in Legacy : disk = Emitted(old.glossary, old.extract, old.crawl)
  BY DEF Init
<1>2. /\ disk.intent = IF old.glossary = <<>> THEN <<>> ELSE emitIntentNodes(old.glossary[1])
      /\ disk.aggregates = IF old.glossary = <<>> THEN <<>>
                           ELSE <<deriveAggregates(old.glossary[1])>>
  BY <1>1 DEF Emitted, emptyDisk
<1>3. job.stage = "idle" /\ fresh = {} /\ crashes = 0
  BY DEF Init, Idle
<1>4. CASE old.glossary = <<>>
  BY <1>2, <1>3, <1>4 DEF GlossaryInv, ContentOr
<1>5. CASE old.glossary # <<>>
  <2>1. PICK glossary : glossary = old.glossary[1]
    OBVIOUS
  <2>2. old.glossary = <<glossary>>
    BY <1>5, <2>1, ShapesAssumption
  <2>3. glossary \in ToSet(old.glossary)
    BY <2>2 DEF ToSet
  <2>4. GlossaryShape(glossary)
    BY <2>3, ShapesAssumption
  <2>5. PICK roster : roster = deriveAggregates(glossary)
    OBVIOUS
  <2>6. /\ disk.intent = emitIntentNodes(glossary) /\ disk.aggregates = <<roster>>
        /\ IsSequence(roster) /\ (emitIntentNodes(glossary) = <<>> => roster = <<>>)
    BY <1>2, <1>5, <2>1, <2>4, <2>5, RosterIs
  <2>7. ContentOr(disk.aggregates, <<>>) = roster
    BY <2>6 DEF ContentOr
  <2> QED
    BY <1>3, <2>6, <2>7 DEF GlossaryInv
<1> QED
  BY <1>4, <1>5

LEMMA GlossaryNext == ASSUME DerivedInv, GlossaryInv, [Next]_vars PROVE GlossaryInv'
<1>1. /\ "intent" \in DOMAIN disk /\ "aggregates" \in DOMAIN disk
      /\ Idle.stage = "idle"
  BY DEF DerivedInv, FilesOK, emptyDisk, Idle
<1>2. crashes' \in Nat /\ (crashes' = 0 => crashes = 0 /\ ~Crash)
  <2>1. CASE Crash
    BY <2>1 DEF Crash, GlossaryInv
  <2>2. CASE ~Crash
    <3>1. crashes' = crashes
      BY <2>2 DEF Next, EditAdrs, Decide, RecordCorrection, EmitIntent, WriteAggregates,
         AnalyzeStructure, EmitStructure, Crawl, EmitBehavior, BridgeTransactions, WriteSitemap,
         StartReconcile, WriteRegistry, WriteUnified, WriteMapping, EndRejected, Verify,
         WriteBoundary, Clear, Edit, counterVars, vars
    <3> QED
      BY <2>2, <3>1 DEF GlossaryInv
  <2> QED
    BY <2>1, <2>2
<1>3. "mapping" \in fresh' => \/ "mapping" \in fresh /\ ~Edit
                              \/ WriteMapping /\ disk.aggregates # <<>>
  <2>1. Edit => fresh' = {}
    BY DEF Edit
  <2>2. CASE ~Edit /\ ~WriteMapping
    <3>1. CASE WriteAggregates \/ EmitStructure \/ EmitBehavior \/ BridgeTransactions
               \/ StartReconcile \/ EndRejected \/ Verify \/ Crash \/ UNCHANGED vars
      BY <2>2, <3>1 DEF WriteAggregates, EmitStructure, EmitBehavior, BridgeTransactions,
         StartReconcile, EndRejected, Verify, Crash, vars
    <3>2. CASE WriteSitemap \/ WriteRegistry \/ WriteUnified \/ WriteBoundary
      <4>1. fresh' \subseteq fresh \cup {"behavior", "registry", "unified", "boundary", "findings"}
        BY <3>2 DEF WriteSitemap, WriteRegistry, WriteUnified, WriteBoundary
      <4> QED
        BY <2>2, <4>1
    <3> QED
      BY <2>2, <3>1, <3>2 DEF Next, EditAdrs, Decide, RecordCorrection, EmitIntent,
         AnalyzeStructure, Crawl, Clear
  <2>3. CASE WriteMapping
    <3>1. ~Edit
      BY <2>3 DEF WriteMapping, Edit, Idle
    <3> QED
      BY <2>3, <3>1 DEF WriteMapping
  <2> QED
    BY <2>1, <2>2, <2>3
<1>4. CASE EmitIntent
  <2>1. PICK glossary \in Glossaries :
          /\ disk' = [disk EXCEPT !.intent = emitIntentNodes(glossary)]
          /\ job' = [stage |-> "aggregates", glossary |-> glossary]
    BY <1>4 DEF EmitIntent
  <2>2. /\ disk'.intent = emitIntentNodes(glossary) /\ disk'.aggregates = disk.aggregates
        /\ job'.stage = "aggregates" /\ job'.glossary = glossary
    BY <1>1, <2>1
  <2>3. GlossaryShape(glossary)
    BY ShapesAssumption
  <2>4. "mapping" \notin fresh'
    BY <1>4 DEF EmitIntent, Edit
  <2> QED
    BY <1>2, <2>2, <2>3, <2>4 DEF GlossaryInv
<1>5. CASE WriteAggregates
  <2>1. PICK glossary, roster : glossary = job.glossary /\ roster = deriveAggregates(glossary)
    OBVIOUS
  <2>2. /\ job.stage = "aggregates" /\ job' = Idle
        /\ disk' = [disk EXCEPT !.aggregates = <<roster>>]
    BY <1>5, <2>1 DEF WriteAggregates
  <2>3. disk'.intent = disk.intent /\ disk'.aggregates = <<roster>>
    BY <1>1, <2>2
  <2>4. GlossaryShape(glossary) /\ disk.intent = emitIntentNodes(glossary)
    BY <2>1, <2>2 DEF GlossaryInv
  <2>5. IsSequence(roster) /\ (disk.intent = <<>> => roster = <<>>)
    BY <2>1, <2>4, RosterIs
  <2>6. ContentOr(disk'.aggregates, <<>>) = roster /\ disk'.aggregates # <<>>
    BY <2>3 DEF ContentOr
  <2> QED
    BY <1>1, <1>2, <2>2, <2>3, <2>5, <2>6 DEF GlossaryInv
<1>6. CASE Clear
  <2>1. PICK gone :
          /\ disk' = [file \in DOMAIN disk |-> IF file \in gone THEN <<>> ELSE disk[file]]
          /\ "intent" \in gone <=> "aggregates" \in gone
    BY <1>6, ClearIs
  <2>2. \/ disk'.intent = <<>> /\ disk'.aggregates = <<>>
        \/ disk'.intent = disk.intent /\ disk'.aggregates = disk.aggregates
    BY <1>1, <2>1
  <2>3. fresh' = {} /\ job' = job /\ job = Idle
    BY <1>6 DEF Clear, Edit
  <2>4. ContentOr(<<>>, <<>>) = <<>>
    BY DEF ContentOr
  <2> QED
    BY <1>1, <1>2, <2>2, <2>3, <2>4 DEF GlossaryInv
<1>7. CASE ~EmitIntent /\ ~WriteAggregates /\ ~Clear
  <2>1. disk'.intent = disk.intent /\ disk'.aggregates = disk.aggregates
    BY <1>7, WrittenBy
  <2>2. job'.stage = "aggregates" => job' = job
    BY <1>7, ComesTo
  <2>3. crashes' = 0 /\ job.stage = "aggregates" => job' = job
    BY <1>2, <1>7, GoesOn DEF vars
  <2> QED
    BY <1>2, <1>3, <2>1, <2>2, <2>3 DEF GlossaryInv
<1> QED
  BY <1>4, <1>5, <1>6, <1>7

LEMMA GlossaryAlways == Spec => []GlossaryInv
  BY DerivedAlways, GlossaryInit, GlossaryNext, PTL DEF Spec

-------------------------------------------------------------------------------
(* The artifacts of the runs and what is emitted from them, in every state.  *)

\* The observations and the copied transactions are of the artifacts there are.
RunsInv ==
    /\ \A txs \in ToSet(runs.transactions) : \A tx \in ToSet(txs) : tx.path \in Seq(DOMAIN Lower)
    /\ job.stage \in {"bridge", "sitemap"} \/ "behavior" \in fresh =>
          runs.reports # <<>> /\ disk.behavior = runEmit(runs)
    /\ job.stage = "sitemap" \/ "behavior" \in fresh => disk.transactions = Bridge(runs)

LEMMA RunsInit == Init => RunsInv
<1> SUFFICES ASSUME Init PROVE RunsInv
  OBVIOUS
<1>1. PICK old \in Legacy :
         runs = IF old.crawl = <<>> THEN noRuns ELSE ArtifactsOf(old.crawl[1])
  BY DEF Init
<1>2. job.stage = "idle" /\ fresh = {}
  BY DEF Init, Idle
<1>3. CASE old.crawl = <<>>
  <2>1. runs.transactions = <<>>
    BY <1>1, <1>3 DEF noRuns
  <2> QED
    BY <1>2, <2>1, NoElements DEF RunsInv
<1>4. CASE old.crawl # <<>>
  <2>1. PICK crawl : crawl = old.crawl[1]
    OBVIOUS
  <2>2. old.crawl = <<crawl>>
    BY <1>4, <2>1, ShapesAssumption
  <2>3. crawl \in ToSet(old.crawl)
    BY <2>2 DEF ToSet
  <2>4. CrawlShape(crawl)
    BY <2>3, ShapesAssumption
  <2>5. runs.transactions = crawl.transactions
    <3>1. runs = [kind \in {"reports", "transactions", "saved", "results"} |-> crawl[kind]]
      BY <1>1, <1>4, <2>1 DEF ArtifactsOf, noRuns
    <3> QED
      BY <3>1
  <2> QED
    BY <1>2, <2>4, <2>5 DEF RunsInv, CrawlShape
<1> QED
  BY <1>3, <1>4

\* New artifacts come with a crawl, and go with clear.
LEMMA RunsChange ==
    ASSUME [Next]_vars, ~Crawl, ~Clear
    PROVE  UNCHANGED runs
  BY DEF Next, EditAdrs, Decide, RecordCorrection, EmitIntent, WriteAggregates,
     AnalyzeStructure, EmitStructure, EmitBehavior, BridgeTransactions, WriteSitemap,
     StartReconcile, WriteRegistry, WriteUnified, WriteMapping, EndRejected, Verify,
     WriteBoundary, Crash, vars

LEMMA RunsNext == ASSUME DerivedInv, LayersInv, RunsInv, [Next]_vars PROVE RunsInv'
<1>1. /\ "behavior" \in DOMAIN disk /\ "transactions" \in DOMAIN disk
      /\ Idle.stage = "idle"
  BY DEF DerivedInv, FilesOK, emptyDisk, Idle
<1>2. CASE Crawl
  <2>1. PICK crawl \in Crawls : runs' = [kind \in DOMAIN runs |-> runs[kind] \o crawl[kind]]
    BY <1>2 DEF Crawl
  <2>2. CrawlShape(crawl)
    BY ShapesAssumption
  <2>3. runs'.transactions = runs.transactions \o crawl.transactions
    BY <2>1 DEF LayersInv, noRuns
  <2>4. ToSet(runs'.transactions) = ToSet(runs.transactions) \cup ToSet(crawl.transactions)
    BY <2>2, <2>3, ConcatIs DEF LayersInv, ArtifactsOK, CrawlShape
  <2>5. \A txs \in ToSet(runs'.transactions) : \A tx \in ToSet(txs) : tx.path \in Seq(DOMAIN Lower)
    BY <2>2, <2>4 DEF RunsInv, CrawlShape
  <2>6. job'.stage = "emit" /\ fresh' = {}
    BY <1>2 DEF Crawl, Edit
  <2> QED
    BY <2>5, <2>6 DEF RunsInv
<1>3. CASE Clear
  <2>1. runs'.transactions \in {runs.transactions, <<>>}
    BY <1>3 DEF Clear, noRuns
  <2>2. job' = Idle /\ fresh' = {}
    BY <1>3 DEF Clear, Edit
  <2> QED
    BY <1>1, <2>1, <2>2, NoElements DEF RunsInv
<1>4. CASE EmitBehavior
  <2>1. PICK nodes : nodes = runEmit(runs)
    OBVIOUS
  <2>2. /\ job.stage = "emit" /\ job'.stage = "bridge" /\ UNCHANGED <<runs, fresh>>
        /\ disk' = [disk EXCEPT !.behavior = nodes]
    BY <1>4, <2>1 DEF EmitBehavior
  <2>3. fresh' = {} /\ runs.reports # <<>>
    BY <2>2 DEF DerivedInv, FreshIsCurrent, LayerStages, LayersInv
  <2>4. disk'.behavior = nodes
    BY <1>1, <2>2
  <2>5. runEmit(runs') = nodes
    BY Zenon, <2>1, <2>2
  <2> QED
    BY <2>2, <2>3, <2>4, <2>5 DEF RunsInv
<1>5. CASE BridgeTransactions
  <2>1. PICK nodes, txs : nodes = runEmit(runs) /\ txs = Bridge(runs)
    OBVIOUS
  <2>2. /\ job.stage = "bridge" /\ job'.stage = "sitemap" /\ UNCHANGED <<runs, fresh>>
        /\ disk' = [disk EXCEPT !.transactions = txs]
    BY <1>5, <2>1 DEF BridgeTransactions
  <2>3. disk'.behavior = nodes /\ disk'.transactions = txs /\ runs.reports # <<>>
    BY <1>1, <2>1, <2>2 DEF RunsInv
  <2>4. runEmit(runs') = nodes /\ Bridge(runs') = txs
    BY Zenon, <2>1, <2>2
  <2> QED
    BY <2>2, <2>3, <2>4 DEF RunsInv
<1>6. CASE ~Crawl /\ ~Clear /\ ~EmitBehavior /\ ~BridgeTransactions
  <2>1. disk'.behavior = disk.behavior /\ disk'.transactions = disk.transactions
    BY <1>6, WrittenBy
  <2>2. runs' = runs
    BY <1>6, RunsChange
  <2>3. job'.stage \in {"bridge", "sitemap"} => job' = job
    BY <1>6, ComesTo
  <2>4. "behavior" \in fresh' => "behavior" \in fresh \/ job.stage = "sitemap"
    <3>1. CASE WriteSitemap
      BY <3>1 DEF WriteSitemap
    <3>2. CASE Edit
      BY <3>2 DEF Edit
    <3>3. CASE WriteRegistry \/ WriteUnified \/ WriteMapping \/ WriteBoundary
      <4>1. fresh' \subseteq fresh \cup {"mapping", "registry", "unified", "boundary", "findings"}
        BY <3>3 DEF WriteMapping, WriteRegistry, WriteUnified, WriteBoundary
      <4> QED
        BY <4>1
    <3>4. CASE WriteAggregates \/ EmitStructure \/ StartReconcile \/ EndRejected \/ Verify
               \/ Crash \/ UNCHANGED vars
      BY <3>4 DEF WriteAggregates, EmitStructure, StartReconcile, EndRejected, Verify, Crash, vars
    <3> QED
      BY <1>6, <3>1, <3>2, <3>3, <3>4 DEF Next, EditAdrs, Decide, RecordCorrection, EmitIntent,
         AnalyzeStructure
  <2>5. PICK nodes, txs : nodes = runEmit(runs) /\ txs = Bridge(runs)
    OBVIOUS
  <2>6. runEmit(runs') = nodes /\ Bridge(runs') = txs
    BY Zenon, <2>2, <2>5
  <2> QED
    BY <2>1, <2>2, <2>3, <2>4, <2>5, <2>6 DEF RunsInv
<1> QED
  BY <1>2, <1>3, <1>4, <1>5, <1>6

LEMMA RunsAlways == Spec => []RunsInv
<1>1. SpineInv /\ RunsInv /\ [Next]_vars => RunsInv'
  BY RunsNext DEF SpineInv
<1> QED
  BY <1>1, SpineAlways, RunsInit, PTL DEF Spec

-------------------------------------------------------------------------------
(* The structure's files and the findings, in every state.                   *)

LEMMA StructureTells ==
    ASSUME NEW extract, ExtractShape(extract), NEW made \in Seq(Correction)
    PROVE  EventsTold(StructureOutputs(extract, made).structure)
<1>1. PICK applied : applied = applyCorrections(extract, made)
  OBVIOUS
<1>2. /\ applied.extract.entities \in Seq(Entity) /\ IsSequence(applied.extract.routes)
      /\ IsSequence(applied.extract.events) /\ IsSequence(applied.extract.transitions)
      /\ \A r \in ToSet(applied.extract.routes) :
            r.events \subseteq {e.name : e \in ToSet(applied.extract.events)}
  BY <1>1, CorrectedIs DEF ExtractShape
<1>3. StructureOutputs(extract, made).structure
        = emitStructureNodes(applied.extract, applied.corrected)
  BY <1>1 DEF StructureOutputs
<1> QED
  BY <1>2, <1>3, EventsEmitted

LEMMA Verdicts ==
    ASSUME NEW unified, NEW f \in verifyUnified(unified)
    PROVE  f.verdict.classification \in {"bug", "uncertain", "unnecessary"}
<1>1. PICK id, category : f = Finding(id, category)
  BY DEF verifyUnified
<1>2. f.verdict = adjudicate(category)
  BY <1>1 DEF Finding
<1>3. PICK class \in {"bug", "uncertain"} :
         class = IF category \in {"decision-violation", "runtime-error"} THEN "bug" ELSE "uncertain"
  OBVIOUS
<1>4. \E count : adjudicate(category).classification = IF count >= 2 THEN class ELSE "uncertain"
  <2>1. PICK confirmed : confirmed = {lens \in Lens : ~(class # "bug" /\ lens # "correctness")}
    OBVIOUS
  <2>2. adjudicate(category)
          = [classification |-> IF Cardinality(confirmed) >= 2 THEN class ELSE "uncertain",
             confirmedCount |-> Cardinality(confirmed)]
    BY Zenon, <1>3, <2>1 DEF adjudicate
  <2> QED
    BY <2>2
<1> QED
  BY <1>2, <1>3, <1>4

\* A route's events are told, the findings have a class, and no structure is
\* without its model, except where a crash came between the two.
StructureInv ==
    /\ EventsTold(disk.structure)
    /\ \A f \in ContentOr(disk.findings, {}) :
          f.verdict.classification \in {"bug", "uncertain", "unnecessary"}
    /\ job.stage = "structure" =>
          IF "rdra" \in DOMAIN job.out THEN job.out.rdra # <<>> ELSE disk.rdra # <<>>
    /\ crashes = 0 /\ disk.rdra = <<>> => disk.structure = <<>> \/ job.stage = "structure"

LEMMA NothingTold == EventsTold(<<>>)
  BY NoElements DEF EventsTold, RouteNodes

LEMMA StructureInit == Init => StructureInv
<1> SUFFICES ASSUME Init PROVE StructureInv
  OBVIOUS
<1>1. PICK old \in Legacy : disk = Emitted(old.glossary, old.extract, old.crawl)
  BY DEF Init
<1>2. /\ disk.structure = IF old.extract = <<>> THEN <<>>
                          ELSE StructureOutputs(old.extract[1], <<>>).structure
      /\ disk.rdra = IF old.extract = <<>> THEN <<>> ELSE StructureOutputs(old.extract[1], <<>>).rdra
      /\ disk.findings = <<>>
  BY <1>1 DEF Emitted, emptyDisk
<1>3. job.stage = "idle"
  BY DEF Init, Idle
<1>4. ContentOr(disk.findings, {}) = {}
  BY <1>2 DEF ContentOr
<1>5. CASE old.extract = <<>>
  BY <1>2, <1>3, <1>4, <1>5, NothingTold DEF StructureInv
<1>6. CASE old.extract # <<>>
  <2>1. PICK extract : extract = old.extract[1]
    OBVIOUS
  <2>2. old.extract = <<extract>>
    BY <1>6, <2>1, ShapesAssumption
  <2>3. extract \in ToSet(old.extract)
    BY <2>2 DEF ToSet
  <2>4. ExtractShape(extract) /\ <<>> \in Seq(Correction)
    BY <2>3, ShapesAssumption
  <2>5. EventsTold(StructureOutputs(extract, <<>>).structure)
    BY <2>4, StructureTells
  <2>6. StructureOutputs(extract, <<>>).rdra # <<>>
    BY DEF StructureOutputs
  <2> QED
    BY <1>2, <1>3, <1>4, <1>6, <2>1, <2>5, <2>6 DEF StructureInv
<1> QED
  BY <1>5, <1>6

LEMMA StructureNext ==
    ASSUME DerivedInv, LayersInv, AnalysisInv, GlossaryInv, GlossaryInv', StructureInv, [Next]_vars
    PROVE  StructureInv'
<1>1. /\ {"structure", "rdra", "findings"} \subseteq DOMAIN disk
      /\ Idle.stage = "idle"
  BY DEF DerivedInv, FilesOK, emptyDisk, Idle
<1>2. crashes' = 0 => crashes = 0 /\ ~Crash
  <2>1. CASE Crash
    BY <2>1 DEF Crash, GlossaryInv
  <2>2. CASE ~Crash
    BY <2>2 DEF Next, EditAdrs, Decide, RecordCorrection, EmitIntent, WriteAggregates,
       AnalyzeStructure, EmitStructure, Crawl, EmitBehavior, BridgeTransactions, WriteSitemap,
       StartReconcile, WriteRegistry, WriteUnified, WriteMapping, EndRejected, Verify,
       WriteBoundary, Clear, Edit, counterVars, vars
  <2> QED
    BY <2>1, <2>2
<1>3. CASE AnalyzeStructure
  <2>1. PICK extract : job' = [stage |-> "structure", extract |-> extract,
                               out |-> StructureOutputs(extract, corrections)]
    BY <1>3 DEF AnalyzeStructure
  <2>2. "rdra" \in DOMAIN job'.out /\ job'.out.rdra # <<>> /\ job'.stage = "structure"
    BY <2>1 DEF StructureOutputs
  <2>3. disk' = disk
    BY <1>3 DEF AnalyzeStructure
  <2> QED
    BY <2>2, <2>3 DEF StructureInv
<1>4. CASE EmitStructure
  <2>1. /\ job.stage = "structure" /\ DOMAIN job = {"stage", "extract", "out"}
        /\ DOMAIN job.out \subseteq {"structure", "rdra"}
    BY <1>4 DEF DerivedInv, JobOK, EmitStructure, Idle, ReconcileStages, Rejected
  <2>2. PICK file \in DOMAIN job.out :
          /\ disk' = [disk EXCEPT ![file] = job.out[file]]
          /\ job' = IF DOMAIN job.out = {file} THEN Idle
                    ELSE [job EXCEPT !.out = Restrict(@, DOMAIN @ \ {file})]
    BY <1>4 DEF EmitStructure
  <2>3. disk'.findings = disk.findings
    BY <1>1, <2>1, <2>2
  <2>4. "structure" \in DOMAIN job.out => EventsTold(job.out.structure)
    <3>1. PICK extract, made : extract = job.extract /\ made = corrections
      OBVIOUS
    <3>2. /\ extract \in Extracts /\ made \in Seq(Correction)
          /\ "structure" \in DOMAIN job.out =>
                job.out.structure = StructureOutputs(extract, made).structure
      BY Zenon, <2>1, <3>1 DEF AnalysisInv, LayersInv
    <3>3. ExtractShape(extract)
      BY <3>2, ShapesAssumption
    <3> QED
      BY <3>2, <3>3, StructureTells
  <2>5. CASE file = "structure"
    <3>1. disk'.structure = job.out.structure /\ disk'.rdra = disk.rdra
      BY <1>1, <2>2, <2>5
    <3>2. CASE DOMAIN job.out = {file}
      <4>1. "rdra" \notin DOMAIN job.out /\ job'.stage = "idle"
        BY <1>1, <2>2, <2>5, <3>2
      <4> QED
        BY <2>1, <2>2, <2>3, <2>4, <2>5, <3>1, <4>1 DEF StructureInv
    <3>3. CASE DOMAIN job.out # {file}
      <4>1. job'.out = [f \in DOMAIN job.out \ {file} |-> job.out[f]] /\ job'.stage = "structure"
        BY <2>1, <2>2, <3>3 DEF Restrict
      <4>2. "rdra" \in DOMAIN job.out
        BY <2>1, <2>2, <2>5, <3>3
      <4>3. "rdra" \in DOMAIN job'.out /\ job'.out.rdra = job.out.rdra
        BY <2>5, <4>1, <4>2
      <4> QED
        BY <2>1, <2>2, <2>3, <2>4, <2>5, <3>1, <4>1, <4>2, <4>3 DEF StructureInv
    <3> QED
      BY <3>2, <3>3
  <2>6. CASE file = "rdra"
    <3>1. disk'.structure = disk.structure /\ disk'.rdra = job.out.rdra
      BY <1>1, <2>2, <2>6
    <3>2. job.out.rdra # <<>>
      BY <2>1, <2>2, <2>6 DEF StructureInv
    <3>3. job'.stage = "structure" => "rdra" \notin DOMAIN job'.out
      <4>1. CASE DOMAIN job.out = {file}
        BY <1>1, <2>2, <4>1
      <4>2. CASE DOMAIN job.out # {file}
        <5>1. job'.out = [f \in DOMAIN job.out \ {file} |-> job.out[f]]
          BY <2>1, <2>2, <4>2 DEF Restrict
        <5> QED
          BY <2>6, <5>1
      <4> QED
        BY <4>1, <4>2
    <3> QED
      BY <2>3, <3>1, <3>2, <3>3 DEF StructureInv
  <2> QED
    BY <2>1, <2>2, <2>5, <2>6
<1>5. CASE Clear
  <2>1. PICK gone :
          /\ disk' = [file \in DOMAIN disk |-> IF file \in gone THEN <<>> ELSE disk[file]]
          /\ "structure" \in gone <=> "rdra" \in gone
    BY <1>5, ClearIs
  <2>2. /\ \/ disk'.structure = <<>> /\ disk'.rdra = <<>>
           \/ disk'.structure = disk.structure /\ disk'.rdra = disk.rdra
        /\ disk'.findings \in {disk.findings, <<>>}
    BY <1>1, <2>1
  <2>3. job' = job /\ job = Idle
    BY <1>5 DEF Clear, Edit
  <2>4. ContentOr(<<>>, {}) = {}
    BY DEF ContentOr
  <2> QED
    BY <1>1, <1>2, <2>2, <2>3, <2>4, NothingTold DEF StructureInv
<1>6. CASE Verify
  <2>1. PICK found, view : found = verifyUnified(view)
                           /\ disk' = [disk EXCEPT !.findings = <<found>>]
    BY <1>6 DEF Verify
  <2>2. /\ disk'.findings = <<found>> /\ disk'.structure = disk.structure
        /\ disk'.rdra = disk.rdra
    BY <1>1, <2>1
  <2>3. ContentOr(disk'.findings, {}) = found
    BY <2>2 DEF ContentOr
  <2>4. job'.stage = "boundary" /\ job.stage = "idle"
    BY <1>1, <1>6 DEF Verify
  <2>5. \A f \in found : f.verdict.classification \in {"bug", "uncertain", "unnecessary"}
    BY <2>1, Verdicts
  <2> QED
    BY <1>2, <2>2, <2>3, <2>4, <2>5 DEF StructureInv
<1>7. CASE ~AnalyzeStructure /\ ~EmitStructure /\ ~Clear /\ ~Verify
  <2>1. /\ disk'.structure = disk.structure /\ disk'.rdra = disk.rdra
        /\ disk'.findings = disk.findings
    BY <1>7, WrittenBy
  <2>2. job'.stage = "structure" => job' = job
    BY <1>7, ComesTo
  <2>3. crashes' = 0 /\ job.stage = "structure" => job' = job
    BY <1>2, <1>7, GoesOn DEF vars
  <2> QED
    BY <1>2, <2>1, <2>2, <2>3 DEF StructureInv
<1> QED
  BY <1>3, <1>4, <1>5, <1>6, <1>7

LEMMA StructureAlways == Spec => []StructureInv
<1>1. SpineInv /\ AnalysisInv /\ GlossaryInv /\ GlossaryInv' /\ StructureInv /\ [Next]_vars
        => StructureInv'
  BY StructureNext DEF SpineInv
<1> QED
  BY <1>1, SpineAlways, AnalysisAlways, GlossaryAlways, StructureInit, PTL DEF Spec

-------------------------------------------------------------------------------
(* What the viewer shows.                                                    *)

\* The menus of missing files have nothing to show.
LEMMA GuidanceIs ==
    ASSUME NEW files,
           files.intent = <<>> => ContentOr(files.aggregates, <<>>) = <<>>,
           files.rdra = <<>> => files.structure = <<>>
    PROVE  GuidanceIsHonest(files)
<1> DEFINE artifacts == checkArtifacts(files)
           guidance == buildGuidance(artifacts)
<1>1. /\ guidance["intent"] = ("intent" \in artifacts)
      /\ guidance["structure"] = (artifacts \cap {"rdra", "unified"} # {})
      /\ guidance["behavior-traffic"]
           = ("transactions" \in artifacts /\ artifacts \cap {"rdra", "unified"} # {})
      /\ guidance["behavior-sitemap"] = ("sitemap" \in artifacts)
  <2> HIDE DEF artifacts
  <2> QED
    BY DEF buildGuidance
<1>2. /\ "intent" \in artifacts <=> files.intent # <<>>
      /\ "rdra" \in artifacts <=> files.rdra # <<>>
      /\ "unified" \in artifacts <=> files.unified # <<>>
      /\ "transactions" \in artifacts <=> files.transactions # <<>>
      /\ "sitemap" \in artifacts <=> files.sitemap # <<>>
  BY DEF checkArtifacts
<1> HIDE DEF guidance, artifacts
<1>3. DOMAIN <<>> = {} /\ IsSequence(<<>>) /\ ToSet(<<>>) = {}
  BY NoElements
<1>4. ASSUME ~guidance["intent"] PROVE joinIntentModel(files).aggregates = <<>>
  <2>1. PICK roster : roster = ContentOr(files.aggregates, <<>>)
    OBVIOUS
  <2>2. roster = <<>>
    BY <1>1, <1>2, <1>4, <2>1
  <2> DEFINE inside(id) == {p \in ContentOr(files.mapping, {}) : p.aggregate = id}
             shown == [i \in DOMAIN roster |->
                         [conceptId |-> roster[i].conceptId, members |-> roster[i].members,
                          entities |-> inside(roster[i].conceptId)]]
  <2>3. \E a, b, c : joinIntentModel(files)
                       = [events |-> a, transitions |-> b, aggregates |-> shown, unassigned |-> c]
    BY Zenon, <2>1 DEF joinIntentModel, MapSeq
  <2>4. DOMAIN shown = {} /\ shown = [i \in DOMAIN <<>> |-> shown[i]]
    BY <1>3, <2>2
  <2> HIDE DEF shown
  <2>5. IsSequence(shown) /\ \A x \in ToSet(shown) : \E i \in DOMAIN <<>> : x = shown[i]
    BY <1>3, <2>4, MapIs
  <2>6. shown = <<>>
    BY <1>3, <2>5, EmptyIs
  <2> QED
    BY <2>3, <2>6
<1>5. ASSUME ~guidance["structure"] PROVE buildViewModel(files).reconcile = {}
  <2>1. PICK view : view = ContentOr(files.unified, <<>>)
    OBVIOUS
  <2>2. view = <<>>
    BY <1>1, <1>2, <1>5, <2>1 DEF ContentOr
  <2>3. \E a, b, c, d : buildViewModel(files)
            = [entities |-> a, relationships |-> b, usecases |-> c, routes |-> d,
               reconcile |-> {reconcileRow(id, view[id]) : id \in DOMAIN view}]
    BY Zenon, <2>1 DEF buildViewModel
  <2>4. {reconcileRow(id, view[id]) : id \in DOMAIN view} = {}
    BY <1>3, <2>2
  <2> QED
    BY <2>3, <2>4
<1>6. ASSUME ~guidance["behavior-traffic"] PROVE DOMAIN buildTrafficModel(files).routes = {}
  <2>1. PICK routes, txs, read : /\ routes = extractStructureRoutes(files.structure)
                                 /\ txs = ContentOr(files.transactions, <<>>)
                                 /\ read = extractTxPersistence(files.behavior)
    OBVIOUS
  <2>2. \E a : buildTrafficModel(files) = [routes |-> joinTrafficRoutes(routes, txs, read), pages |-> a]
    BY Zenon, <2>1 DEF buildTrafficModel
  <2>3. DOMAIN joinTrafficRoutes(routes, txs, read)
          = {KeyOf(r) : r \in ToSet(routes)} \cap {TxKey(t) : t \in ToSet(txs)}
    BY DEF joinTrafficRoutes
  <2>4. files.transactions = <<>> \/ files.structure = <<>>
    BY <1>1, <1>2, <1>6
  <2>5. CASE files.transactions = <<>>
    <3>1. txs = <<>>
      BY <2>1, <2>5 DEF ContentOr
    <3>2. ToSet(txs) = {}
      BY Zenon, <1>3, <3>1
    <3> QED
      BY <2>2, <2>3, <3>2
  <2>6. CASE files.structure = <<>>
    <3>1. PICK set : set = RouteNodes(<<>>)
      OBVIOUS
    <3>2. ToSet(Only(<<>>, set)) = {}
      BY <1>3, OnlyOf
    <3>3. ToSet(routes) = {}
      BY <2>1, <2>6, <3>1, <3>2 DEF extractStructureRoutes
    <3> QED
      BY <2>2, <2>3, <3>3
  <2> QED
    BY <2>4, <2>5, <2>6
<1>7. ASSUME ~guidance["behavior-sitemap"] PROVE readSitemapModel(files) = <<>>
  BY Zenon, <1>1, <1>2, <1>7 DEF readSitemapModel
<1> QED
  BY Zenon, <1>4, <1>5, <1>6, <1>7 DEF GuidanceIsHonest, guidance, artifacts

ShownInv == SpineInv /\ BoundaryInv /\ GlossaryInv /\ RunsInv /\ StructureInv

LEMMA MappingPlaces ==
    ASSUME NEW in, InputsOK(in), NEW rows, WellPlaced(rows, in), NEW aggregates,
           NEW id \in DOMAIN rows,
           NEW node \in NodeIds(rows[id].intent \cup rows[id].structure \cup rows[id].behavior),
           node[1] = "structure:entity",
           NEW mapping, mapping = deriveAggregateEntityMapping(rows, aggregates)
    PROVE  IsFiniteSet(PlacesOf(mapping, node)) /\ Cardinality(PlacesOf(mapping, node)) = 1
  BY MappedOnce DEF PlacesOf

\* The menu of a mapping told to be current.
LEMMA MenuAgrees == ASSUME ShownInv, "mapping" \in fresh PROVE MenuHasEveryEntity(disk)
<1>1. PICK in, prior, file, out :
         /\ in = Inputs /\ prior = Registry /\ file = decisions
         /\ out = reconcile(in, prior, file)
  OBVIOUS
<1>2. InputsOK(in) /\ WellPlaced(out.unified, in)
      /\ out.registry.concepts = [id \in DOMAIN out.unified |-> asConcept(out.unified[id])]
  BY <1>1, InputsAreOK, ReconciledIs DEF ShownInv, Reconciled
<1>3. PICK roster : IsSequence(roster) /\ disk.aggregates = <<roster>>
  BY DEF ShownInv, GlossaryInv
<1>4. PICK rows, concepts, mapping :
         /\ rows = out.unified /\ concepts = out.registry.concepts
         /\ mapping = deriveAggregateEntityMapping(rows, roster)
  OBVIOUS
<1>5. disk.mapping = <<mapping>> /\ disk.registry = <<out.registry>>
  <2>1. disk.aggregates[1] = roster
    BY <1>3
  <2>2. Now = out
    BY Zenon, <1>1 DEF Now
  <2>3. /\ disk.mapping = <<deriveAggregateEntityMapping(Now.unified, disk.aggregates[1])>>
        /\ disk.registry = <<Now.registry>>
    BY DEF ShownInv, SpineInv, DerivedInv, FreshIsCurrent
  <2> QED
    BY Zenon, <1>4, <2>1, <2>2, <2>3
<1>6. disk.registry[1].concepts = concepts
  BY <1>4, <1>5
<1>7. /\ DOMAIN concepts = DOMAIN rows
      /\ \A id \in DOMAIN rows : concepts[id].nodes
            = NodeIds(rows[id].intent \cup rows[id].structure \cup rows[id].behavior)
  BY <1>2, <1>4 DEF asConcept
<1>8. \A p \in mapping :
         p.aggregate \in {roster[i].conceptId : i \in DOMAIN roster} \cup {NoId}
  <2>1. \A p \in mapping : \E id, n : p = PlaceOf(id, n, roster)
    BY <1>4, MappingIs
  <2> QED
    BY <1>3, <2>1, PlacedInRoster
<1>9. WellPlaced(rows, in) /\ InputsOK(in)
  BY Zenon, <1>2, <1>4
<1>10. PICK files : files = disk
  OBVIOUS
<1>11. files.aggregates = <<roster>> /\ files.mapping = <<mapping>>
  BY <1>3, <1>5, <1>10
<1>12. ASSUME NEW id \in DOMAIN concepts, NEW node \in concepts[id].nodes,
              node[1] = "structure:entity"
       PROVE  Cardinality(ShownPlaces(disk, node)) = 1
  <2>1. id \in DOMAIN rows
        /\ node \in NodeIds(rows[id].intent \cup rows[id].structure \cup rows[id].behavior)
    BY Zenon, <1>7, <1>12
  <2>2. IsFiniteSet(PlacesOf(mapping, node)) /\ Cardinality(PlacesOf(mapping, node)) = 1
    BY <1>4, <1>9, <1>12, <2>1, MappingPlaces
  <2>3. Cardinality(ShownPlaces(files, node)) = 1
    BY <1>3, <1>8, <1>11, <2>2, MenuIs
  <2> QED
    BY Zenon, <1>10, <2>3
<1> QED
  BY Zenon, <1>6, <1>12 DEF MenuHasEveryEntity, ShownPlaces

\* The traffic of current observations and a current boundary report.
LEMMA TrafficAgrees ==
    ASSUME ShownInv, {"behavior", "boundary"} \subseteq fresh PROVE TrafficAgreesWithBoundary(disk)
<1>1. /\ disk.boundary = <<buildBoundaryReport(disk.structure, disk.behavior)>>
      /\ disk.behavior = runEmit(runs) /\ disk.transactions = Bridge(runs)
      /\ runs.reports # <<>> /\ ArtifactsOK(runs)
      /\ \A txs \in ToSet(runs.transactions) : \A tx \in ToSet(txs) : tx.path \in Seq(DOMAIN Lower)
  BY DEF ShownInv, SpineInv, LayersInv, BoundaryInv, RunsInv
<1>2. PICK report, txs, saved, results :
         /\ report = Last(runs.reports) /\ txs = Latest(runs.transactions, <<>>)
         /\ runEmit(runs) = emitBehaviorAll(report, txs, saved, results)
  BY Zenon DEF runEmit
<1>3. IsSequence(report.pages) /\ IsSequence(report.transitions)
  BY <1>1, <1>2, LastIs DEF ArtifactsOK
<1>4. IsSequence(txs) /\ \A tx \in ToSet(txs) : tx.path \in Seq(DOMAIN Lower)
  <2>1. CASE runs.transactions = <<>>
    BY <1>2, <2>1, NoElements DEF Latest
  <2>2. CASE runs.transactions # <<>>
    <3>1. txs = Last(runs.transactions)
      BY <1>2, <2>2 DEF Latest
    <3>2. txs \in ToSet(runs.transactions)
      BY <1>1, <2>2, <3>1, LastIs DEF ArtifactsOK
    <3> QED
      BY <1>1, <3>2 DEF ArtifactsOK
  <2> QED
    BY <2>1, <2>2
<1>5. PICK files : files = disk
  OBVIOUS
<1>6. BehaviorTold(files.behavior, txs, results)
  BY <1>1, <1>2, <1>3, <1>4, <1>5, EmittedBehavior
<1>7. files.transactions = <<txs>>
  BY <1>1, <1>2, <1>5 DEF Bridge
<1>8. IsSequence(files.structure) /\ IsSequence(files.behavior)
  BY <1>5 DEF ShownInv, SpineInv, LayersInv, StructureNodesOK, BehaviorNodesOK
<1>9. files.boundary = <<buildBoundaryReport(files.structure, files.behavior)>>
  BY <1>1, <1>5
<1>10. TrafficAgreesWithBoundary(files)
  BY <1>4, <1>6, <1>7, <1>8, <1>9, TrafficIs
<1> QED
  BY Zenon, <1>5, <1>10

\* The overview of a view told to be current.
LEMMA OverviewAgrees ==
    ASSUME ShownInv, {"registry", "unified"} \subseteq fresh PROVE OverviewMatchesRegistry(disk)
<1>1. PICK in, prior, file, out :
         /\ in = Inputs /\ prior = Registry /\ file = decisions
         /\ out = reconcile(in, prior, file)
  OBVIOUS
<1>2. InputsOK(in) /\ Reconciled(out, in)
  BY <1>1, InputsAreOK, ReconciledIs DEF ShownInv
<1>3. Now = out
  BY Zenon, <1>1 DEF Now
<1>4. disk.registry = <<Now.registry>> /\ disk.unified = <<Now.unified>>
  BY DEF ShownInv, SpineInv, DerivedInv, FreshIsCurrent
<1>5. PICK files : files = disk
  OBVIOUS
<1>6. files.registry = <<out.registry>> /\ files.unified = <<out.unified>>
  BY Zenon, <1>3, <1>4, <1>5
<1>7. OverviewMatchesRegistry(files)
  BY <1>2, <1>6, OverviewIs
<1> QED
  BY Zenon, <1>5, <1>7

LEMMA DiffAgrees == ASSUME ShownInv PROVE DiffKeepsEveryChange(disk)
<1>1. PICK files : files = disk
  OBVIOUS
<1>2. /\ IsSequence(files.intent) /\ IsSequence(files.structure) /\ EventsTold(files.structure)
      /\ \A f \in ContentOr(files.findings, {}) :
            f.verdict.classification \in {"bug", "uncertain", "unnecessary"}
  BY <1>1 DEF ShownInv, SpineInv, LayersInv, IntentNodesOK, StructureNodesOK, StructureInv
<1>3. DiffKeepsEveryChange(files)
  BY <1>2, DiffIs
<1> QED
  BY Zenon, <1>1, <1>3

LEMMA GuidanceAgrees ==
    ASSUME ShownInv, job = Idle, crashes = 0 PROVE GuidanceIsHonest(disk)
<1>1. PICK files : files = disk
  OBVIOUS
<1>2. job.stage = "idle"
  BY DEF Idle
<1>3. /\ files.intent = <<>> => ContentOr(files.aggregates, <<>>) = <<>>
      /\ files.rdra = <<>> => files.structure = <<>>
  BY <1>1, <1>2 DEF ShownInv, GlossaryInv, StructureInv
<1>4. GuidanceIsHonest(files)
  BY <1>3, GuidanceIs
<1> QED
  BY Zenon, <1>1, <1>4

\* What the viewer shows of the current files is whole (viewer/src): the menu
\* places every entity once, the traffic is where the boundary check saw both
\* sides and carries its verdict, the overview has the registry's concepts with
\* as many nodes, a menu called empty is empty unless a crash left a file behind,
\* and the diff leaves out no event, no route of an event and no finding.
THEOREM SpineViewsAgree == Spec => []ViewsAgree
<1>1. ShownInv => ViewsAgree
  BY MenuAgrees, TrafficAgrees, OverviewAgrees, DiffAgrees, GuidanceAgrees DEF ViewsAgree
<1> QED
  BY <1>1, SpineAlways, BoundaryAlways, GlossaryAlways, RunsAlways, StructureAlways, PTL
     DEF ShownInv

-------------------------------------------------------------------------------
(* The analysis: the order of strings, and sorting by it.                    *)

\* The strings of the analysis, and where one comes before another.
Strings == Seq(DOMAIN Place)

EarlierAt(a, b, k) ==
    /\ k \in 0..Len(b) - 1 /\ k <= Len(a)
    /\ \A i \in 1..k : a[i] = b[i]
    /\ k < Len(a) => Place[a[k + 1]] < Place[b[k + 1]]

LEMMA EarlierIs ==
    ASSUME NEW a \in Strings, NEW b \in Strings
    PROVE  Earlier(a, b) <=> \E k \in Nat : EarlierAt(a, b, k)
<1>1. ASSUME NEW k \in Nat, k <= Len(a), k <= Len(b)
      PROVE  SubSeq(a, 1, k) = SubSeq(b, 1, k) <=> \A i \in 1..k : a[i] = b[i]
  <2>1. /\ SubSeq(a, 1, k) \in Strings /\ SubSeq(b, 1, k) \in Strings
        /\ Len(SubSeq(a, 1, k)) = k /\ Len(SubSeq(b, 1, k)) = k
        /\ \A i \in 1..k : SubSeq(a, 1, k)[i] = a[i] /\ SubSeq(b, 1, k)[i] = b[i]
    BY <1>1 DEF Strings
  <2> QED
    BY <2>1 DEF Strings
<1>2. Len(a) \in Nat /\ Len(b) \in Nat
  BY DEF Strings
<1> QED
  BY <1>1, <1>2 DEF Earlier, EarlierAt

LEMMA EarlierOrders ==
    ASSUME NEW a \in Strings, NEW b \in Strings, NEW c \in Strings
    PROVE  ~Earlier(a, a) /\ (Earlier(a, b) /\ Earlier(b, c) => Earlier(a, c))
<1>1. \A word \in DOMAIN Place : Place[word] \in Nat
  BY Zenon, ExtractionAssumption
<1>2. /\ Len(a) \in Nat /\ Len(b) \in Nat /\ Len(c) \in Nat
      /\ \A i \in 1..Len(a) : Place[a[i]] \in Nat
      /\ \A i \in 1..Len(b) : Place[b[i]] \in Nat
      /\ \A i \in 1..Len(c) : Place[c[i]] \in Nat
  BY <1>1 DEF Strings
<1>3. ~Earlier(a, a)
  <2> SUFFICES ASSUME NEW k \in Nat, EarlierAt(a, a, k) PROVE FALSE
    BY EarlierIs
  <2>1. k + 1 \in 1..Len(a) /\ k < Len(a)
    BY <1>2 DEF EarlierAt
  <2> QED
    BY <1>2, <2>1 DEF EarlierAt
<1>4. ASSUME Earlier(a, b), Earlier(b, c) PROVE Earlier(a, c)
  <2>1. PICK k \in Nat : EarlierAt(a, b, k)
    BY <1>4, EarlierIs
  <2>2. PICK l \in Nat : EarlierAt(b, c, l)
    BY <1>4, EarlierIs
  <2>3. CASE k < l
    <3>1. EarlierAt(a, c, k)
      <4>1. k \in 0..Len(c) - 1 /\ k <= Len(a) /\ k + 1 \in 1..l
        BY <1>2, <2>1, <2>2, <2>3 DEF EarlierAt
      <4>2. \A i \in 1..k : a[i] = c[i]
        BY <2>1, <2>2, <2>3 DEF EarlierAt
      <4>3. b[k + 1] = c[k + 1]
        BY <2>2, <4>1 DEF EarlierAt
      <4> QED
        BY <2>1, <4>1, <4>2, <4>3 DEF EarlierAt
    <3> QED
      BY <3>1, EarlierIs
  <2>4. CASE k = l
    <3>1. EarlierAt(a, c, k)
      <4>1. k \in 0..Len(c) - 1 /\ k <= Len(a) /\ k < Len(b) /\ k + 1 \in 1..Len(b) /\ k + 1 \in 1..Len(c)
        BY <1>2, <2>1, <2>2, <2>4 DEF EarlierAt
      <4>2. \A i \in 1..k : a[i] = c[i]
        BY <2>1, <2>2, <2>4 DEF EarlierAt
      <4>3. Place[b[k + 1]] < Place[c[k + 1]]
        BY <2>2, <2>4, <4>1 DEF EarlierAt
      <4>4. ASSUME k < Len(a) PROVE Place[a[k + 1]] < Place[c[k + 1]]
        <5>1. k + 1 \in 1..Len(a) /\ Place[a[k + 1]] < Place[b[k + 1]]
          BY <1>2, <2>1, <4>4 DEF EarlierAt
        <5> QED
          BY <1>2, <4>1, <4>3, <5>1
      <4> QED
        BY <4>1, <4>2, <4>4 DEF EarlierAt
    <3> QED
      BY <3>1, EarlierIs
  <2>5. CASE l < k
    <3>1. EarlierAt(a, c, l)
      <4>1. l \in 0..Len(c) - 1 /\ l <= Len(a) /\ l < Len(b) /\ l + 1 \in 1..k
        BY <1>2, <2>1, <2>2, <2>5 DEF EarlierAt
      <4>2. \A i \in 1..l : a[i] = c[i]
        BY <2>1, <2>2, <2>5 DEF EarlierAt
      <4>3. a[l + 1] = b[l + 1]
        BY <2>1, <4>1 DEF EarlierAt
      <4> QED
        BY <2>2, <4>1, <4>2, <4>3 DEF EarlierAt
    <3> QED
      BY <3>1, EarlierIs
  <2> QED
    BY <2>3, <2>4, <2>5
<1> QED
  BY <1>3, <1>4

\* A finite set that is not empty has an element no other comes before.
LEMMA FirstExists ==
    ASSUME NEW string, NEW left \in SUBSET DOMAIN string, IsFiniteSet(left), left # {},
           \A x \in left : string[x] \in Strings
    PROVE  \E x \in left : \A y \in left : ~Earlier(string[y], string[x])
<1> DEFINE before(x) == {y \in left : Earlier(string[y], string[x])}
<1>1. \A x \in left : IsFiniteSet(before(x)) /\ Cardinality(before(x)) \in Nat
  BY FS_Subset, FS_CardinalityType
<1>2. PICK x \in left : \A y \in left : Cardinality(before(x)) <= Cardinality(before(y))
  <2> DEFINE ranks == {Cardinality(before(x)) : x \in left}
  <2>1. ranks \in SUBSET Nat /\ ranks # {}
    BY <1>1
  <2>2. PICK n \in ranks : \A m \in ranks : n <= m
    <3> HIDE DEF ranks
    <3> QED
      BY <2>1, LeastNat
  <2> QED
    BY <2>2
<1>3. ASSUME NEW y \in left, Earlier(string[y], string[x]) PROVE FALSE
  <2>1. before(y) \subseteq before(x)
    BY <1>3, EarlierOrders
  <2>2. y \in before(x) /\ y \notin before(y)
    BY <1>3, EarlierOrders
  <2>3. PICK S, T : S = before(x) /\ T = before(y)
    OBVIOUS
  <2>4. IsFiniteSet(S) /\ T \subseteq S /\ T # S
    BY <1>1, <2>1, <2>2, <2>3
  <2>5. Cardinality(T) < Cardinality(S)
    BY <2>4, FS_Subset, FS_CardinalityType
  <2>6. Cardinality(S) \in Nat /\ Cardinality(T) \in Nat
    BY <1>1, <2>3
  <2>7. Cardinality(S) <= Cardinality(T)
    BY <1>2, <2>3
  <2> QED
    BY <2>5, <2>6, <2>7
<1> QED
  BY <1>3

\* The sorted elements so far, up to each number of them.
Foremost(string, left) ==
    CHOOSE x \in left : \A y \in left : ~Earlier(string[y], string[x])

SortedUpTo(string) ==
    CHOOSE sorted : sorted = [n \in 0..Cardinality(DOMAIN string) |->
        IF n = 0 THEN <<>>
        ELSE Append(sorted[n - 1], Foremost(string, DOMAIN string \ ToSet(sorted[n - 1])))]

\* Sorting loses and doubles no element.
LEMMA SortedIs ==
    ASSUME NEW string, IsFiniteSet(DOMAIN string),
           \A x \in DOMAIN string : string[x] \in Strings
    PROVE  LET s == Sorted(string)
           IN /\ IsSequence(s) /\ ToSet(s) = DOMAIN string
              /\ \A i, j \in DOMAIN s : s[i] = s[j] => i = j
<1>1. PICK S, N : S = DOMAIN string /\ N = Cardinality(S) /\ N \in Nat
  BY FS_CardinalityType
<1> DEFINE first(left) == Foremost(string, left)
           T == Seq(S \cup {first({})})
           next(p) == IF S \ ToSet(p) = {} THEN <<>> ELSE Append(p, first(S \ ToSet(p)))
           F == [p \in (1..N) \X T |-> next(p[2])]
           Good(p, n) == /\ p \in Seq(S) /\ Len(p) = n
                         /\ \A i, j \in 1..n : p[i] = p[j] => i = j
<1>2. ASSUME NEW left \in SUBSET S, left # {} PROVE first(left) \in left
  <2>1. IsFiniteSet(left)
    BY <1>1, FS_Subset
  <2> QED
    BY <1>1, <1>2, <2>1, FirstExists DEF Foremost
<1> HIDE DEF first
<1>3. ASSUME NEW p \in T PROVE next(p) \in T
  <2>1. S \ ToSet(p) # {} => first(S \ ToSet(p)) \in S
    BY <1>2
  <2> QED
    BY <2>1
<1>4. <<>> \in T /\ F \in [(1..N) \X T -> T]
  BY <1>3
<1>5. \A n \in 1..N, p \in T : F[<<n, p>>] = next(p)
  <2> HIDE DEF T, next
  <2> QED
    OBVIOUS
<1> HIDE DEF F, T
<1>6. PICK s : Recursion(s, T, <<>>, N, F)
  BY <1>1, <1>4, RecursionExists
<1>7. /\ s \in [0..N -> T] /\ s[0] = <<>>
      /\ \A n \in 1..N : s[n] = next(s[n - 1])
  <2> HIDE DEF next
  <2>1. \A n \in 1..N : n - 1 \in 0..N
    BY <1>1
  <2> QED
    BY <1>5, <1>6, <2>1 DEF Recursion
<1>8. ASSUME NEW p, NEW n \in Nat, Good(p, n), n < N
      PROVE  /\ next(p) = Append(p, first(S \ ToSet(p)))
             /\ Good(next(p), n + 1)
  <2>1. DOMAIN p = 1..n /\ ToSet(p) = {p[i] : i \in 1..n} /\ ToSet(p) \subseteq S
    BY <1>8 DEF ToSet
  <2>2. IsFiniteSet(ToSet(p)) /\ Cardinality(ToSet(p)) <= n
    <3>1. IsFiniteSet(1..n) /\ Cardinality(1..n) = n
      BY FS_Interval
    <3>2. PICK f : f = [i \in 1..n |-> p[i]]
      OBVIOUS
    <3>3. f \in Surjection(1..n, ToSet(p))
      BY <2>1, <3>2 DEF Surjection
    <3> QED
      BY <3>1, <3>3, FS_Surjection
  <2>3. ToSet(p) # S
    BY <1>1, <1>8, <2>2, FS_CardinalityType
  <2>4. S \ ToSet(p) # {} /\ S \ ToSet(p) \in SUBSET S
    BY <2>1, <2>3
  <2>5. PICK x : x = first(S \ ToSet(p)) /\ x \in S /\ x \notin ToSet(p)
    BY <1>2, <2>4
  <2>6. next(p) = Append(p, x)
    BY <2>4, <2>5
  <2>7. /\ Append(p, x) \in Seq(S) /\ Len(Append(p, x)) = n + 1
        /\ \A i \in 1..n : Append(p, x)[i] = p[i]
        /\ Append(p, x)[n + 1] = x
    BY <1>8, <2>5, AppendIs
  <2>8. \A i, j \in 1..n + 1 : Append(p, x)[i] = Append(p, x)[j] => i = j
    <3>1. \A i \in 1..n : p[i] # x
      BY <2>1, <2>5
    <3>2. \A i \in 1..n + 1 : i \in 1..n \/ i = n + 1
      OBVIOUS
    <3> QED
      BY <1>8, <2>7, <3>1, <3>2
  <2> QED
    BY <2>5, <2>6, <2>7, <2>8
<1>9. \A n \in 0..N : Good(s[n], n)
  <2> DEFINE M == {n \in Nat : n <= N => Good(s[n], n)}
  <2>1. 0 \in M
    <3>1. s[0] = <<>>
      BY <1>7
    <3>2. Good(<<>>, 0)
      OBVIOUS
    <3> HIDE DEF Good
    <3> QED
      BY <3>1, <3>2
  <2>2. ASSUME NEW n \in Nat, n \in M PROVE n + 1 \in M
    <3> HIDE DEF Good, next
    <3> SUFFICES ASSUME n + 1 <= N PROVE Good(s[n + 1], n + 1)
      OBVIOUS
    <3>1. Good(s[n], n) /\ n < N
      BY <1>1, <2>2
    <3>2. n + 1 \in 1..N /\ (n + 1) - 1 = n
      BY <1>1, <3>1
    <3>3. s[n + 1] = next(s[n])
      BY <1>7, <3>2
    <3> QED
      BY <1>8, <3>1, <3>3
  <2> HIDE DEF M
  <2>3. Nat \subseteq M
    BY <2>1, <2>2, NatSetInduction
  <2>4. \A n \in 0..N : n \in M /\ n <= N
    BY <1>1, <2>3
  <2> USE DEF M
  <2> QED
    BY <2>4
<1>10. s = [n \in 0..N |-> IF n = 0 THEN <<>> ELSE Append(s[n - 1], first(S \ ToSet(s[n - 1])))]
  <2>1. s \in [0..N -> T] /\ s[0] = <<>>
    BY <1>7
  <2> HIDE DEF next, Good
  <2>2. ASSUME NEW n \in 1..N PROVE s[n] = Append(s[n - 1], first(S \ ToSet(s[n - 1])))
    <3>1. n - 1 \in 0..N /\ n - 1 \in Nat /\ n - 1 < N
      BY <1>1
    <3>2. Good(s[n - 1], n - 1)
      BY <1>9, <3>1
    <3>3. s[n] = next(s[n - 1])
      BY <1>7
    <3> QED
      BY <1>8, <3>1, <3>2, <3>3
  <2>3. \A n \in 0..N : n = 0 \/ n \in 1..N
    BY <1>1
  <2> QED
    BY <2>1, <2>2, <2>3
<1>11. SortedUpTo(string) = [n \in 0..N |->
          IF n = 0 THEN <<>>
          ELSE Append(SortedUpTo(string)[n - 1], first(S \ ToSet(SortedUpTo(string)[n - 1])))]
  <2> DEFINE Is(t) == t = [n \in 0..N |->
                 IF n = 0 THEN <<>> ELSE Append(t[n - 1], first(S \ ToSet(t[n - 1])))]
  <2>1. SortedUpTo(string) = CHOOSE t : Is(t)
    BY <1>1 DEF SortedUpTo, first
  <2>2. Is(s)
    BY <1>10
  <2>3. \A t : t = (CHOOSE u : Is(u)) => Is(t)
    <3> HIDE DEF Is
    <3> QED
      BY <2>2
  <2>4. Is(SortedUpTo(string))
    <3> HIDE DEF Is
    <3> QED
      BY <2>1, <2>3
  <2> QED
    BY <2>4
<1> HIDE DEF next, Good
<1>12. PICK t : t = SortedUpTo(string)
  OBVIOUS
<1>13. \A n \in 0..N : t[n] = s[n]
  <2> DEFINE M == {n \in Nat : n <= N => t[n] = s[n]}
  <2>1. 0 \in M
    BY <1>1, <1>10, <1>11, <1>12
  <2>2. ASSUME NEW n \in Nat, n \in M PROVE n + 1 \in M
    <3> SUFFICES ASSUME n + 1 <= N PROVE t[n + 1] = s[n + 1]
      OBVIOUS
    <3>1. n + 1 \in 0..N /\ n + 1 # 0 /\ (n + 1) - 1 = n /\ t[n] = s[n]
      BY <1>1, <2>2
    <3>2. t[n + 1] = Append(t[n], first(S \ ToSet(t[n])))
      BY <1>11, <1>12, <3>1
    <3>3. s[n + 1] = Append(s[n], first(S \ ToSet(s[n])))
      BY <1>10, <3>1
    <3> QED
      BY <3>1, <3>2, <3>3
  <2> HIDE DEF M
  <2>3. Nat \subseteq M
    BY <2>1, <2>2, NatSetInduction
  <2>4. \A n \in 0..N : n \in M /\ n <= N
    BY <1>1, <2>3
  <2> USE DEF M
  <2> QED
    BY <2>4
<1>14. Sorted(string) = s[N]
  <2>1. Sorted(string) = t[N]
    BY <1>1, <1>12 DEF Sorted, SortedUpTo, Foremost
  <2> QED
    BY <1>1, <1>13, <2>1
<1>15. PICK p : p = s[N] /\ Good(p, N)
  BY <1>1, <1>9
<1> USE DEF Good
<1>16. DOMAIN p = 1..N /\ ToSet(p) = {p[i] : i \in 1..N} /\ ToSet(p) \subseteq S /\ IsSequence(p)
  BY <1>15, TypedIs DEF ToSet
<1>17. ToSet(p) = S
  <2>1. PICK f, V : f = [i \in 1..N |-> p[i]] /\ V = ToSet(p)
    OBVIOUS
  <2>2. f \in [1..N -> V] /\ (\A x \in V : \E i \in 1..N : f[i] = x)
        /\ \A i, j \in 1..N : f[i] = f[j] => i = j
    BY <1>15, <1>16, <2>1
  <2>3. ExistsBijection(1..N, V)
    BY <2>2 DEF ExistsBijection, Bijection, Injection, Surjection, IsInjective
  <2>4. IsFiniteSet(1..N) /\ Cardinality(1..N) = N
    BY <1>1, FS_Interval
  <2>5. Cardinality(ToSet(p)) = N
    BY <2>1, <2>3, <2>4, FS_Bijection
  <2> QED
    BY <1>1, <1>16, <2>5, FS_Subset
<1>18. \A i, j \in DOMAIN p : p[i] = p[j] => i = j
  BY <1>15, <1>16
<1> QED
  BY <1>1, <1>14, <1>15, <1>16, <1>17, <1>18

LEMMA NoLength == \A s : IsSequence(s) /\ Len(s) = 0 => s = <<>>
  BY DEF IsSequence

\* The elements of all sequences that are put one after another.
LEMMA FlattenedIs ==
    ASSUME NEW f, NEW n \in Nat, \A i \in 1..n : IsSequence(f[i])
    PROVE  LET s == FlattenSeq([i \in 1..n |-> f[i]])
           IN IsSequence(s) /\ ToSet(s) = UNION {ToSet(f[i]) : i \in 1..n}
<1>1. PICK seqs, T : seqs = [i \in 1..n |-> f[i]] /\ T = UNION {ToSet(f[i]) : i \in 1..n}
  OBVIOUS
<1>2. ASSUME NEW i \in 1..n PROVE f[i] \in Seq(T)
  <2>1. PICK U : U = ToSet(f[i]) /\ f[i] \in Seq(U)
    BY DEF IsSequence
  <2>2. U \subseteq T
    BY <1>1, <2>1
  <2> QED
    BY <2>1, <2>2
<1>3. seqs \in Seq(Seq(T)) /\ Len(seqs) = n
  <2>1. PICK U : U = Seq(T)
    OBVIOUS
  <2>2. [i \in 1..n |-> f[i]] \in Seq(U) /\ Len([i \in 1..n |-> f[i]]) = n
    BY <1>2, <2>1
  <2> QED
    BY <1>1, <2>1, <2>2
<1>4. CASE n = 0
  <2>1. FlattenSeq(seqs) = <<>>
    <3>1. FlattenSeq(seqs) = seqs
      BY <1>3, <1>4 DEF FlattenSeq
    <3>2. seqs = <<>>
      BY <1>1, <1>4
    <3> QED
      BY <3>1, <3>2
  <2>2. T = {}
    BY <1>1, <1>4
  <2> QED
    BY <1>1, <2>1, <2>2, NoElements
<1>5. CASE n # 0
  <2>1. PICK joined : joined = Joined(seqs)[n] /\ FlattenSeq(seqs) = joined
    BY <1>3, <1>5 DEF FlattenSeq, Joined
  <2>2. /\ joined \in Seq(T)
        /\ \A x : (\E i \in 1..Len(joined) : joined[i] = x)
                   <=> (\E k \in 1..n : \E i \in 1..Len(seqs[k]) : seqs[k][i] = x)
    <3>1. n \in 1..Len(seqs)
      BY <1>3, <1>5
    <3>2. AllAreJoined(T, seqs, n)
      BY <1>3, <3>1, JoinedIs
    <3> QED
      BY Zenon, <2>1, <3>2 DEF AllAreJoined
  <2>3. IsSequence(joined) /\ ToSet(joined) \subseteq T /\ DOMAIN joined = 1..Len(joined)
    BY <2>2, TypedIs
  <2>4. ASSUME NEW k \in 1..n, NEW x \in ToSet(f[k]) PROVE x \in ToSet(joined)
    <3>1. DOMAIN f[k] = 1..Len(f[k]) /\ seqs[k] = f[k]
      BY <1>1, SequenceIs
    <3>2. PICK i \in 1..Len(f[k]) : f[k][i] = x
      BY <3>1 DEF ToSet
    <3>3. \E j \in 1..Len(joined) : joined[j] = x
      BY <2>2, <3>1, <3>2
    <3> QED
      BY <2>3, <3>3 DEF ToSet
  <2>5. ToSet(joined) = T
    BY <1>1, <2>3, <2>4
  <2> QED
    BY <1>1, <2>1, <2>3, <2>5
<1> QED
  BY <1>4, <1>5

-------------------------------------------------------------------------------
(* The merge of what the units show.                                         *)

RouteOK(route) ==
    route.method \in DOMAIN Place /\ route.path \in Seq(DOMAIN Lower \cap DOMAIN Place)

\* A template has the key of the path it is made of.
LEMMA TemplateIs ==
    ASSUME NEW method, NEW path \in Seq(DOMAIN Lower \cap DOMAIN Place)
    PROVE  /\ templatize(path) \in Seq(DOMAIN Lower \cap DOMAIN Place)
           /\ normalizeRoute([method |-> method, path |-> templatize(path)])
              = normalizeRoute([method |-> method, path |-> path])
<1> DEFINE P == DOMAIN Lower \cap DOMAIN Place
           made(s) == IF s \in ParamSegment \ NamedParam THEN ":id" ELSE s
           normal(s) == IF Lower[s] \in ParamSegment THEN ":id" ELSE Lower[s]
<1>1. PICK n \in Nat : n = Len(path) /\ DOMAIN path = 1..n /\ \A i \in 1..n : path[i] \in P
  OBVIOUS
<1>2. ASSUME NEW s \in P PROVE made(s) \in P /\ normal(made(s)) = normal(s)
  BY NamesAssumption, ExtractionAssumption
<1>3. PICK t : t = templatize(path) /\ t = [i \in 1..n |-> made(path[i])]
  BY <1>1 DEF templatize
<1>4. t \in Seq(P) /\ DOMAIN t = 1..n
  <2>1. \A i \in 1..n : made(path[i]) \in P
    BY <1>1, <1>2
  <2> HIDE DEF P, made
  <2> QED
    BY <1>1, <1>3, <2>1
<1>5. \A i \in 1..n : normal(t[i]) = normal(path[i])
  <2> HIDE DEF P, made, normal
  <2> QED
    BY <1>1, <1>2, <1>3
<1>6. normalizeRoute([method |-> method, path |-> t])
      = normalizeRoute([method |-> method, path |-> path])
  BY <1>1, <1>4, <1>5 DEF normalizeRoute
<1> QED
  BY <1>3, <1>4, <1>6

\* One route per key, and every key.
LEMMA MergedRoutesAre ==
    ASSUME NEW routes, IsSequence(routes), \A r \in ToSet(routes) : RouteOK(r)
    PROVE  LET m == mergeRoutes(routes)
           IN /\ IsSequence(m)
              /\ \A i, j \in DOMAIN m : mergeKey(m[i]) = mergeKey(m[j]) => i = j
              /\ {mergeKey(r) : r \in ToSet(m)} = {mergeKey(r) : r \in ToSet(routes)}
<1> DEFINE same(key) == Only(routes, {r \in ToSet(routes) : mergeKey(r) = key})
           one(key) ==
                [method |-> same(key)[1].method, path |-> templatize(same(key)[1].path),
                 controller |-> FirstGiven(same(key), LAMBDA r : r.controller),
                 action |-> FirstGiven(same(key), LAMBDA r : r.action)]
           D == {one(mergeKey(r)) : r \in ToSet(routes)}
           string == [r \in D |-> <<r.method>> \o r.path]
<1>1. mergeRoutes(routes) = Sorted(string)
  BY DEF mergeRoutes
<1>2. \A key : one(key).method = same(key)[1].method
               /\ one(key).path = templatize(same(key)[1].path)
  OBVIOUS
<1> HIDE DEF one
<1>3. ASSUME NEW r \in ToSet(routes)
      PROVE  same(mergeKey(r))[1] \in ToSet(routes)
             /\ mergeKey(same(mergeKey(r))[1]) = mergeKey(r)
  <2>1. PICK key, s, S : /\ key = mergeKey(r) /\ s = same(key)
                         /\ S = {x \in ToSet(routes) : mergeKey(x) = key}
    OBVIOUS
  <2>2. IsSequence(s) /\ ToSet(s) = ToSet(routes) \cap S
    BY <2>1, OnlyOf
  <2>3. r \in ToSet(s)
    BY <2>1, <2>2
  <2>4. s[1] \in ToSet(s)
    <3>1. DOMAIN s = 1..Len(s) /\ Len(s) \in Nat
      BY <2>2, SequenceIs
    <3>2. 1 \in DOMAIN s
      BY <2>3, <3>1 DEF ToSet
    <3> QED
      BY <3>2 DEF ToSet
  <2> QED
    BY <2>1, <2>2, <2>4
<1>4. ASSUME NEW r \in ToSet(routes)
      PROVE  mergeKey(one(mergeKey(r))) = mergeKey(r) /\ RouteOK(one(mergeKey(r)))
  <2>1. PICK x, y : x = same(mergeKey(r))[1] /\ y = one(mergeKey(r))
    OBVIOUS
  <2>2. RouteOK(x) /\ mergeKey(x) = mergeKey(r)
    BY <1>3, <2>1
  <2>3. y.method = x.method /\ y.path = templatize(x.path)
    BY <1>2, <2>1
  <2>4. /\ templatize(x.path) \in Seq(DOMAIN Lower \cap DOMAIN Place)
        /\ normalizeRoute([method |-> x.method, path |-> templatize(x.path)])
           = normalizeRoute([method |-> x.method, path |-> x.path])
    BY <2>2, TemplateIs DEF RouteOK
  <2>5. mergeKey(y) = mergeKey(x)
    BY <2>3, <2>4 DEF mergeKey, RouteKey
  <2>6. RouteOK(y)
    BY <2>2, <2>3, <2>4 DEF RouteOK
  <2> QED
    BY <2>1, <2>2, <2>5, <2>6
<1>5. IsFiniteSet(D)
  <2>1. PICK R : R = ToSet(routes) /\ IsFiniteSet(R)
    BY ElementsAreFinite
  <2>2. PICK f : f = [r \in R |-> one(mergeKey(r))]
    OBVIOUS
  <2>3. IsFiniteSet({f[r] : r \in R})
    BY <2>1, <2>2, ImageIsFinite
  <2>4. D = {f[r] : r \in R}
    BY <2>1, <2>2
  <2> QED
    BY <2>3, <2>4
<1>6. ASSUME NEW x \in D
      PROVE  RouteOK(x) /\ x = one(mergeKey(x)) /\ string[x] \in Strings
  <2>1. RouteOK(x) /\ x = one(mergeKey(x))
    BY <1>4
  <2>2. string[x] = <<x.method>> \o x.path
    OBVIOUS
  <2>3. <<x.method>> \in Strings /\ x.path \in Strings
    BY <2>1 DEF RouteOK, Strings
  <2>4. <<x.method>> \o x.path \in Strings
    BY <2>3 DEF Strings
  <2> QED
    BY <2>1, <2>2, <2>4
<1>7. DOMAIN string = D
  OBVIOUS
<1> HIDE DEF string
<1>8. PICK m : /\ m = mergeRoutes(routes) /\ IsSequence(m) /\ ToSet(m) = D
               /\ \A i, j \in DOMAIN m : m[i] = m[j] => i = j
  BY <1>1, <1>5, <1>6, <1>7, SortedIs
<1>9. \A i, j \in DOMAIN m : mergeKey(m[i]) = mergeKey(m[j]) => i = j
  <2> SUFFICES ASSUME NEW i \in DOMAIN m, NEW j \in DOMAIN m, mergeKey(m[i]) = mergeKey(m[j])
               PROVE  i = j
    OBVIOUS
  <2>1. m[i] \in D /\ m[j] \in D
    BY <1>8 DEF ToSet
  <2>2. m[i] = m[j]
    <3> HIDE DEF D
    <3> QED
      BY <1>6, <2>1
  <2> QED
    BY <1>8, <2>2
<1>10. {mergeKey(r) : r \in D} = {mergeKey(r) : r \in ToSet(routes)}
  BY <1>4
<1> QED
  BY <1>8, <1>9, <1>10

-------------------------------------------------------------------------------
(* The units of a repository, and what is asked about them.                  *)

LEMMA BelowPrefix ==
    ASSUME NEW path \in Strings, NEW prefix, IsSequence(prefix), NEW base \in Strings
    PROVE  bySubdir(path, prefix, base) \in Strings
<1>1. Len(path) \in Nat /\ Len(prefix) \in Nat /\ <<>> \in Strings
  BY SequenceIs DEF Strings
<1>2. CASE IsStrictPrefix(prefix, path) /\ Len(path) # Len(prefix) + 1
  <2>1. Len(prefix) < Len(path)
    <3>1. /\ Len(prefix) <= Len(path) /\ prefix # path
          /\ SubSeq(prefix, 1, Len(prefix)) = SubSeq(path, 1, Len(prefix))
      BY <1>2 DEF IsStrictPrefix, IsPrefix
    <3>2. SubSeq(path, 1, Len(path)) = path
      BY DEF Strings
    <3>3. SubSeq(prefix, 1, Len(prefix)) = prefix
      <4>1. PICK T : T = ToSet(prefix) /\ prefix \in Seq(T)
        BY DEF IsSequence
      <4> QED
        BY <4>1
    <3> QED
      BY <1>1, <3>1, <3>2, <3>3
  <2>2. Len(prefix) + 1 \in 1..Len(path)
    BY <1>1, <2>1
  <2>3. Append(base, path[Len(prefix) + 1]) \in Strings
    BY <2>2 DEF Strings
  <2> QED
    BY <1>2, <2>3 DEF bySubdir
<1> QED
  BY <1>1, <1>2 DEF bySubdir, NoUnit

LEMMA UnitIs ==
    ASSUME NEW file, file.path \in Strings, file.path # <<>>
    PROVE  laravelUnit(file) \in Strings /\ genericUnit(file) \in Strings
<1>1. PICK path : path = file.path /\ path \in Strings /\ path # <<>>
  OBVIOUS
<1>2. /\ <<"laravel", "controllers">> \in Strings /\ <<"laravel", "models">> \in Strings
      /\ \A x \in DOMAIN Place : <<"laravel", "routes", x>> \in Strings /\ <<"generic", x>> \in Strings
  BY ExtractionAssumption DEF Strings
<1>3. /\ IsSequence(<<"app", "Http", "Controllers">>) /\ IsSequence(<<"app", "Models">>)
  <2>1. /\ <<"app", "Http", "Controllers">> \in Seq({"app", "Http", "Controllers", "Models"})
        /\ <<"app", "Models">> \in Seq({"app", "Http", "Controllers", "Models"})
    OBVIOUS
  <2> QED
    BY <2>1, TypedIs
<1>4. Len(path) \in Nat /\ path[1] \in DOMAIN Place /\ (Len(path) = 2 => path[2] \in DOMAIN Place)
  BY <1>1 DEF Strings
<1>5. /\ bySubdir(path, <<"app", "Http", "Controllers">>, <<"laravel", "controllers">>) \in Strings
      /\ bySubdir(path, <<"app", "Models">>, <<"laravel", "models">>) \in Strings
  BY <1>1, <1>2, <1>3, BelowPrefix
<1>6. laravelUnit(file) \in Strings
  BY <1>1, <1>2, <1>4, <1>5 DEF laravelUnit
<1>7. genericUnit(file) \in Strings
  BY <1>1, <1>2, <1>4, ExtractionAssumption DEF genericUnit
<1> QED
  BY <1>6, <1>7

LEMMA UnitsAre ==
    ASSUME NEW repo, RepoShape(repo)
    PROVE  IsSequence(enumerateUnits(repo))
<1> DEFINE files == walkRepo(repo)
           unit(f) == IF IsLaravel(files) THEN laravelUnit(f) ELSE genericUnit(f)
           units == {unit(f) : f \in ToSet(files)} \ {NoUnit}
           string == [id \in units |-> id]
<1>1. IsSequence(files) /\ ToSet(files) \subseteq ToSet(repo.files)
  BY OnlyOf DEF RepoShape, walkRepo
<1>2. ASSUME NEW f \in ToSet(files) PROVE unit(f) \in Strings
  <2>1. f.path \in Strings /\ f.path # <<>>
    BY <1>1 DEF RepoShape, Strings
  <2> QED
    BY <2>1, UnitIs
<1>3. enumerateUnits(repo) = Sorted(string)
  BY DEF enumerateUnits
<1> HIDE DEF unit
<1>4. IsFiniteSet(units)
  <2>1. PICK R : R = ToSet(files) /\ IsFiniteSet(R)
    BY <1>1, ElementsAreFinite
  <2>2. PICK f : f = [x \in R |-> unit(x)]
    OBVIOUS
  <2>3. IsFiniteSet({f[x] : x \in R})
    BY <2>1, <2>2, ImageIsFinite
  <2>4. units \subseteq {f[x] : x \in R}
    BY <2>1, <2>2
  <2> QED
    BY <2>3, <2>4, FS_Subset
<1>5. DOMAIN string = units /\ \A id \in units : string[id] \in Strings
  BY <1>2
<1> HIDE DEF string, units
<1> QED
  BY <1>3, <1>4, <1>5, SortedIs

\* What a pass was told of routes.
ToldIn(repo, pass) ==
    {r \in UNION {ToSet(repo.answers[q].routes) : q \in
                    {q \in DOMAIN repo.answers : q[1] = "unit" /\ q[3] = pass
                                                 /\ repo.backend # "none"}} :
        r.path # NoPath}

\* The fragment of a unit has the routes with a path that it was told.
LEMMA FragmentIs ==
    ASSUME NEW repo, RepoShape(repo), NEW unit, NEW pass
    PROVE  LET routes == parseUnit(repo, unit, pass).routes
               question == <<"unit", unit, pass>>
           IN /\ IsSequence(routes)
              /\ ToSet(routes) = IF Answered(repo, question)
                                 THEN {r \in ToSet(repo.answers[question].routes) : r.path # NoPath}
                                 ELSE {}
              /\ \A r \in ToSet(routes) : RouteOK(r)
<1> DEFINE question == <<"unit", unit, pass>>
<1>1. question[1] = "unit"
  OBVIOUS
<1>2. PICK q, reply : q = question /\ q[1] = "unit" /\ reply = Answer(repo, q, noParse)
  BY <1>1
<1>3. /\ DOMAIN reply = DOMAIN noParse /\ IsSequence(reply.routes)
      /\ \A r \in ToSet(reply.routes) : RouteShape(r)
      /\ IF Answered(repo, q) THEN reply = repo.answers[q] ELSE ToSet(reply.routes) = {}
  <2>1. CASE Answered(repo, q)
    <3>1. q \in DOMAIN repo.answers /\ reply = repo.answers[q]
      BY <1>2, <2>1 DEF Answered, Answer
    <3> QED
      BY <1>2, <2>1, <3>1 DEF RepoShape
  <2>2. CASE ~Answered(repo, q)
    <3>1. reply = noParse /\ reply.routes = <<>>
      BY <1>2, <2>2 DEF Answer, noParse
    <3> QED
      BY <2>2, <3>1, NoElements
  <2> QED
    BY <2>1, <2>2
<1>4. PICK routes, S : /\ S = {r \in ToSet(reply.routes) : r.path # NoPath}
                       /\ routes = Only(reply.routes, S)
  OBVIOUS
<1>5. parseUnit(repo, unit, pass).routes = routes
  BY <1>2, <1>3, <1>4 DEF parseUnit, noParse
<1>6. IsSequence(routes) /\ ToSet(routes) = S
  BY <1>3, <1>4, OnlyOf
<1>7. \A r \in S : RouteOK(r)
  BY <1>3, <1>4 DEF RouteShape, RouteOK
<1>8. IF Answered(repo, q) THEN S = {r \in ToSet(repo.answers[q].routes) : r.path # NoPath}
      ELSE S = {}
  BY <1>3, <1>4
<1> QED
  BY <1>2, <1>5, <1>6, <1>7, <1>8

\* A merge has one route per key, and every key the pass was told.
LEMMA MergedIs ==
    ASSUME NEW repo, RepoShape(repo), NEW pass
    PROVE  LET routes == merged(repo, pass).routes
           IN /\ IsSequence(routes)
              /\ \A i, j \in DOMAIN routes : mergeKey(routes[i]) = mergeKey(routes[j]) => i = j
              /\ {mergeKey(r) : r \in ToSet(routes)} = {mergeKey(r) : r \in ToldIn(repo, pass)}
<1>1. PICK units, n : /\ units = enumerateUnits(repo) /\ n = Len(units) /\ n \in Nat
                      /\ DOMAIN units = 1..n /\ ToSet(units) = {units[i] : i \in 1..n}
  BY UnitsAre, SequenceIs DEF ToSet
<1> DEFINE shown(i) == parseUnit(repo, units[i], pass).routes
           asked(i) == <<"unit", units[i], pass>>
           f == [i \in 1..n |-> shown(i)]
           all == FlattenSeq([i \in 1..n |-> f[i]])
<1>2. merged(repo, pass).routes = mergeRoutes(all)
  <2> DEFINE fragments == MapSeq(units, LAMBDA u : parseUnit(repo, u, pass))
  <2>1. merged(repo, pass) = mergeFragments(fragments)
    BY <1>1 DEF merged
  <2>2. fragments = [i \in 1..n |-> parseUnit(repo, units[i], pass)]
    BY <1>1 DEF MapSeq
  <2> HIDE DEF fragments
  <2>3. mergeFragments(fragments).routes = mergeRoutes(Gather(fragments, LAMBDA x : x.routes))
    BY DEF mergeFragments
  <2>4. Gather(fragments, LAMBDA x : x.routes) = FlattenSeq([i \in DOMAIN fragments |-> fragments[i].routes])
    BY DEF Gather, MapSeq
  <2>5. [i \in DOMAIN fragments |-> fragments[i].routes] = [i \in 1..n |-> f[i]]
    BY <2>2
  <2> QED
    BY <2>1, <2>3, <2>4, <2>5
<1>3. ASSUME NEW i \in 1..n
      PROVE  /\ IsSequence(shown(i)) /\ \A r \in ToSet(shown(i)) : RouteOK(r)
             /\ ToSet(shown(i)) = IF Answered(repo, asked(i))
                                  THEN {r \in ToSet(repo.answers[asked(i)].routes) : r.path # NoPath}
                                  ELSE {}
  BY FragmentIs
<1> HIDE DEF shown
<1>4. IsSequence(all) /\ ToSet(all) = UNION {ToSet(shown(i)) : i \in 1..n}
  <2>1. \A i \in 1..n : f[i] = shown(i) /\ IsSequence(f[i])
    BY <1>3
  <2>2. IsSequence(all) /\ ToSet(all) = UNION {ToSet(f[i]) : i \in 1..n}
    <3> HIDE DEF f
    <3> QED
      BY <1>1, <2>1, FlattenedIs
  <2> QED
    BY <2>1, <2>2
<1> HIDE DEF all
<1>5. ToSet(all) = ToldIn(repo, pass)
  <2>1. ASSUME NEW r \in ToSet(all) PROVE r \in ToldIn(repo, pass)
    <3>1. PICK i \in 1..n : r \in ToSet(shown(i))
      BY <1>4, <2>1
    <3>2. /\ Answered(repo, asked(i)) /\ r \in ToSet(repo.answers[asked(i)].routes)
          /\ r.path # NoPath
      BY <1>3, <3>1
    <3>3. asked(i) \in DOMAIN repo.answers /\ repo.backend # "none"
      BY <3>2 DEF Answered
    <3>4. asked(i)[1] = "unit" /\ asked(i)[3] = pass
      OBVIOUS
    <3> QED
      BY <3>2, <3>3, <3>4 DEF ToldIn
  <2>2. ASSUME NEW r \in ToldIn(repo, pass) PROVE r \in ToSet(all)
    <3>1. PICK q \in DOMAIN repo.answers :
             /\ q[1] = "unit" /\ q[3] = pass /\ repo.backend # "none"
             /\ r \in ToSet(repo.answers[q].routes) /\ r.path # NoPath
      BY <2>2 DEF ToldIn
    <3>2. q \in {"unit"} \X ToSet(units) \X Nat
      BY <1>1, <3>1 DEF RepoShape
    <3>3. PICK i \in 1..n : q[2] = units[i]
      BY <1>1, <3>2
    <3>4. q = asked(i)
      BY <3>1, <3>2, <3>3
    <3>5. Answered(repo, asked(i))
      BY <3>1, <3>4 DEF Answered
    <3>6. r \in ToSet(shown(i))
      BY <1>3, <3>1, <3>4, <3>5
    <3> QED
      BY <1>4, <3>6
  <2> QED
    BY <2>1, <2>2
<1>6. \A r \in ToSet(all) : RouteOK(r)
  BY <1>3, <1>4
<1> QED
  BY <1>2, <1>4, <1>5, <1>6, MergedRoutesAre

\* One sequence alone is what it was.
LEMMA FlattenOne ==
    ASSUME NEW s, IsSequence(s)
    PROVE  FlattenSeq([i \in 1..1 |-> s]) = s
<1>1. PICK T, U, seqs : T = ToSet(s) /\ U = Seq(T) /\ s \in U /\ seqs = [i \in 1..1 |-> s]
  BY DEF IsSequence
<1>2. seqs \in Seq(U) /\ Len(seqs) = 1 /\ seqs[1] = s
  BY <1>1
<1>3. FlattenSeq(seqs) = Joined(seqs)[1]
  BY <1>2 DEF FlattenSeq, Joined
<1>4. Joined(seqs)[1] = seqs[1]
  <2>1. seqs \in Seq(Seq(T)) /\ 1 \in 1..Len(seqs)
    BY <1>1, <1>2
  <2> QED
    BY <2>1, JoinedExists
<1> QED
  BY <1>1, <1>2, <1>3, <1>4

\* The extract has the routes of the analysis, under their keys.
LEMMA ExtractKeeps ==
    ASSUME NEW a, IsSequence(a.routes)
    PROVE  LET routes == toStructureExtract(a).routes
           IN /\ IsSequence(routes) /\ DOMAIN routes = DOMAIN a.routes
              /\ \A i \in DOMAIN routes : mergeKey(routes[i]) = mergeKey(a.routes[i])
<1> DEFINE inputs(r) == UNION {p.formFields : p \in {p \in ToSet(a.pages) : p.path = r.path}}
           events(r) == IF RouteKey(r) \in DOMAIN a.routeEvents
                        THEN a.routeEvents[RouteKey(r)] ELSE {}
           shown(r) == [method |-> r.method, path |-> r.path, inputs |-> inputs(r), events |-> events(r)]
<1>1. toStructureExtract(a).routes = [i \in DOMAIN a.routes |-> shown(a.routes[i])]
  BY DEF toStructureExtract, MapSeq
<1>2. \A r : shown(r).method = r.method /\ shown(r).path = r.path
  OBVIOUS
<1> HIDE DEF shown
<1>3. PICK n, routes : /\ n = Len(a.routes) /\ n \in Nat /\ DOMAIN a.routes = 1..n
                       /\ routes = [i \in 1..n |-> shown(a.routes[i])]
  BY SequenceIs
<1>4. IsSequence(routes) /\ DOMAIN routes = 1..n
  BY <1>3, OnOneToN
<1>5. \A i \in 1..n : mergeKey(routes[i]) = mergeKey(a.routes[i])
  BY <1>2, <1>3 DEF mergeKey, RouteKey
<1> QED
  BY <1>1, <1>3, <1>4, <1>5

\* The routes of an incremental analysis are those of its lasting pass, merged.
LEMMA LastingRoutes ==
    ASSUME NEW repo, repo.passes # <<>>
    PROVE  \E a : /\ analyze(<<repo>>).routes = FlattenSeq([i \in 1..1 |-> toStructureExtract(a).routes])
                  /\ a.routes = merged(repo, LastingPass(repo)).routes
<1>1. \E a : /\ analyzeRepoIncremental(repo) = toStructureExtract(a)
             /\ a.routes = merged(repo, LastingPass(repo)).routes
  <2> DEFINE detail == SelectLastInSeq(repo.passes, LAMBDA p : p # 1)
  <2>1. LastingPass(repo) = IF detail = 0 THEN 1 ELSE repo.passes[detail]
    BY DEF LastingPass
  <2>2. analyzeRepoIncremental(repo)
        = IF detail # 0 THEN projectFullDetailed(repo, repo.passes[detail])
          ELSE toStructureExtract([emptyAnalysis EXCEPT !.routes = merged(repo, 1).routes])
    BY DEF analyzeRepoIncremental
  <2> HIDE DEF detail
  <2>3. CASE detail = 0
    <3>1. [emptyAnalysis EXCEPT !.routes = merged(repo, 1).routes].routes = merged(repo, 1).routes
      BY DEF emptyAnalysis
    <3> QED
      BY <2>1, <2>2, <2>3, <3>1
  <2>4. CASE detail # 0
    <3> DEFINE pass == repo.passes[detail]
               m == merged(repo, pass)
               d == Derived(repo, m.routes, m.models)
               a == Over(Over(d, [operations |-> flattenEntityOps(m.controllers)]), emptyAnalysis)
    <3>1. projectFullDetailed(repo, pass) = toStructureExtract(a)
      BY DEF projectFullDetailed
    <3>2. "routes" \in DOMAIN d /\ d.routes = m.routes
      BY DEF Derived, Over
    <3> HIDE DEF d
    <3>3. a.routes = d.routes
      BY <3>2 DEF Over
    <3> QED
      BY <2>1, <2>2, <2>4, <3>1, <3>2, <3>3
  <2> QED
    BY <2>3, <2>4
<1>2. PICK a : /\ analyzeRepoIncremental(repo) = toStructureExtract(a)
               /\ a.routes = merged(repo, LastingPass(repo)).routes
  BY <1>1
<1> DEFINE extracts == MapSeq(<<repo>>, LAMBDA r :
                IF r.passes = <<>> THEN analyzeRepo(r) ELSE analyzeRepoIncremental(r))
<1>3. analyze(<<repo>>) = mergedExtract(extracts)
  BY DEF analyze
<1>4. extracts = [i \in 1..1 |-> toStructureExtract(a)]
  BY <1>2 DEF MapSeq
<1> HIDE DEF extracts
<1>5. mergedExtract(extracts).routes = FlattenSeq([i \in DOMAIN extracts |-> extracts[i].routes])
  BY DEF mergedExtract, Gather, MapSeq
<1>6. [i \in DOMAIN extracts |-> extracts[i].routes] = [i \in 1..1 |-> toStructureExtract(a).routes]
  BY <1>4
<1> QED
  BY <1>2, <1>3, <1>5, <1>6

LEMMA RoutesStay == ASSUME NEW repo \in Trials PROVE RoutesAreOne(repo, analyze(<<repo>>))
<1> DEFINE extract == analyze(<<repo>>)
           key(r) == normalizeRoute(RouteKey(r))
<1>1. RepoShape(repo)
  BY TrialsAssumption
<1>2. SUFFICES ASSUME repo.passes # <<>>
               PROVE  /\ \A i, j \in DOMAIN extract.routes :
                            key(extract.routes[i]) = key(extract.routes[j]) => i = j
                      /\ {key(r) : r \in ToSet(extract.routes)} = {key(r) : r \in ToldRoutes(repo)}
  BY DEF RoutesAreOne
<1>3. PICK a, pass : /\ pass = LastingPass(repo)
                     /\ extract.routes = FlattenSeq([i \in 1..1 |-> toStructureExtract(a).routes])
                     /\ a.routes = merged(repo, pass).routes
  BY <1>2, LastingRoutes
<1>4. PICK routes : routes = a.routes
  OBVIOUS
<1>5. /\ IsSequence(routes)
      /\ \A i, j \in DOMAIN routes : mergeKey(routes[i]) = mergeKey(routes[j]) => i = j
      /\ {mergeKey(r) : r \in ToSet(routes)} = {mergeKey(r) : r \in ToldIn(repo, pass)}
  BY <1>1, <1>3, <1>4, MergedIs
<1>6. PICK shown : shown = toStructureExtract(a).routes
  OBVIOUS
<1>7. /\ IsSequence(shown) /\ DOMAIN shown = DOMAIN routes
      /\ \A i \in DOMAIN shown : mergeKey(shown[i]) = mergeKey(routes[i])
  BY <1>4, <1>5, <1>6, ExtractKeeps
<1>8. extract.routes = shown
  BY <1>3, <1>6, <1>7, FlattenOne
<1>9. ToldRoutes(repo) = ToldIn(repo, pass)
  BY <1>2, <1>3 DEF ToldRoutes, Told, ToldIn
<1>10. {mergeKey(r) : r \in ToSet(shown)} = {mergeKey(r) : r \in ToSet(routes)}
  BY <1>7 DEF ToSet
<1>11. \A r : mergeKey(r) = key(r)
  BY DEF mergeKey
<1> HIDE DEF key
<1> QED
  BY <1>5, <1>7, <1>8, <1>9, <1>10, <1>11

\* An analysis loses and doubles no route, whichever of its questions get an
\* answer (scoped-parser.ts, merge.ts): told by several units or as several
\* samples, it is one route of the extract.
THEOREM SpineAnalysisKeepsRoutes == Spec => []AnalysisKeepsRoutes
<1>1. RoutesAreKept
  BY RoutesStay DEF RoutesAreKept
<1>2. AnalysisKeepsRoutes
  BY <1>1 DEF AnalysisKeepsRoutes
<1> QED
  BY <1>2, PTL
==============================================================================
