----------------------------- MODULE BTreeProofs -----------------------------
(***************************************************************************)
(* Proofs about the lookup and the iteration of a B-tree, for every graph  *)
(* of pages, every limit and every interleaving of the two.                *)
(***************************************************************************)
EXTENDS BTree, DataLemmas, FiniteSetTheorems

Pair == [ref : Refs, depth : Nat]

LEMMA LeafPage ==
    ASSUME TypeOK, NEW r \in Refs, IsLeaf(r)
    PROVE  pages[r].keys \in Seq(Keys) /\ pages[r].kind = "leaf"
  BY DEF TypeOK, IsLeaf, Page

LEMMA NodePage ==
    ASSUME TypeOK, NEW r \in Refs, ~IsLeaf(r), ~ChildBad(r)
    PROVE  pages[r].entries \in Seq([key : Keys, ref : Refs]) /\ pages[r].kind = "node"
  BY DEF TypeOK, IsLeaf, ChildBad, Page

(* The references a node page puts on the stack. *)
LEMMA ChildrenProperties ==
    ASSUME NEW r \in Refs, NEW d \in Nat,
           pages[r].entries \in Seq([key : Keys, ref : Refs]), pages[r].kind = "node"
    PROVE  /\ Children(r, d) \in Seq(Pair)
           /\ \A x \in ToSet(Children(r, d)) : x.depth = d /\ <<r, x.ref>> \in Edges
           /\ \A e \in Edges : e[1] = r => [ref |-> e[2], depth |-> d] \in ToSet(Children(r, d))
  <1> DEFINE es == pages[r].entries
  <1>1. DOMAIN es = 1..Len(es) /\ Len(es) \in Nat
    BY LenProperties
  <1>2. \A i \in 1..Len(es) : es[i] \in [key : Keys, ref : Refs]
    BY ElementOfSeq
  <1>3. Children(r, d) \in [1..Len(es) -> Pair]
    BY <1>1, <1>2 DEF Children, Pair
  <1>4. Children(r, d) \in Seq(Pair)
    BY <1>1, <1>3
  <1>5. ChildRefs(r) = [i \in DOMAIN es |-> es[i].ref]
    BY DEF ChildRefs
  <1>6. ASSUME NEW i \in DOMAIN es PROVE <<r, es[i].ref>> \in Edges
    <2>1. es[i].ref \in ToSet(ChildRefs(r))
      BY <1>5 DEF ToSet
    <2>. QED  BY <2>1 DEF Edges
  <1>7. ASSUME NEW x \in ToSet(Children(r, d)) PROVE x.depth = d /\ <<r, x.ref>> \in Edges
    <2>1. PICK i \in DOMAIN es : x = [ref |-> es[i].ref, depth |-> d]
      BY DEF ToSet, Children
    <2>. QED  BY <1>6, <2>1
  <1>8. ASSUME NEW e \in Edges, e[1] = r
        PROVE  [ref |-> e[2], depth |-> d] \in ToSet(Children(r, d))
    <2>1. e[2] \in ToSet(ChildRefs(r))
      BY <1>8 DEF Edges
    <2>2. PICK i \in DOMAIN es : e[2] = es[i].ref
      BY <1>5, <2>1 DEF ToSet
    <2>. QED  BY <2>2 DEF ToSet, Children
  <1>. QED  BY <1>4, <1>7, <1>8

(* The top of the generator's stack. *)
LEMMA TopProperties ==
    ASSUME TypeOK, stack # <<>>
    PROVE  /\ Top.ref \in Refs /\ Top.depth \in Nat /\ Top = [ref |-> Top.ref, depth |-> Top.depth]
           /\ Tail(stack) \in Seq(Pair)
           /\ ToSet(stack) = {Top} \cup ToSet(Tail(stack))
  <1>1. stack \in Seq(Pair)
    BY DEF TypeOK, Pair
  <1>2. Top \in Pair /\ Tail(stack) \in Seq(Pair)
    BY <1>1, PopProperties DEF Top
  <1>3. ToSet(stack) = {Top} \cup ToSet(Tail(stack))
    BY <1>1, PopMembers DEF Top
  <1>. QED  BY <1>2, <1>3 DEF Pair

-----------------------------------------------------------------------------
(* Every variable keeps its type; in particular the cache only ever holds  *)
(* intermediate pages that parse.                                          *)
THEOREM TypeCorrect == Spec => []TypeOK
  <1>1. Init => TypeOK
    <2> SUFFICES ASSUME Init PROVE TypeOK
      OBVIOUS
    <2>1. /\ pages \in [Refs -> Page] /\ root \in Refs /\ walk \in {"pages", "entries"}
      BY StoresAssumption DEF Init
    <2>2. <<[ref |-> root, depth |-> 0]>> \in Seq([ref : Refs, depth : Nat])
      BY <2>1
    <2>3. <<>> \in Seq(Keys) /\ (CHOOSE k \in Keys : TRUE) \in Keys
      BY EmptySeq, KeysAssumption
    <2>. QED  BY <2>1, <2>2, <2>3 DEF Init, TypeOK
  <1>2. TypeOK /\ [Next]_vars => TypeOK'
    <2> SUFFICES ASSUME TypeOK, [Next]_vars PROVE TypeOK'
      OBVIOUS
    <2>1. CASE YieldLeaf
      <3>1. stack # <<>> /\ IsLeaf(Top.ref)
        BY <2>1 DEF YieldLeaf
      <3>2. pages[Top.ref].keys \in Seq(Keys) /\ Len(pages[Top.ref].keys) \in Nat
        BY <3>1, TopProperties, LeafPage, LenProperties
      <3>3. out' \in Seq(Keys) /\ count' \in Nat
        BY <2>1, <3>2, ConcatProperties DEF YieldLeaf, TypeOK
      <3>4. stack' \in Seq(Pair) /\ visited' \in SUBSET Refs
        BY <2>1, <3>1, TopProperties DEF YieldLeaf, TypeOK
      <3>. QED  BY <2>1, <3>3, <3>4 DEF YieldLeaf, ReadOnly, lookup, TypeOK, Pair
    <2>2. CASE YieldNode
      <3>1. stack # <<>> /\ ~IsLeaf(Top.ref) /\ ~ChildBad(Top.ref)
        BY <2>2 DEF YieldNode, Child
      <3>0. Top.ref \in Refs /\ Top.depth + 1 \in Nat
        BY <3>1, TopProperties
      <3>2. /\ pages[Top.ref].entries \in Seq([key : Keys, ref : Refs])
            /\ pages[Top.ref].kind = "node" /\ Top.ref \in Refs /\ Top.depth + 1 \in Nat
        BY <3>0, <3>1, NodePage
      <3>3. Children(Top.ref, Top.depth + 1) \in Seq(Pair)
        BY <3>2, ChildrenProperties
      <3>4. stack' \in Seq(Pair) /\ visited' \in SUBSET Refs
        BY <2>2, <3>1, <3>3, TopProperties, ConcatProperties DEF YieldNode, TypeOK
      <3>. QED  BY <2>2, <3>2, <3>4 DEF YieldNode, Remember, ReadOnly, lookup, TypeOK, Pair
    <2>3. CASE RefusePage \/ Exhaust
      BY <2>3 DEF RefusePage, Exhaust, ReadOnly, lookup, TypeOK
    <2>4. ASSUME NEW k \in Keys, Find(k) PROVE TypeOK'
      BY <2>4 DEF Find, ReadOnly, iteration, TypeOK
    <2>5. ASSUME NEW a \in Refusals \cup {"found"}, Answer(a), ReadOnly,
                 UNCHANGED <<cache, iteration>>
          PROVE  TypeOK'
      BY <2>5 DEF Answer, ReadOnly, iteration, TypeOK
    <2>6. CASE RefuseLookup
      BY <2>5, <2>6 DEF RefuseLookup, Refusals
    <2>7. CASE SearchLeaf
      <3>1. UNCHANGED cache
        BY <2>7 DEF SearchLeaf, Remember
      <3>. QED  BY <2>5, <2>7, <3>1 DEF SearchLeaf, Refusals
    <2>8. CASE BelowFirstKey
      <3>1. pages[ref].kind = "node" /\ ref \in Refs
        BY <2>8, NodePage DEF BelowFirstKey, Child, TypeOK
      <3>. QED  BY <2>8, <3>1 DEF BelowFirstKey, Answer, Remember, Refusals, ReadOnly,
                                  iteration, TypeOK
    <2>9. CASE Descend
      <3>1. /\ pages[ref].kind = "node" /\ ref \in Refs
            /\ pages[ref].entries \in Seq([key : Keys, ref : Refs])
        BY <2>9, NodePage DEF Descend, Child, TypeOK
      <3>2. Position(ref) \in 1..Len(pages[ref].entries)
        BY <2>9, <3>1, LenProperties DEF Descend
      <3>3. pages[ref].entries[Position(ref)] \in [key : Keys, ref : Refs]
        BY <3>1, <3>2, ElementOfSeq
      <3>4. ref' \in Refs
        BY <2>9, <3>3 DEF Descend
      <3>. QED  BY <2>9, <3>1, <3>4 DEF Descend, Remember, ReadOnly, iteration, TypeOK
    <2>10. CASE UNCHANGED vars
      BY <2>10 DEF vars, iteration, lookup, TypeOK
    <2>. QED  BY <2>1, <2>2, <2>3, <2>4, <2>6, <2>7, <2>8, <2>9, <2>10
              DEF Next, Resume, LookupStep
  <1>. QED  BY <1>1, <1>2, PTL DEF Spec

-----------------------------------------------------------------------------
LEMMA AddedBounded ==
    ASSUME TypeOK, NEW seen \in SUBSET Refs, NEW r \in Refs, NEW d \in Nat,
           Cardinality(seen) <= MaxItems, ~ChildLimit(r, d, seen)
    PROVE  /\ d <= MaxBTreeDepth
           /\ Cardinality(seen) < MaxItems
           /\ Cardinality(seen \cup {r}) = Cardinality(seen) + 1
           /\ Cardinality(seen) \in Nat
  <1>1. IsFiniteSet(seen)
    BY RefsAssumption, FS_Subset
  <1>2. Cardinality(seen) \in Nat /\ MaxItems \in Nat /\ MaxBTreeDepth \in Nat
    BY <1>1, FS_CardinalityType, LimitsAssumption
  <1>3. r \notin seen /\ Cardinality(seen) < MaxItems /\ d <= MaxBTreeDepth
    BY <1>2 DEF ChildLimit, AddRefused, Exceeds
  <1>. QED  BY <1>1, <1>2, <1>3, FS_AddElement

(* A lookup reads one page per level down to max_btree_depth, and neither  *)
(* walk remembers more than max_items pages, whatever the file holds.      *)
THEOREM WorkIsBounded == Spec => []WorkBounded
  <1> USE LimitsAssumption
  <1>0. Cardinality({}) = 0 /\ Len(<<>>) = 0
    BY FS_EmptySet
  <1>1. Init => WorkBounded
    BY <1>0 DEF Init, WorkBounded
  <1>2. TypeOK /\ WorkBounded /\ [Next]_vars => WorkBounded'
    <2> SUFFICES ASSUME TypeOK, WorkBounded, [Next]_vars PROVE WorkBounded'
      OBVIOUS
    <2>1. CASE YieldLeaf
      <3>1. /\ stack # <<>> /\ IsLeaf(Top.ref) /\ ~CountRefused(Top.ref)
            /\ ~ChildLimit(Top.ref, Top.depth, visited)
        BY <2>1 DEF YieldLeaf, Child
      <3>2. pages[Top.ref].keys \in Seq(Keys) /\ Len(pages[Top.ref].keys) \in Nat
        BY <3>1, TopProperties, LeafPage, LenProperties
      <3>3. Len(out') = Len(out) + Len(pages[Top.ref].keys)
        BY <2>1, <3>2, ConcatProperties DEF YieldLeaf, TypeOK
      <3>6. /\ Top.ref \in Refs /\ Top.depth \in Nat /\ visited \in SUBSET Refs
            /\ Cardinality(visited) <= MaxItems
        BY <3>1, TopProperties DEF WorkBounded, TypeOK
      <3>7. Cardinality(visited \cup {Top.ref}) <= MaxItems
        BY <3>1, <3>6, AddedBounded
      <3>4. Cardinality(visited') <= MaxItems
        BY <2>1, <3>7 DEF YieldLeaf
      <3>5. walk = "entries" => count' <= MaxItems
        BY <2>1, <3>1, <3>2 DEF YieldLeaf, CountRefused, Exceeds, TypeOK
      <3>. QED  BY <2>1, <3>3, <3>4, <3>5 DEF YieldLeaf, ReadOnly, lookup, WorkBounded
    <2>2. CASE YieldNode
      <3>1. stack # <<>> /\ ~ChildLimit(Top.ref, Top.depth, visited)
        BY <2>2 DEF YieldNode, Child
      <3>6. /\ Top.ref \in Refs /\ Top.depth \in Nat /\ visited \in SUBSET Refs
            /\ Cardinality(visited) <= MaxItems
        BY <3>1, TopProperties DEF WorkBounded, TypeOK
      <3>7. Cardinality(visited \cup {Top.ref}) <= MaxItems
        BY <3>1, <3>6, AddedBounded
      <3>2. Cardinality(visited') <= MaxItems
        BY <2>2, <3>7 DEF YieldNode
      <3>. QED  BY <2>2, <3>2 DEF YieldNode, ReadOnly, lookup, WorkBounded
    <2>3. CASE RefusePage \/ Exhaust
      BY <2>3 DEF RefusePage, Exhaust, ReadOnly, lookup, WorkBounded
    <2>4. ASSUME NEW k \in Keys, Find(k) PROVE WorkBounded'
      BY <1>0, <2>4 DEF Find, ReadOnly, iteration, WorkBounded
    <2>5. ASSUME NEW a, Answer(a), ReadOnly, UNCHANGED iteration
          PROVE  WorkBounded'
      BY <1>0, <2>5 DEF Answer, ReadOnly, iteration, WorkBounded
    <2>6. CASE RefuseLookup \/ SearchLeaf \/ BelowFirstKey
      BY <2>5, <2>6 DEF RefuseLookup, SearchLeaf, BelowFirstKey
    <2>7. CASE Descend
      <3>1. ~ChildLimit(ref, depth, path) /\ ref \in Refs /\ depth \in Nat /\ path \in SUBSET Refs
        BY <2>7 DEF Descend, Child, TypeOK
      <3>2. /\ depth <= MaxBTreeDepth /\ Cardinality(path) < MaxItems
            /\ Cardinality(path \cup {ref}) = Cardinality(path) + 1
            /\ Cardinality(path) \in Nat
        BY <3>1, AddedBounded DEF WorkBounded
      <3>3. depth' = Cardinality(path') /\ depth' <= MaxBTreeDepth + 1 /\ depth' <= MaxItems
        BY <2>7, <3>1, <3>2 DEF Descend, WorkBounded
      <3>. QED  BY <2>7, <3>3 DEF Descend, ReadOnly, iteration, WorkBounded
    <2>8. CASE UNCHANGED vars
      BY <2>8 DEF vars, iteration, lookup, WorkBounded
    <2>. QED  BY <2>1, <2>2, <2>3, <2>4, <2>6, <2>7, <2>8 DEF Next, Resume, LookupStep
  <1>. QED  BY <1>1, <1>2, TypeCorrect, PTL DEF Spec

-----------------------------------------------------------------------------
(* What a running iteration keeps: the pages it has met or has still to    *)
(* meet are reachable, and every edge out of a visited page leads to one   *)
(* that is visited or on the stack.                                        *)
OnStack == {x.ref : x \in ToSet(stack)}

FrontierInv ==
    ipc = "running" =>
        /\ visited \subseteq Walk!Reachable /\ OnStack \subseteq Walk!Reachable
        /\ root \in visited \cup OnStack
        /\ \A e \in Edges : e[1] \in visited => e[2] \in visited \cup OnStack

LEMMA EdgesType ==
    ASSUME pages \in [Refs -> Page]
    PROVE  \A e \in Edges : /\ e \in Refs \X Refs /\ pages[e[1]].kind = "node"
  <1>1. ASSUME NEW r \in Refs, pages[r].kind = "node" PROVE ToSet(ChildRefs(r)) \in SUBSET Refs
    <2> DEFINE es == pages[r].entries
    <2>1. es \in Seq([key : Keys, ref : Refs])
      BY <1>1 DEF Page
    <2>2. /\ DOMAIN es = 1..Len(es) /\ Len(es) \in Nat
          /\ \A i \in 1..Len(es) : es[i] \in [key : Keys, ref : Refs]
      BY <2>1, LenProperties, ElementOfSeq
    <2>3. ChildRefs(r) \in [1..Len(es) -> Refs]
      BY <1>1, <2>2 DEF ChildRefs
    <2>4. ChildRefs(r) \in Seq(Refs)
      BY <2>2, <2>3
    <2>. QED  BY <2>4, ToSetType
  <1>2. ASSUME NEW r \in Refs, pages[r].kind # "node" PROVE ToSet(ChildRefs(r)) = {}
    BY <1>2 DEF ChildRefs, ToSet
  <1>3. ASSUME NEW e \in Edges
        PROVE  e \in Refs \X Refs /\ pages[e[1]].kind = "node"
    <2>1. PICK r \in Refs : e \in {r} \X ToSet(ChildRefs(r))
      BY DEF Edges
    <2>2. pages[r].kind = "node"
      BY <1>2, <2>1
    <2>. QED  BY <1>1, <2>1, <2>2
  <1>. QED  BY <1>3

LEMMA EdgeReachable ==
    ASSUME TypeOK, NEW e \in Edges, e[1] \in Walk!Reachable
    PROVE  e[2] \in Walk!Reachable
  <1>1. e[2] \in Refs
    BY EdgesType DEF TypeOK
  <1> HIDE DEF Edges
  <1>. QED  BY <1>1 DEF Walk!Reachable, Walk!Closed

(* The generator implements Traversal with any number of lookups run in    *)
(* between: no page is handed out twice, none that the tree does not       *)
(* reach, and an iteration that ends has handed out all of them.           *)
THEOREM IterationImplementsTraversal == Spec => ImplementsTraversal
  <1>1. Init => FrontierInv /\ Walk!Init
    <2> SUFFICES ASSUME Init PROVE FrontierInv /\ Walk!Init
      OBVIOUS
    <2>1. root \in Refs
      BY StoresAssumption DEF Init
    <2>2. OnStack = {root}
      <3>1. ToSet(stack) = {[ref |-> root, depth |-> 0]}
        BY DEF Init, ToSet
      <3>. QED  BY <3>1 DEF OnStack
    <2>3. root \in Walk!Reachable
      BY <2>1 DEF Walk!Reachable, Walk!Closed
    <2>4. Edges \in SUBSET (Refs \X Refs)
      BY StoresAssumption, EdgesType DEF Init
    <2>. QED  BY <2>1, <2>2, <2>3, <2>4 DEF Init, FrontierInv, Walk!Init
  <1>2. TypeOK /\ FrontierInv /\ [Next]_vars => FrontierInv' /\ [Walk!Next]_(Walk!vars)
    <2> SUFFICES ASSUME TypeOK, FrontierInv, [Next]_vars
                 PROVE  FrontierInv' /\ [Walk!Next]_(Walk!vars)
      OBVIOUS
    <2> DEFINE rest == {x.ref : x \in ToSet(Tail(stack))}
    <2>1. UNCHANGED <<pages, root>>
      BY DEF Next, Resume, LookupStep, YieldLeaf, YieldNode, RefusePage, Exhaust, Find,
             RefuseLookup, SearchLeaf, BelowFirstKey, Descend, ReadOnly, vars
    <2>2. Edges' = Edges /\ Walk!Reachable' = Walk!Reachable
      <3>1. Edges' = Edges
        BY <2>1 DEF Edges, ChildRefs
      <3>. QED  BY <2>1, <3>1 DEF Walk!Reachable, Walk!Closed
    <2>3. stack # <<>> => OnStack = {Top.ref} \cup rest
      BY TopProperties DEF OnStack
    <2>4. CASE YieldLeaf
      <3>1. /\ ipc = "running" /\ ipc' = ipc /\ stack # <<>> /\ IsLeaf(Top.ref)
            /\ Top.ref \notin visited
            /\ visited' = visited \cup {Top.ref} /\ stack' = Tail(stack)
        BY <2>4 DEF YieldLeaf, Child, ChildLimit, AddRefused
      <3>2. OnStack' = rest
        BY <3>1 DEF OnStack
      <3>3. \A e \in Edges : e[1] # Top.ref
        BY <3>1, EdgesType DEF IsLeaf, TypeOK
      <3>4. Top.ref \in Walk!Reachable
        BY <2>3, <3>1 DEF FrontierInv
      <3> HIDE DEF rest
      <3>5. FrontierInv'
        BY <2>1, <2>2, <2>3, <3>1, <3>2, <3>3, <3>4 DEF FrontierInv
      <3>. QED  BY <2>1, <2>2, <3>1, <3>4, <3>5 DEF Walk!Next, Walk!Visit, Walk!ReadOnly
    <2>5. CASE YieldNode
      <3> DEFINE r == Top.ref
                 new == Children(Top.ref, Top.depth + 1)
      <3>1. /\ ipc = "running" /\ ipc' = ipc /\ stack # <<>>
            /\ r \notin visited /\ ~IsLeaf(r) /\ ~ChildBad(r)
            /\ visited' = visited \cup {r} /\ stack' = new \o Tail(stack)
        BY <2>5 DEF YieldNode, Child, ChildLimit, AddRefused
      <3>2. r \in Refs /\ Top.depth + 1 \in Nat /\ Tail(stack) \in Seq(Pair)
        BY <3>1, TopProperties
      <3>3. pages[r].entries \in Seq([key : Keys, ref : Refs]) /\ pages[r].kind = "node"
        BY <3>1, <3>2, NodePage
      <3>4. /\ new \in Seq(Pair)
            /\ \A x \in ToSet(new) : <<r, x.ref>> \in Edges
            /\ \A e \in Edges : e[1] = r => e[2] \in {x.ref : x \in ToSet(new)}
        <4>1. /\ new \in Seq(Pair)
              /\ \A x \in ToSet(new) : <<r, x.ref>> \in Edges
              /\ \A e \in Edges :
                    e[1] = r => [ref |-> e[2], depth |-> Top.depth + 1] \in ToSet(new)
          BY <3>2, <3>3, ChildrenProperties
        <4> HIDE DEF new
        <4>2. ASSUME NEW e \in Edges, e[1] = r PROVE e[2] \in {x.ref : x \in ToSet(new)}
          <5> DEFINE x == [ref |-> e[2], depth |-> Top.depth + 1]
          <5>1. x \in ToSet(new) /\ x.ref = e[2]
            BY <4>1, <4>2
          <5>. QED  BY <5>1
        <4>. QED  BY <4>1, <4>2
      <3>5. ToSet(stack') = ToSet(new) \cup ToSet(Tail(stack))
        BY <3>1, <3>2, <3>4, PushMembers, ZenonT(60)
      <3>6. OnStack' = {x.ref : x \in ToSet(new)} \cup rest
        BY <3>5 DEF OnStack
      <3>7. r \in Walk!Reachable
        BY <2>3, <3>1 DEF FrontierInv
      <3>8. {x.ref : x \in ToSet(new)} \subseteq Walk!Reachable
        BY <3>4, <3>7, EdgeReachable
      <3> HIDE DEF rest, r, new
      <3>9. FrontierInv'
        BY <2>1, <2>2, <2>3, <3>1, <3>4, <3>6, <3>7, <3>8 DEF FrontierInv, r
      <3>. QED  BY <2>1, <2>2, <3>1, <3>7, <3>9 DEF Walk!Next, Walk!Visit, Walk!ReadOnly
    <2>6. CASE RefusePage
      BY <2>1, <2>2, <2>6 DEF RefusePage, FrontierInv, Walk!Next, Walk!Refuse, Walk!ReadOnly
    <2>7. CASE Exhaust
      <3>1. OnStack = {}
        BY <2>7 DEF Exhaust, OnStack, ToSet
      <3>2. Walk!Closed(visited)
        BY <2>7, <3>1 DEF Exhaust, FrontierInv, Walk!Closed
      <3>3. visited = Walk!Reachable
        BY <2>7, <3>2 DEF Exhaust, FrontierInv, Walk!Reachable, TypeOK
      <3>. QED  BY <2>1, <2>2, <2>7, <3>3
                DEF Exhaust, FrontierInv, Walk!Next, Walk!Exhaust, Walk!ReadOnly
    <2>8. ASSUME UNCHANGED iteration PROVE FrontierInv' /\ UNCHANGED Walk!vars
      BY <2>1, <2>2, <2>8 DEF iteration, FrontierInv, OnStack, Walk!vars
    <2>9. CASE (\E k \in Keys : Find(k)) \/ LookupStep \/ UNCHANGED vars
      BY <2>8, <2>9 DEF Find, LookupStep, RefuseLookup, SearchLeaf, BelowFirstKey, Descend, vars
    <2>. QED  BY <2>4, <2>5, <2>6, <2>7, <2>9 DEF Next, Resume
  <1>. QED  BY <1>1, <1>2, TypeCorrect, PTL DEF Spec, ImplementsTraversal, Walk!Spec

-----------------------------------------------------------------------------
(* What an iteration knows of the tree: a level for each page handed out,  *)
(* such that every page is where the levels of its parents put it, or is   *)
(* still on the stack at that level.  At its end nothing is on the stack,  *)
(* so a lookup that starts at the root stays among pages handed out, and   *)
(* their levels are its depths.                                            *)
Placed(L, r, d) == \/ r \in visited /\ L[r] = d
                   \/ [ref |-> r, depth |-> d] \in ToSet(stack)

Settled(L) ==
    /\ \A r \in visited :
          /\ L[r] <= MaxBTreeDepth /\ pages[r].kind # "bad"
          /\ IsLeaf(r) => ToSet(pages[r].keys) \subseteq ToSet(out)
    /\ Placed(L, root, 0)
    /\ \A e \in Edges : e[1] \in visited => Placed(L, e[2], L[e[1]] + 1)

OnLevel(L) ==
    (ipc = "done" /\ fpc = "descend") =>
        /\ ref \in visited /\ L[ref] = depth
        /\ \A p \in path : p \in visited /\ L[p] < depth

VouchInv ==
    /\ ipc = "done" => stack = <<>>
    /\ ipc # "refused" => \E L \in [visited -> Nat] : Settled(L) /\ OnLevel(L)

(* The page on top of the stack is handed out at its level.                *)
LEMMA SettledYield ==
    ASSUME TypeOK, stack # <<>>, Child(Top.ref, Top.depth, visited),
           UNCHANGED <<pages, root>>,
           NEW L \in [visited -> Nat], Settled(L),
           visited' = visited \cup {Top.ref},
           ToSet(Tail(stack)) \subseteq ToSet(stack'),
           ToSet(out) \subseteq ToSet(out'),
           IsLeaf(Top.ref) => ToSet(pages[Top.ref].keys) \subseteq ToSet(out'),
           \A e \in Edges : e[1] = Top.ref =>
               [ref |-> e[2], depth |-> Top.depth + 1] \in ToSet(stack')
    PROVE  \E M \in [visited' -> Nat] : Settled(M)'
  <1> DEFINE t == Top.ref
  <1>1. /\ t \in Refs /\ Top.depth \in Nat /\ Top = [ref |-> t, depth |-> Top.depth]
        /\ ToSet(stack) = {Top} \cup ToSet(Tail(stack))
    BY TopProperties
  <1>2. /\ t \notin visited /\ Top.depth <= MaxBTreeDepth /\ ~ChildBad(t)
    BY <1>1, LimitsAssumption DEF Child, ChildLimit, AddRefused, Exceeds
  <1>3. pages[t].kind # "bad"
    BY <1>1, <1>2, NodePage DEF IsLeaf
  <1>4. PICK M \in [visited' -> Nat] : M[t] = Top.depth /\ \A r \in visited : M[r] = L[r]
    <2> DEFINE m == [r \in visited \cup {t} |-> IF r = t THEN Top.depth ELSE L[r]]
    <2>1. m \in [visited' -> Nat] /\ m[t] = Top.depth /\ \A r \in visited : m[r] = L[r]
      BY <1>1, <1>2
    <2>. QED  BY <2>1
  <1>5. Edges' = Edges /\ \A r : IsLeaf(r)' = IsLeaf(r)
    BY DEF Edges, ChildRefs, IsLeaf
  <1> HIDE DEF t
  <1>6. ASSUME NEW r, NEW d, Placed(L, r, d)
        PROVE  (r \in visited' /\ M[r] = d) \/ [ref |-> r, depth |-> d] \in ToSet(stack')
    <2>1. CASE r \in visited /\ L[r] = d
      BY <1>4, <2>1
    <2>2. CASE [ref |-> r, depth |-> d] = Top
      <3>1. r = t /\ d = Top.depth
        BY <1>1, <2>2
      <3>. QED  BY <1>4, <3>1 DEF t
    <2>3. CASE [ref |-> r, depth |-> d] \in ToSet(Tail(stack))
      BY <2>3
    <2>. QED  BY <1>1, <1>6, <2>1, <2>2, <2>3 DEF Placed
  <1>7. ASSUME NEW r \in visited'
        PROVE  /\ M[r] <= MaxBTreeDepth /\ pages'[r].kind # "bad"
               /\ IsLeaf(r)' => ToSet(pages'[r].keys) \subseteq ToSet(out')
    <2>1. CASE r = t
      BY <1>2, <1>3, <1>4, <1>5, <2>1 DEF t
    <2>2. CASE r \in visited
      BY <1>4, <1>5, <2>2 DEF Settled
    <2>. QED  BY <2>1, <2>2 DEF t
  <1>8. (root' \in visited' /\ M[root'] = 0) \/ [ref |-> root', depth |-> 0] \in ToSet(stack')
    BY <1>6 DEF Settled
  <1>9. ASSUME NEW e \in Edges, e[1] \in visited'
        PROVE  \/ e[2] \in visited' /\ M[e[2]] = M[e[1]] + 1
               \/ [ref |-> e[2], depth |-> M[e[1]] + 1] \in ToSet(stack')
    <2>1. CASE e[1] = t
      BY <1>4, <2>1 DEF t
    <2>2. CASE e[1] \in visited
      <3>1. Placed(L, e[2], L[e[1]] + 1)
        BY <2>2 DEF Settled
      <3>. QED  BY <1>4, <1>6, <2>2, <3>1
    <2>. QED  BY <1>9, <2>1, <2>2 DEF t
  <1>10. Settled(M)'
    BY <1>5, <1>7, <1>8, <1>9 DEF Settled, Placed
  <1>. QED  BY <1>10

(* A lookup below a finished iteration meets no limit and no bad page, and *)
(* the page it reads next is one the iteration handed out.                 *)
LEMMA LookupAdmitted ==
    ASSUME TypeOK, WorkBounded, ipc = "done", fpc = "descend", stack = <<>>,
           NEW L \in [visited -> Nat], Settled(L), OnLevel(L)
    PROVE  Child(ref, depth, path) /\ ref \in visited
  <1>1. /\ ref \in visited /\ L[ref] = depth /\ path \subseteq visited
        /\ \A p \in path : L[p] < depth
    BY DEF OnLevel
  <1>2. ref \notin path /\ depth <= MaxBTreeDepth /\ pages[ref].kind # "bad"
    BY <1>1 DEF Settled, TypeOK
  <1>3. IsFiniteSet(visited) /\ Cardinality(visited) <= MaxItems
    BY RefsAssumption, FS_Subset DEF TypeOK, WorkBounded
  <1>4. Cardinality(path) < MaxItems
    <2>1. path \cup {ref} \subseteq visited /\ IsFiniteSet(path)
      BY <1>1, <1>3, FS_Subset
    <2>2. Cardinality(path \cup {ref}) = Cardinality(path) + 1
      BY <1>2, <2>1, FS_AddElement
    <2>3. Cardinality(path \cup {ref}) <= Cardinality(visited)
      BY <1>3, <2>1, FS_Subset
    <2>4. Cardinality(path) \in Nat /\ Cardinality(visited) \in Nat
      BY <1>3, <2>1, FS_CardinalityType
    <2>. QED  BY <1>3, <2>2, <2>3, <2>4, LimitsAssumption
  <1>5. ~AddRefused(path, ref, MaxItems)
    <2>1. Cardinality(path) \in Nat /\ MaxItems \in Nat
      <3>1. IsFiniteSet(path)
        BY <1>1, <1>3, FS_Subset
      <3>. QED  BY <3>1, FS_CardinalityType, LimitsAssumption
    <2>. QED  BY <1>2, <1>4, <2>1 DEF AddRefused
  <1>6. depth \in Nat /\ MaxBTreeDepth \in Nat
    BY LimitsAssumption DEF TypeOK
  <1>. QED  BY <1>1, <1>2, <1>5, <1>6 DEF Child, ChildLimit, ChildBad, Exceeds

(* The page a lookup goes down to is an edge below the page it has read.   *)
LEMMA DescendEdge ==
    ASSUME TypeOK, Descend
    PROVE  <<ref, ref'>> \in Edges
  <1> DEFINE es == pages[ref].entries
  <1>1. ref \in Refs /\ pages[ref].kind = "node"
    BY NodePage DEF Descend, Child, TypeOK
  <1>2. Position(ref) \in DOMAIN es /\ ref' = es[Position(ref)].ref
    BY DEF Descend
  <1>3. ref' \in ToSet(ChildRefs(ref))
    <2>1. ChildRefs(ref) = [i \in DOMAIN es |-> es[i].ref]
      BY <1>1 DEF ChildRefs
    <2> HIDE DEF es
    <2>. QED  BY <1>2, <2>1 DEF ToSet
  <1>. QED  BY <1>1, <1>3 DEF Edges

LEMMA VouchPreserved ==
    TypeOK /\ WorkBounded /\ VouchInv /\ [Next]_vars => VouchInv'
  <1> SUFFICES ASSUME TypeOK, WorkBounded, VouchInv, [Next]_vars PROVE VouchInv'
    OBVIOUS
  <1>1. UNCHANGED <<pages, root>>
    BY DEF Next, Resume, LookupStep, YieldLeaf, YieldNode, RefusePage, Exhaust, Find,
           RefuseLookup, SearchLeaf, BelowFirstKey, Descend, ReadOnly, vars
  <1>2. Edges' = Edges
    BY <1>1 DEF Edges, ChildRefs
  <1>3. ASSUME NEW L, Settled(L), UNCHANGED <<stack, visited, out>>
        PROVE  Settled(L)'
    BY <1>1, <1>2, <1>3 DEF Settled, Placed, IsLeaf
  <1>4. CASE YieldLeaf
    <2>1. /\ ipc = "running" /\ ipc' = ipc /\ stack # <<>> /\ IsLeaf(Top.ref)
          /\ Child(Top.ref, Top.depth, visited)
          /\ visited' = visited \cup {Top.ref} /\ stack' = Tail(stack)
          /\ out' = out \o pages[Top.ref].keys
      BY <1>4 DEF YieldLeaf
    <2>2. PICK L \in [visited -> Nat] : Settled(L)
      BY <2>1 DEF VouchInv
    <2>3. pages[Top.ref].keys \in Seq(Keys)
      BY <2>1, TopProperties, LeafPage
    <2>4. ToSet(out') = ToSet(out) \cup ToSet(pages[Top.ref].keys)
      BY <2>1, <2>3, PushMembers DEF TypeOK
    <2>5. \A e \in Edges : e[1] # Top.ref
      BY <2>1, EdgesType DEF IsLeaf, TypeOK
    <2>6. \E M \in [visited' -> Nat] : Settled(M)'
      BY <1>1, <2>1, <2>2, <2>4, <2>5, SettledYield
    <2>. QED  BY <2>1, <2>6 DEF VouchInv, OnLevel
  <1>5. CASE YieldNode
    <2> DEFINE new == Children(Top.ref, Top.depth + 1)
    <2>1. /\ ipc = "running" /\ ipc' = ipc /\ stack # <<>> /\ ~IsLeaf(Top.ref)
          /\ Child(Top.ref, Top.depth, visited) /\ ~ChildBad(Top.ref)
          /\ visited' = visited \cup {Top.ref} /\ stack' = new \o Tail(stack)
          /\ out' = out
      BY <1>5 DEF YieldNode, Child
    <2>2. PICK L \in [visited -> Nat] : Settled(L)
      BY <2>1 DEF VouchInv
    <2>3. Top.ref \in Refs /\ Top.depth + 1 \in Nat /\ Tail(stack) \in Seq(Pair)
      BY <2>1, TopProperties
    <2>4. pages[Top.ref].entries \in Seq([key : Keys, ref : Refs]) /\ pages[Top.ref].kind = "node"
      BY <2>1, <2>3, NodePage
    <2>5. /\ new \in Seq(Pair)
          /\ \A e \in Edges :
                e[1] = Top.ref => [ref |-> e[2], depth |-> Top.depth + 1] \in ToSet(new)
      BY <2>3, <2>4, ChildrenProperties
    <2> HIDE DEF new
    <2>6. ToSet(stack') = ToSet(new) \cup ToSet(Tail(stack))
      BY <2>1, <2>3, <2>5, PushMembers
    <2>7. \A e \in Edges :
            e[1] = Top.ref => [ref |-> e[2], depth |-> Top.depth + 1] \in ToSet(stack')
      BY <2>5, <2>6
    <2>8. \E M \in [visited' -> Nat] : Settled(M)'
      BY <1>1, <2>1, <2>2, <2>6, <2>7, SettledYield
    <2>. QED  BY <2>1, <2>8 DEF VouchInv, OnLevel
  <1>6. CASE RefusePage
    BY <1>6 DEF RefusePage, VouchInv
  <1>7. CASE Exhaust
    <2>1. PICK L \in [visited -> Nat] : Settled(L)
      BY <1>7 DEF Exhaust, VouchInv
    <2>2. Settled(L)' /\ visited' = visited
      BY <1>3, <1>7, <2>1 DEF Exhaust
    <2>3. OnLevel(L)'
      BY <1>7 DEF Exhaust, OnLevel, lookup
    <2>. QED  BY <1>7, <2>2, <2>3 DEF Exhaust, VouchInv
  <1>8. CASE \E k \in Keys : Find(k)
    <2>1. UNCHANGED <<ipc, stack, visited, out>> /\ ref' = root /\ depth' = 0 /\ path' = {}
      BY <1>8 DEF Find, iteration
    <2>2. CASE ipc # "refused"
      <3>1. PICK L \in [visited -> Nat] : Settled(L)
        BY <2>2 DEF VouchInv
      <3>2. Settled(L)' /\ visited' = visited
        BY <1>3, <2>1, <3>1
      <3>3. ipc = "done" => ToSet(stack) = {}
        BY DEF VouchInv, ToSet
      <3>4. OnLevel(L)'
        BY <2>1, <3>1, <3>3 DEF OnLevel, Settled, Placed
      <3>. QED  BY <2>1, <3>2, <3>4 DEF VouchInv
    <2>. QED  BY <2>1, <2>2 DEF VouchInv
  <1>9. CASE RefuseLookup \/ SearchLeaf \/ BelowFirstKey
    <2>1. UNCHANGED <<ipc, stack, visited, out>> /\ fpc' = "idle"
      BY <1>9 DEF RefuseLookup, SearchLeaf, BelowFirstKey, Answer, iteration
    <2>2. CASE ipc # "refused"
      <3>1. PICK L \in [visited -> Nat] : Settled(L)
        BY <2>2 DEF VouchInv
      <3>2. Settled(L)' /\ OnLevel(L)' /\ visited' = visited
        BY <1>3, <2>1, <3>1 DEF OnLevel
      <3>. QED  BY <2>1, <3>2 DEF VouchInv
    <2>. QED  BY <2>1, <2>2 DEF VouchInv
  <1>10. CASE Descend
    <2>1. /\ UNCHANGED <<ipc, stack, visited, out>> /\ fpc = "descend"
          /\ depth' = depth + 1 /\ path' = path \cup {ref}
      BY <1>10 DEF Descend, iteration
    <2>2. CASE ipc # "refused"
      <3>1. PICK L \in [visited -> Nat] : Settled(L) /\ OnLevel(L)
        BY <2>2 DEF VouchInv
      <3>2. Settled(L)' /\ visited' = visited
        BY <1>3, <2>1, <3>1
      <3>3. ASSUME ipc = "done"
            PROVE  /\ ref' \in visited /\ L[ref'] = depth + 1
                   /\ \A p \in path \cup {ref} : p \in visited /\ L[p] < depth + 1
        <4>1. /\ ref \in visited /\ L[ref] = depth /\ depth \in Nat
              /\ \A p \in path : p \in visited /\ L[p] < depth
          BY <2>1, <3>1, <3>3 DEF OnLevel, TypeOK
        <4>2. <<ref, ref'>> \in Edges
          BY <1>10, DescendEdge
        <4>3. Placed(L, ref', depth + 1)
          BY <3>1, <4>1, <4>2 DEF Settled
        <4>4. ToSet(stack) = {}
          BY <3>3 DEF VouchInv, ToSet
        <4>5. ref' \in visited /\ L[ref'] = depth + 1
          BY <4>3, <4>4 DEF Placed
        <4>6. \A p \in path : L[p] \in Nat
          BY <4>1
        <4>. QED  BY <4>1, <4>5, <4>6
      <3>4. OnLevel(L)'
        BY <2>1, <3>3 DEF OnLevel
      <3>. QED  BY <2>1, <3>2, <3>4 DEF VouchInv
    <2>. QED  BY <2>1, <2>2 DEF VouchInv
  <1>11. CASE UNCHANGED vars
    BY <1>1, <1>2, <1>11 DEF vars, iteration, lookup, VouchInv, Settled, Placed, IsLeaf, OnLevel
  <1>. QED  BY <1>4, <1>5, <1>6, <1>7, <1>8, <1>9, <1>10, <1>11 DEF Next, Resume, LookupStep

(* Once an iteration has reached its end, no lookup of _find in that tree  *)
(* is refused for a limit, a cycle or a bad page, and a key it finds is    *)
(* one the iteration handed out: for every graph of pages and every Limits.*)
THEOREM FinishedIterationVouches == Spec => IterationVouches
  <1>1. Init => VouchInv
    <2> SUFFICES ASSUME Init PROVE VouchInv
      OBVIOUS
    <2>1. visited = {} /\ ipc = "running"
      BY DEF Init
    <2>2. ToSet(stack) = {[ref |-> root, depth |-> 0]}
      BY DEF Init, ToSet
    <2>3. PICK L \in [visited -> Nat] : TRUE
      <3>1. [r \in visited |-> 0] \in [visited -> Nat]
        OBVIOUS
      <3>. QED  BY <3>1
    <2>4. Placed(L, root, 0)
      BY <2>2 DEF Placed
    <2>5. Settled(L) /\ OnLevel(L)
      <3> HIDE DEF Edges
      <3>. QED  BY <2>1, <2>4 DEF Settled, OnLevel
    <2>. QED  BY <2>1, <2>5 DEF VouchInv
  <1>2. ASSUME TypeOK, WorkBounded, VouchInv, [Next]_vars
        PROVE  [(ipc = "done" /\ fpc = "descend" /\ fpc' = "idle") =>
                  /\ answer' \in {"found", "PstNotFoundError"}
                  /\ answer' = "found" => Contains(out, key)]_vars
    <2> SUFFICES ASSUME ipc = "done", fpc = "descend", fpc' = "idle"
                 PROVE  /\ answer' \in {"found", "PstNotFoundError"}
                        /\ answer' = "found" => Contains(out, key)
      OBVIOUS
    <2>1. PICK L \in [visited -> Nat] : Settled(L) /\ OnLevel(L)
      BY <1>2 DEF VouchInv
    <2>2. Child(ref, depth, path) /\ ref \in visited
      BY <1>2, <2>1, LookupAdmitted DEF VouchInv
    <2>3. SearchLeaf \/ BelowFirstKey
      <3>1. ~RefuseLookup
        BY <2>2 DEF RefuseLookup, Child
      <3>2. ~Descend
        <4>1. Descend => fpc' = fpc
          BY DEF Descend
        <4>. QED  BY <4>1
      <3>4. ~Resume /\ ~(\E k \in Keys : Find(k))
        BY DEF Resume, YieldLeaf, YieldNode, RefusePage, Exhaust, Find
      <3>3. ~UNCHANGED vars
        BY DEF vars, lookup
      <3>. QED  BY <1>2, <3>1, <3>2, <3>3, <3>4 DEF Next, LookupStep
    <2>4. CASE SearchLeaf
      <3>1. IsLeaf(ref) /\ answer' = IF Contains(pages[ref].keys, key) THEN "found"
                                                                     ELSE "PstNotFoundError"
        BY <2>4 DEF SearchLeaf, Answer
      <3>2. pages[ref].keys \in Seq(Keys) /\ ToSet(pages[ref].keys) \subseteq ToSet(out)
        <4>1. ref \in Refs
          BY <1>2 DEF TypeOK
        <4>2. pages[ref].keys \in Seq(Keys)
          BY <1>2, <3>1, <4>1, LeafPage
        <4>. QED  BY <2>1, <2>2, <3>1, <4>2 DEF Settled
      <3>3. ASSUME Contains(pages[ref].keys, key) PROVE Contains(out, key)
        <4>1. key \in ToSet(pages[ref].keys)
          BY <3>2, <3>3, LenProperties DEF Contains, ToSet
        <4>2. DOMAIN out = 1..Len(out) /\ key \in ToSet(out)
          BY <1>2, <3>2, <4>1, LenProperties DEF TypeOK
        <4>. QED  BY <4>2 DEF Contains, ToSet
      <3>. QED  BY <3>1, <3>3
    <2>5. CASE BelowFirstKey
      BY <2>5 DEF BelowFirstKey, Answer
    <2>. QED  BY <2>3, <2>4, <2>5
  <1>. QED  BY <1>1, <1>2, VouchPreserved, TypeCorrect, WorkIsBounded, PTL
            DEF Spec, IterationVouches

-----------------------------------------------------------------------------
(* The bounds bisection is run between.                                    *)
Bounds(keys) == (0..Len(keys)) \X (0..Len(keys))

(* One step of bisect_right, on what the narrower bounds give.             *)
Halved(keys, k, g, lo, hi) ==
    LET mid == (lo + hi) \div 2
    IN IF lo >= hi THEN lo
       ELSE IF k < keys[mid + 1] THEN g[<<lo, mid>>] ELSE g[<<mid + 1, hi>>]

(* bisect_right as a function of its two bounds.                           *)
IsBisect(b, keys, k) == b = [w \in Bounds(keys) |-> Halved(keys, k, b, w[1], w[2])]

BisectOf(keys, k) == CHOOSE b : IsBisect(b, keys, k)

LEMMA BisectIs ==
    ASSUME NEW keys, NEW k PROVE BisectRight(keys, k) = BisectOf(keys, k)[<<0, Len(keys)>>]
  BY DEF BisectRight, BisectOf, IsBisect, Halved, Bounds

LEMMA Middle ==
    ASSUME NEW lo \in Nat, NEW hi \in Nat, lo < hi
    PROVE  /\ (lo + hi) \div 2 \in Nat
           /\ lo <= (lo + hi) \div 2 /\ (lo + hi) \div 2 < hi
  OBVIOUS

LEMMA BisectExists ==
    ASSUME NEW keys \in Seq(Nat), NEW k \in Nat
    PROVE  IsBisect(BisectOf(keys, k), keys, k)
  <1>1. PICK n \in Nat : n = Len(keys)
    BY LenProperties
  <1> DEFINE D == (0..n) \X (0..n)
             S == [D -> 0..n]
             Half(g) == [w \in D |-> Halved(keys, k, g, w[1], w[2])]
  <1>2. ASSUME NEW g \in S, NEW lo \in 0..n, NEW hi \in 0..n
        PROVE  Halved(keys, k, g, lo, hi) \in 0..n
    <2>1. CASE lo >= hi
      BY <2>1 DEF Halved
    <2>2. CASE ~(lo >= hi)
      <3>1. PICK mid \in Nat : mid = (lo + hi) \div 2 /\ lo <= mid /\ mid < hi
        BY <2>2, Middle
      <3>2. <<lo, mid>> \in D /\ <<mid + 1, hi>> \in D
        BY <3>1
      <3>. QED  BY <2>2, <3>1, <3>2 DEF Halved
    <2>. QED  BY <2>1, <2>2
  <1>3. \A g \in S : Half(g) \in S
    BY <1>2
  <1>4. PICK base \in S : \A lo \in 0..n, hi \in 0..n : base[<<lo, hi>>] = lo
    <2>1. [w \in D |-> w[1]] \in S
      OBVIOUS
    <2>. QED  BY <2>1
  <1>5. PICK step \in [Nat -> [S -> S]] : step = [i \in Nat |-> [g \in S |-> Half(g)]]
    BY <1>3
  <1> HIDE DEF S, Half
  <1>6. PICK f \in [0..(n + 1) -> S] : IsRecursion(f, base, step, n + 1)
    BY RecursionExists
  <1>7. /\ f[0] = base
        /\ \A i \in 0..n : i + 1 \in 0..(n + 1) /\ f[i] \in S /\ f[i + 1] = Half(f[i])
    <2>1. \A i \in 0..(n + 1) : f[i] = IF i = 0 THEN base ELSE step[i][f[i - 1]]
      BY <1>6 DEF IsRecursion
    <2>2. ASSUME NEW i \in 0..n PROVE i + 1 \in 0..(n + 1) /\ f[i] \in S /\ f[i + 1] = Half(f[i])
      <3>1. i + 1 \in 0..(n + 1) /\ i \in 0..(n + 1) /\ i + 1 # 0 /\ (i + 1) - 1 = i
        OBVIOUS
      <3>2. f[i] \in S
        BY <3>1
      <3>. QED  BY <1>5, <2>1, <3>1, <3>2
    <2>. QED  BY <2>1, <2>2
  <1>8. \A i \in 0..n, lo \in 0..n, hi \in 0..n : f[i + 1][<<lo, hi>>] = Halved(keys, k, f[i], lo, hi)
    BY <1>7 DEF Half
  <1> DEFINE Settles == {i \in Nat : i <= n => \A lo \in 0..n, hi \in 0..n :
                                        hi - lo <= i => f[i][<<lo, hi>>] = f[i + 1][<<lo, hi>>]}
  <1>9. 0 \in Settles
    <2>1. ASSUME NEW lo \in 0..n, NEW hi \in 0..n, hi - lo <= 0
          PROVE  f[0][<<lo, hi>>] = f[0 + 1][<<lo, hi>>]
      <3>1. lo >= hi /\ 0 \in 0..n
        BY <2>1
      <3>. QED  BY <1>4, <1>7, <1>8, <3>1, ZenonT(60) DEF Halved
    <2>. QED  BY <2>1
  <1>10. ASSUME NEW i \in Nat, i \in Settles PROVE i + 1 \in Settles
    <2> SUFFICES ASSUME i + 1 <= n, NEW lo \in 0..n, NEW hi \in 0..n, hi - lo <= i + 1
                 PROVE  f[i + 1][<<lo, hi>>] = f[(i + 1) + 1][<<lo, hi>>]
      OBVIOUS
    <2>1. i \in 0..n /\ i + 1 \in 0..n /\ i <= n
      OBVIOUS
    <2>2. /\ f[i + 1][<<lo, hi>>] = Halved(keys, k, f[i], lo, hi)
          /\ f[(i + 1) + 1][<<lo, hi>>] = Halved(keys, k, f[i + 1], lo, hi)
      BY <1>8, <2>1
    <2>3. CASE lo >= hi
      BY <2>2, <2>3 DEF Halved
    <2>4. CASE ~(lo >= hi)
      <3>1. PICK mid \in Nat : mid = (lo + hi) \div 2 /\ lo <= mid /\ mid < hi
        BY <2>4, Middle
      <3>2. mid \in 0..n /\ mid + 1 \in 0..n /\ mid - lo <= i /\ hi - (mid + 1) <= i
        BY <3>1
      <3>3. f[i][<<lo, mid>>] = f[i + 1][<<lo, mid>>] /\ f[i][<<mid + 1, hi>>] = f[i + 1][<<mid + 1, hi>>]
        BY <1>10, <2>1, <3>2
      <3> HIDE DEF Settles
      <3>. QED  BY <2>2, <2>4, <3>1, <3>3 DEF Halved
    <2>. QED  BY <2>3, <2>4
  <1> HIDE DEF Settles
  <1>11. \A i \in Nat : i \in Settles
    BY <1>9, <1>10, NatInduct
  <1>12. ASSUME NEW lo \in 0..n, NEW hi \in 0..n
         PROVE  f[n + 1][<<lo, hi>>] = Halved(keys, k, f[n + 1], lo, hi)
    <2>1. f[n + 1][<<lo, hi>>] = Halved(keys, k, f[n], lo, hi) /\ n \in 0..n
      BY <1>8
    <2>2. CASE lo >= hi
      BY <2>1, <2>2 DEF Halved
    <2>3. CASE ~(lo >= hi)
      <3>1. PICK mid \in Nat : mid = (lo + hi) \div 2 /\ lo <= mid /\ mid < hi
        BY <2>3, Middle
      <3>2. mid \in 0..n /\ mid + 1 \in 0..n /\ mid - lo <= n /\ hi - (mid + 1) <= n
        BY <3>1
      <3>3. f[n][<<lo, mid>>] = f[n + 1][<<lo, mid>>] /\ f[n][<<mid + 1, hi>>] = f[n + 1][<<mid + 1, hi>>]
        <4>1. n \in Settles
          BY <1>11
        <4>2. \A i \in 0..n, j \in 0..n : j - i <= n => f[n][<<i, j>>] = f[n + 1][<<i, j>>]
          BY <4>1 DEF Settles
        <4>. QED  BY <3>2, <4>2
      <3>. QED  BY <2>1, <2>3, <3>1, <3>3 DEF Halved
    <2>. QED  BY <2>2, <2>3
  <1>13. PICK b \in S : b = f[n + 1]
    <2>1. n + 1 \in 0..(n + 1)
      OBVIOUS
    <2>. QED  BY <2>1
  <1>14. IsBisect(b, keys, k)
    <2>1. b = [w \in D |-> b[w]]
      BY <1>13 DEF S
    <2>2. ASSUME NEW w \in D PROVE b[w] = Halved(keys, k, b, w[1], w[2])
      <3>1. PICK lo \in 0..n, hi \in 0..n : w = <<lo, hi>>
        OBVIOUS
      <3>. QED  BY <1>12, <1>13, <3>1
    <2>. QED  BY <1>1, <2>1, <2>2 DEF IsBisect, Bounds
  <1>. QED  BY <1>14 DEF BisectOf

(* Keys that ascend from one to the next ascend between any two.           *)
LEMMA AscendingAll ==
    ASSUME NEW s \in Seq(Nat), Ascending(s)
    PROVE  \A j \in 1..Len(s), i \in 1..Len(s) : i < j => s[i] < s[j]
  <1>1. PICK n \in Nat : n = Len(s)
    BY LenProperties
  <1>2. \A i \in 1..n : s[i] \in Nat
    BY <1>1, ElementOfSeq
  <1> DEFINE Good == {j \in Nat : j <= n => \A i \in 1..n : i < j => s[i] < s[j]}
  <1>3. 0 \in Good
    OBVIOUS
  <1>4. ASSUME NEW j \in Nat, j \in Good PROVE j + 1 \in Good
    <2> SUFFICES ASSUME j + 1 <= n, NEW i \in 1..n, i < j + 1 PROVE s[i] < s[j + 1]
      OBVIOUS
    <2>1. j \in 1..(n - 1) /\ j \in 1..n /\ j + 1 \in 1..n
      OBVIOUS
    <2>2. s[j] < s[j + 1]
      BY <1>1, <2>1 DEF Ascending
    <2>3. CASE i = j
      BY <2>2, <2>3
    <2>4. CASE i # j
      <3>1. i < j
        BY <2>4
      <3>2. s[i] < s[j]
        BY <1>4, <2>1, <3>1
      <3>. QED  BY <1>2, <2>1, <2>2, <3>2
    <2>. QED  BY <2>3, <2>4
  <1> HIDE DEF Good
  <1>5. \A j \in Nat : j \in Good
    BY <1>3, <1>4, NatInduct
  <1>. QED  BY <1>1, <1>5 DEF Good

(* Where bisection ends: for any keys, within its bounds; for keys that    *)
(* ascend, after all that are not greater and before all that are.         *)
LEMMA BisectProperties ==
    ASSUME NEW keys \in Seq(Nat), NEW k \in Nat
    PROVE  /\ BisectRight(keys, k) \in 0..Len(keys)
           /\ Ascending(keys) =>
                 \A i \in 1..Len(keys) : i <= BisectRight(keys, k) <=> keys[i] <= k
  <1>1. PICK n \in Nat : n = Len(keys)
    BY LenProperties
  <1>2. \A i \in 1..n : keys[i] \in Nat
    BY <1>1, ElementOfSeq
  <1>3. PICK b : b = BisectOf(keys, k)
    OBVIOUS
  <1>4. \A lo \in 0..n, hi \in 0..n : b[<<lo, hi>>] = Halved(keys, k, b, lo, hi)
    <2>1. IsBisect(b, keys, k)
      BY <1>3, BisectExists
    <2>2. \A w \in (0..n) \X (0..n) : b[w] = Halved(keys, k, b, w[1], w[2])
      BY <1>1, <2>1 DEF IsBisect, Bounds
    <2>. QED  BY <2>2
  <1> DEFINE Cuts(lo, hi) ==
                 /\ b[<<lo, hi>>] \in lo..hi
                 /\ Ascending(keys) => /\ \A i \in (lo + 1)..b[<<lo, hi>>] : keys[i] <= k
                                       /\ \A i \in (b[<<lo, hi>>] + 1)..hi : k < keys[i]
             Good == {m \in Nat : \A lo \in 0..n, hi \in 0..n :
                                      (lo <= hi /\ hi - lo <= m) => Cuts(lo, hi)}
  <1>5. 0 \in Good
    <2>1. ASSUME NEW lo \in 0..n, NEW hi \in 0..n, lo <= hi, hi - lo <= 0 PROVE Cuts(lo, hi)
      <3>1. lo = hi
        BY <2>1
      <3>2. b[<<lo, hi>>] = lo
        <4>1. b[<<lo, lo>>] = Halved(keys, k, b, lo, lo)
          BY <1>4
        <4>. QED  BY <3>1, <4>1 DEF Halved
      <3>. QED  BY <3>1, <3>2
    <2> HIDE DEF Cuts
    <2>. QED  BY <2>1
  <1>6. ASSUME NEW m \in Nat, m \in Good PROVE m + 1 \in Good
    <2> HIDE DEF Cuts
    <2> SUFFICES ASSUME NEW lo \in 0..n, NEW hi \in 0..n, lo <= hi, hi - lo <= m + 1
                 PROVE  Cuts(lo, hi)
      OBVIOUS
    <2> USE DEF Cuts
    <2>1. CASE lo = hi
      <3>1. b[<<lo, hi>>] = lo
        BY <1>4, <2>1 DEF Halved
      <3>. QED  BY <2>1, <3>1
    <2>2. CASE lo # hi
      <3>1. PICK mid \in Nat : mid = (lo + hi) \div 2 /\ lo <= mid /\ mid < hi
        BY <2>2, Middle
      <3>2. /\ mid \in 0..n /\ mid + 1 \in 0..n /\ mid + 1 \in 1..n /\ mid - lo <= m
            /\ hi - (mid + 1) <= m /\ mid + 1 <= hi
        BY <3>1
      <3>3. Cuts(lo, mid) /\ Cuts(mid + 1, hi)
        BY <1>6, <3>1, <3>2
      <3>4. b[<<lo, hi>>] = IF k < keys[mid + 1] THEN b[<<lo, mid>>] ELSE b[<<mid + 1, hi>>]
        BY <1>4, <2>2, <3>1, SMTT(30) DEF Halved
      <3>5. ASSUME Ascending(keys)
            PROVE  \A i \in 1..n : (i < mid + 1 => keys[i] < keys[mid + 1])
                                   /\ (mid + 1 < i => keys[mid + 1] < keys[i])
        BY <1>1, <3>2, <3>5, AscendingAll
      <3> HIDE DEF Good
      <3>6. CASE k < keys[mid + 1]
        <4>1. PICK r \in Nat : r = b[<<lo, mid>>] /\ lo <= r /\ r <= mid
          BY <3>3
        <4>2. b[<<lo, hi>>] = r /\ r \in lo..hi
          BY <3>1, <3>4, <3>6, <4>1
        <4>3. ASSUME Ascending(keys), NEW i \in (r + 1)..hi PROVE k < keys[i]
          <5>1. CASE i <= mid
            <6>1. i \in (b[<<lo, mid>>] + 1)..mid
              BY <4>1, <5>1
            <6>. QED  BY <3>3, <4>3, <6>1
          <5>2. CASE i > mid
            <6>1. i \in 1..n /\ (i = mid + 1 \/ mid + 1 < i)
              BY <4>1, <5>2
            <6>. QED  BY <1>2, <3>2, <3>5, <3>6, <4>3, <6>1
          <5>. QED  BY <5>1, <5>2
        <4>. QED  BY <3>3, <4>1, <4>2, <4>3
      <3>7. CASE ~(k < keys[mid + 1])
        <4>1. PICK r \in Nat : r = b[<<mid + 1, hi>>] /\ mid + 1 <= r /\ r <= hi
          BY <3>2, <3>3
        <4>2. b[<<lo, hi>>] = r /\ r \in lo..hi
          BY <3>1, <3>4, <3>7, <4>1
        <4>3. ASSUME Ascending(keys), NEW i \in (lo + 1)..r PROVE keys[i] <= k
          <5>1. CASE i >= mid + 2
            <6>1. i \in ((mid + 1) + 1)..b[<<mid + 1, hi>>]
              BY <4>1, <5>1
            <6>. QED  BY <3>3, <4>3, <6>1
          <5>2. CASE i < mid + 2
            <6>1. i \in 1..n /\ (i = mid + 1 \/ i < mid + 1)
              BY <4>1, <5>2
            <6>. QED  BY <1>2, <3>2, <3>5, <3>7, <4>3, <6>1
          <5>. QED  BY <5>1, <5>2
        <4>. QED  BY <3>3, <4>1, <4>2, <4>3
      <3>. QED  BY <3>6, <3>7
    <2>. QED  BY <2>1, <2>2
  <1>7. Cuts(0, n)
    <2> HIDE DEF Cuts, Good
    <2>1. \A m \in Nat : m \in Good
      BY <1>5, <1>6, NatInduct
    <2>2. n \in Good /\ 0 \in 0..n /\ n \in 0..n /\ n - 0 <= n /\ 0 <= n
      BY <2>1
    <2>. QED  BY <2>2 DEF Good
  <1>8. BisectRight(keys, k) = b[<<0, n>>]
    BY <1>1, <1>3, BisectIs
  <1>9. ASSUME Ascending(keys), NEW i \in 1..n
        PROVE  i <= b[<<0, n>>] <=> keys[i] <= k
    <2>1. b[<<0, n>>] \in 0..n
      BY <1>7
    <2>2. CASE i <= b[<<0, n>>]
      <3>1. i \in (0 + 1)..b[<<0, n>>]
        BY <2>1, <2>2
      <3>. QED  BY <1>7, <1>9, <2>2, <3>1
    <2>3. CASE ~(i <= b[<<0, n>>])
      <3>1. k < keys[i]
        BY <1>7, <1>9, <2>1, <2>3
      <3>. QED  BY <1>2, <2>3, <3>1
    <2>. QED  BY <2>2, <2>3
  <1>. QED  BY <1>1, <1>7, <1>8, <1>9

-----------------------------------------------------------------------------
(* The tree below the root, unfolded.                                      *)
Levels == MaxBTreeDepth + 1
Item == [ref : Refs, depth : Int]
Kids == [r \in Refs |-> ChildRefs(r)]
Here == [n \in Nat |-> [r \in Refs |-> [ref |-> r, depth |-> Levels - n]]]

RefsIn(ps, r) == IF ps[r].kind = "node"
                 THEN [i \in DOMAIN ps[r].entries |-> ps[r].entries[i].ref]
                 ELSE <<>>
IsBelowIn(ps, below) ==
    below = [n \in 0..Levels |->
                [x \in Refs |->
                    <<[ref |-> x, depth |-> Levels - n]>> \o
                    (IF n = 0 THEN <<>>
                     ELSE FlattenSeq([i \in DOMAIN RefsIn(ps, x) |->
                                        below[n - 1][RefsIn(ps, x)[i]]]))]]
BelowIn(ps) == CHOOSE below : IsBelowIn(ps, below)
Below == BelowIn(pages)

LEMMA OccurrencesAre == ASSUME NEW r, NEW d PROVE Occurrences(r, d) = Below[Levels - d][r]
  BY DEF Occurrences, Below, BelowIn, IsBelowIn, RefsIn, ChildRefs, Levels

LEMMA LevelsType == MaxBTreeDepth \in Nat /\ Levels \in Nat /\ Levels # 0 /\ MaxItems \in Nat /\ MaxItems # 0
  BY LimitsAssumption DEF Levels

LEMMA KidsType ==
    ASSUME pages \in [Refs -> Page]
    PROVE  /\ Kids \in [Refs -> Seq(Refs)]
           /\ \A r \in Refs :
                 /\ pages[r].kind # "node" => Kids[r] = <<>>
                 /\ pages[r].kind = "node" =>
                       /\ pages[r].entries \in Seq([key : Keys, ref : Refs])
                       /\ Len(Kids[r]) = Len(pages[r].entries)
                       /\ \A i \in 1..Len(Kids[r]) : Kids[r][i] = pages[r].entries[i].ref
  <1>1. ASSUME NEW r \in Refs, pages[r].kind = "node"
        PROVE  /\ ChildRefs(r) \in Seq(Refs) /\ pages[r].entries \in Seq([key : Keys, ref : Refs])
               /\ Len(ChildRefs(r)) = Len(pages[r].entries)
               /\ \A i \in 1..Len(ChildRefs(r)) : ChildRefs(r)[i] = pages[r].entries[i].ref
    <2> DEFINE es == pages[r].entries
    <2>1. es \in Seq([key : Keys, ref : Refs])
      BY <1>1 DEF Page
    <2>2. PICK n \in Nat : n = Len(es)
      BY <2>1, LenProperties
    <2>3. DOMAIN es = 1..n /\ \A i \in 1..n : es[i] \in [key : Keys, ref : Refs]
      BY <2>1, <2>2, LenProperties, ElementOfSeq
    <2>4. ChildRefs(r) = [i \in 1..n |-> es[i].ref]
      BY <1>1, <2>3 DEF ChildRefs
    <2>5. ChildRefs(r) \in [1..n -> Refs]
      BY <2>3, <2>4
    <2>6. ChildRefs(r) \in Seq(Refs)
      BY <2>5
    <2>7. Len(ChildRefs(r)) \in Nat /\ DOMAIN ChildRefs(r) = 1..Len(ChildRefs(r))
      BY <2>6, LenProperties
    <2>8. Len(ChildRefs(r)) = n
      BY <2>5, <2>7
    <2>. QED  BY <2>1, <2>2, <2>4, <2>6, <2>8
  <1>2. ASSUME NEW r \in Refs, pages[r].kind # "node" PROVE ChildRefs(r) = <<>> /\ ChildRefs(r) \in Seq(Refs)
    BY <1>2, EmptySeq DEF ChildRefs
  <1>3. \A r \in Refs : ChildRefs(r) \in Seq(Refs)
    BY <1>1, <1>2
  <1>. QED  BY <1>1, <1>2, <1>3 DEF Kids

LEMMA HereType == Here \in [Nat -> [Refs -> Item]]
  <1>1. \A n \in Nat, r \in Refs : [ref |-> r, depth |-> Levels - n] \in Item
    BY LevelsType DEF Item
  <1>. QED  BY <1>1 DEF Here

LEMMA BelowUnfolds ==
    ASSUME pages \in [Refs -> Page]
    PROVE  IsUnfolded(Below, Refs, Kids, Here, Levels)
  <1>1. \A n \in 0..Levels : n \in Nat
    BY LevelsType
  <1>2. ASSUME NEW b PROVE IsBelowIn(pages, b) <=> IsUnfolded(b, Refs, Kids, Here, Levels)
    <2>1. ASSUME NEW n \in 0..Levels, NEW x \in Refs
          PROVE  <<[ref |-> x, depth |-> Levels - n]>> \o
                    (IF n = 0 THEN <<>>
                     ELSE FlattenSeq([i \in DOMAIN RefsIn(pages, x) |->
                                        b[n - 1][RefsIn(pages, x)[i]]]))
                 = <<Here[n][x]>> \o (IF n = 0 THEN <<>> ELSE Spread(Kids[x], b[n - 1]))
      <3>1. Here[n][x] = [ref |-> x, depth |-> Levels - n] /\ Kids[x] = ChildRefs(x)
        BY <1>1 DEF Here, Kids
      <3>. QED  BY <3>1 DEF Spread, Mapped, RefsIn, ChildRefs
    <2>. QED  BY <2>1 DEF IsBelowIn, IsUnfolded
  <1>3. \E b : IsUnfolded(b, Refs, Kids, Here, Levels)
    BY LevelsType, KidsType, HereType, UnfoldingExists
  <1>4. IsBelowIn(pages, Below)
    BY <1>2, <1>3 DEF Below, BelowIn
  <1>. QED  BY <1>2, <1>4

(* Below, as the lemmas about unfolded trees have it.                      *)
LEMMA BelowIs ==
    ASSUME pages \in [Refs -> Page]
    PROVE  /\ Below \in [0..Levels -> [Refs -> Seq(Item)]]
           /\ \A x \in Refs : Below[0][x] = <<Here[0][x]>>
           /\ \A n \in 1..Levels, x \in Refs :
                 /\ n - 1 \in 0..Levels /\ Below[n - 1] \in [Refs -> Seq(Item)]
                 /\ Below[n][x] = <<Here[n][x]>> \o Spread(Kids[x], Below[n - 1])
                 /\ Spread(Kids[x], Below[n - 1]) \in Seq(Item)
  BY BelowUnfolds, LevelsType, KidsType, HereType, UnfoldingIs

-----------------------------------------------------------------------------
(* What an entry of the stack stands for.                                  *)
Pre == [p \in Pair |-> IF p.depth <= Levels THEN Below[Levels - p.depth][p.ref] ELSE <<>>]
PairKids(p) == IF pages[p.ref].kind = "node" THEN Children(p.ref, p.depth + 1) ELSE <<>>

LEMMA PreType ==
    ASSUME pages \in [Refs -> Page]
    PROVE  Pre \in [Pair -> Seq(Item)]
  <1>1. ASSUME NEW p \in Pair
        PROVE  (IF p.depth <= Levels THEN Below[Levels - p.depth][p.ref] ELSE <<>>) \in Seq(Item)
    <2>1. p.depth \in Nat /\ p.ref \in Refs /\ Levels \in Nat
      BY LevelsType DEF Pair
    <2>2. CASE p.depth <= Levels
      <3>1. Levels - p.depth \in 0..Levels
        BY <2>1, <2>2
      <3>2. Below[Levels - p.depth] \in [Refs -> Seq(Item)]
        BY <3>1, BelowIs
      <3>. QED  BY <2>1, <2>2, <3>2
    <2>. QED  BY <2>2, EmptySeq
  <1>. QED  BY <1>1 DEF Pre

LEMMA PairKidsType ==
    ASSUME pages \in [Refs -> Page], NEW p \in Pair
    PROVE  /\ PairKids(p) \in Seq(Pair)
           /\ \A q \in ToSet(PairKids(p)) : q.depth = p.depth + 1
  <1>1. p.ref \in Refs /\ p.depth + 1 \in Nat
    BY DEF Pair
  <1>2. CASE pages[p.ref].kind = "node"
    <2>1. PICK r \in Refs, d \in Nat : r = p.ref /\ d = p.depth + 1
      BY <1>1
    <2>2. pages[r].kind = "node" /\ pages[r].entries \in Seq([key : Keys, ref : Refs])
      BY <1>2, <2>1, KidsType
    <2>3. Children(r, d) \in Seq(Pair) /\ \A q \in ToSet(Children(r, d)) : q.depth = d
      BY <2>2, ChildrenProperties
    <2>. QED  BY <1>2, <2>1, <2>3 DEF PairKids
  <1>3. CASE pages[p.ref].kind # "node"
    <2>1. PairKids(p) = <<>> /\ ToSet(PairKids(p)) = {}
      BY <1>3 DEF PairKids, ToSet
    <2>. QED  BY <2>1, EmptySeq
  <1>. QED  BY <1>2, <1>3

(* A page, and then what is under it. *)
LEMMA PreStarts ==
    ASSUME pages \in [Refs -> Page], NEW p \in Pair, p.depth <= Levels
    PROVE  \E rest \in Seq(Item) : Pre[p] = <<p>> \o rest
  <1>1. p.ref \in Refs /\ p.depth \in Nat /\ Levels \in Nat /\ p = [ref |-> p.ref, depth |-> p.depth]
    BY LevelsType DEF Pair
  <1>2. PICK n \in 0..Levels : n = Levels - p.depth
    BY <1>1
  <1>3. Pre[p] = Below[n][p.ref] /\ Here[n][p.ref] = p
    <2>1. Levels - n = p.depth /\ n \in Nat
      BY <1>1, <1>2
    <2>. QED  BY <1>1, <1>2, <2>1 DEF Pre, Here
  <1>4. CASE n = 0
    <2>1. <<p>> \o <<>> = <<p>>
      <3>1. <<p>> \in Seq(Pair)
        OBVIOUS
      <3>. QED  BY <3>1, ConcatEmptySeq
    <2>. QED  BY <1>1, <1>3, <1>4, <2>1, BelowIs, EmptySeq
  <1>5. CASE n # 0
    <2>1. n \in 1..Levels
      BY <1>2, <1>5
    <2>. QED  BY <1>1, <1>3, <2>1, BelowIs
  <1>. QED  BY <1>4, <1>5

LEMMA PreUnfolds ==
    ASSUME pages \in [Refs -> Page], NEW p \in Pair, p.depth <= MaxBTreeDepth
    PROVE  Pre[p] = <<p>> \o Spread(PairKids(p), Pre)
  <1>1. /\ p.ref \in Refs /\ p.depth \in Nat /\ Levels \in Nat /\ MaxBTreeDepth \in Nat
        /\ p = [ref |-> p.ref, depth |-> p.depth]
    BY LevelsType DEF Pair
  <1>2. PICK n \in 1..Levels :
           n = Levels - p.depth /\ Levels - n = p.depth /\ n - 1 = Levels - (p.depth + 1)
    BY <1>1 DEF Levels
  <1>3. p.depth <= Levels /\ p.depth + 1 <= Levels /\ n \in Nat
    BY <1>1, <1>2 DEF Levels
  <1>4. Pre[p] = Below[n][p.ref] /\ Here[n][p.ref] = p
    BY <1>1, <1>2, <1>3 DEF Pre, Here
  <1>5. Mapped(PairKids(p), Pre) = Mapped(Kids[p.ref], Below[n - 1])
    <2>1. CASE pages[p.ref].kind = "node"
      <3>1. PairKids(p) = [i \in DOMAIN pages[p.ref].entries |->
                             [ref |-> pages[p.ref].entries[i].ref, depth |-> p.depth + 1]]
        BY <2>1 DEF PairKids, Children
      <3>2. Kids[p.ref] = [i \in DOMAIN pages[p.ref].entries |-> pages[p.ref].entries[i].ref]
        BY <1>1, <2>1 DEF Kids, ChildRefs
      <3>3. ASSUME NEW i \in DOMAIN PairKids(p)
            PROVE  Pre[PairKids(p)[i]] = Below[n - 1][Kids[p.ref][i]]
        <4>1. PairKids(p)[i] \in Pair
          BY PairKidsType, LenProperties, ElementOfSeq
        <4>2. PairKids(p)[i].ref = Kids[p.ref][i] /\ PairKids(p)[i].depth = p.depth + 1
          BY <3>1, <3>2
        <4>. QED  BY <1>2, <1>3, <4>1, <4>2 DEF Pre
      <3>4. DOMAIN PairKids(p) = DOMAIN Kids[p.ref]
        BY <3>1, <3>2
      <3>. QED  BY <3>3, <3>4 DEF Mapped
    <2>2. CASE pages[p.ref].kind # "node"
      <3>1. PairKids(p) = <<>> /\ Kids[p.ref] = <<>>
        BY <1>1, <2>2, KidsType DEF PairKids
      <3>. QED  BY <3>1, MappedEmpty
    <2>. QED  BY <2>1, <2>2
  <1>. QED  BY <1>1, <1>2, <1>4, <1>5, BelowIs DEF Spread

-----------------------------------------------------------------------------
(* The keys of the leaves of a part of the tree, in its order.             *)
KeysAt == [q \in Item |-> IF IsLeaf(q.ref) THEN pages[q.ref].keys ELSE <<>>]
Whole == Below[Levels][root]
AllKeys == Spread(Whole, KeysAt)

LEMMA KeysAtType ==
    ASSUME pages \in [Refs -> Page]
    PROVE  KeysAt \in [Item -> Seq(Keys)] /\ Pair \subseteq Item
  <1>1. ASSUME NEW q \in Item PROVE (IF IsLeaf(q.ref) THEN pages[q.ref].keys ELSE <<>>) \in Seq(Keys)
    <2>1. q.ref \in Refs
      BY DEF Item
    <2>2. pages[q.ref] \in Page
      BY <2>1
    <2>. QED  BY <2>2, EmptySeq DEF IsLeaf, Page
  <1>2. Pair \subseteq Item
    BY DEF Pair, Item
  <1>. QED  BY <1>1, <1>2 DEF KeysAt

LEMMA LeafKeysAre ==
    ASSUME pages \in [Refs -> Page], NEW r \in Refs, NEW d \in 0..Levels
    PROVE  /\ Levels - d \in 0..Levels
           /\ Occurrences(r, d) = Below[Levels - d][r] /\ Occurrences(r, d) \in Seq(Item)
           /\ LeafKeys(r, d) = Spread(Below[Levels - d][r], KeysAt)
           /\ LeafKeys(r, d) \in Seq(Keys)
  <1>1. Levels - d \in 0..Levels
    BY LevelsType
  <1>2. PICK occ \in Seq(Item) : occ = Below[Levels - d][r] /\ occ = Occurrences(r, d)
    <2>1. Below[Levels - d] \in [Refs -> Seq(Item)]
      BY <1>1, BelowIs
    <2>. QED  BY <2>1, OccurrencesAre
  <1>3. Mapped(occ, KeysAt) =
           [i \in DOMAIN occ |-> IF IsLeaf(occ[i].ref) THEN pages[occ[i].ref].keys ELSE <<>>]
    <2>1. \A i \in DOMAIN occ : occ[i] \in Item
      BY LenProperties, ElementOfSeq
    <2>. QED  BY <2>1 DEF Mapped, KeysAt
  <1>4. LeafKeys(r, d) = Spread(occ, KeysAt)
    BY <1>2, <1>3 DEF LeafKeys, Spread
  <1>5. Spread(occ, KeysAt) \in Seq(Keys)
    BY KeysAtType, SpreadType
  <1>. QED  BY <1>1, <1>2, <1>4, <1>5

LEMMA WholeIs ==
    ASSUME pages \in [Refs -> Page], root \in Refs
    PROVE  /\ Whole \in Seq(Item) /\ Occurrences(root, 0) = Whole
           /\ AllKeys \in Seq(Keys) /\ LeafKeys(root, 0) = AllKeys
  <1>1. 0 \in 0..Levels /\ Levels - 0 = Levels
    BY LevelsType
  <1>. QED  BY <1>1, LeafKeysAre DEF Whole, AllKeys

-----------------------------------------------------------------------------
(* Bisection in a node page: where it ends, for any keys and for keys that *)
(* ascend.                                                                 *)
LEMMA PositionIs ==
    ASSUME pages \in [Refs -> Page], NEW r \in Refs, pages[r].kind = "node", NEW k \in Keys
    PROVE  LET es == pages[r].entries
           IN /\ es \in Seq([key : Keys, ref : Refs]) /\ DOMAIN es = 1..Len(es) /\ Len(es) \in Nat
              /\ PositionOf(r, k) \in 0..Len(es)
              /\ Ascending([j \in DOMAIN es |-> es[j].key]) =>
                    \A i \in 1..Len(es) : i <= PositionOf(r, k) <=> es[i].key <= k
  <1>1. PICK es \in Seq([key : Keys, ref : Refs]) : es = pages[r].entries
    BY KidsType
  <1>2. PICK n \in Nat : n = Len(es) /\ DOMAIN es = 1..n
    BY LenProperties
  <1>3. \A i \in 1..n : es[i].key \in Nat
    <2>1. \A i \in 1..n : es[i] \in [key : Keys, ref : Refs]
      BY <1>2, ElementOfSeq
    <2>. QED  BY <2>1, KeysAssumption
  <1>4. PICK keys : keys = [j \in DOMAIN es |-> es[j].key]
    OBVIOUS
  <1>5. keys \in [1..n -> Nat] /\ \A i \in 1..n : keys[i] = es[i].key
    BY <1>2, <1>3, <1>4
  <1>6. keys \in Seq(Nat)
    BY <1>5
  <1>7. Len(keys) = n
    <2>1. DOMAIN keys = 1..Len(keys) /\ Len(keys) \in Nat
      BY <1>6, LenProperties
    <2>. QED  BY <1>5, <2>1
  <1>8. PositionOf(r, k) = BisectRight(keys, k)
    BY <1>1, <1>4 DEF PositionOf
  <1>9. k \in Nat
    BY KeysAssumption
  <1>10. /\ BisectRight(keys, k) \in 0..n
         /\ Ascending(keys) => \A i \in 1..n : i <= BisectRight(keys, k) <=> keys[i] <= k
    BY <1>6, <1>7, <1>9, BisectProperties
  <1>. QED  BY <1>1, <1>2, <1>4, <1>5, <1>8, <1>10

(* The page a lookup for a key goes on to from a node page.                *)
Chosen(r, k) == pages[r].entries[PositionOf(r, k)].ref

LEMMA ChosenType ==
    ASSUME pages \in [Refs -> Page], NEW r \in Refs, pages[r].kind = "node", NEW k \in Keys,
           PositionOf(r, k) # 0
    PROVE  Chosen(r, k) \in Refs
  <1>1. PICK es \in Seq([key : Keys, ref : Refs]) : es = pages[r].entries
    BY KidsType
  <1>2. PositionOf(r, k) \in 1..Len(es)
    <2>1. PositionOf(r, k) \in 0..Len(es) /\ Len(es) \in Nat
      BY <1>1, PositionIs
    <2>. QED  BY <2>1
  <1>3. es[PositionOf(r, k)] \in [key : Keys, ref : Refs]
    BY <1>2, ElementOfSeq
  <1>. QED  BY <1>1, <1>3 DEF Chosen

-----------------------------------------------------------------------------
(* Descent, with the levels left as its argument.                          *)
IsDownIn(ps, at, k) ==
    at = [n \in 0..Levels |->
            [r \in Refs |->
                IF n = 0 \/ Levels - n >= MaxItems THEN "PstLimitError"
                ELSE IF ps[r].kind = "bad" THEN "PstFormatError"
                ELSE IF ps[r].kind = "leaf"
                THEN IF Contains(ps[r].keys, k) THEN "found" ELSE "PstNotFoundError"
                ELSE IF BisectRight([i \in DOMAIN ps[r].entries |-> ps[r].entries[i].key], k) = 0
                THEN "PstNotFoundError"
                ELSE at[n - 1][ps[r].entries[
                        BisectRight([i \in DOMAIN ps[r].entries |-> ps[r].entries[i].key], k)].ref]]]
DownIn(ps, k) == CHOOSE at : IsDownIn(ps, at, k)
DownOf(k) == DownIn(pages, k)

LEMMA DescentIs == ASSUME NEW k PROVE Descent(k) = DownOf(k)[Levels][root]
  BY DEF Descent, DownOf, DownIn, IsDownIn, Levels, IsLeaf, PositionOf

(* One level of it, on what the level below gives.                         *)
Looked(n, r, k, g) ==
    IF n = 0 \/ Levels - n >= MaxItems THEN "PstLimitError"
    ELSE IF pages[r].kind = "bad" THEN "PstFormatError"
    ELSE IF IsLeaf(r)
    THEN IF Contains(pages[r].keys, k) THEN "found" ELSE "PstNotFoundError"
    ELSE IF PositionOf(r, k) = 0 THEN "PstNotFoundError"
    ELSE g[Chosen(r, k)]

LEMMA DownExists ==
    ASSUME pages \in [Refs -> Page], NEW k \in Keys
    PROVE  \A n \in 0..Levels, r \in Refs :
              DownOf(k)[n][r] = Looked(n, r, k, DownOf(k)[n - 1])
  <1> DEFINE Answers == {"PstLimitError", "PstFormatError", "PstNotFoundError", "found"}
             S == [Refs -> Answers]
             base == [r \in Refs |-> "PstLimitError"]
             More(n, g) == [r \in Refs |-> Looked(n, r, k, g)]
  <1>1. base \in S
    OBVIOUS
  <1>2. ASSUME NEW n \in Nat, NEW g \in S, NEW r \in Refs PROVE Looked(n, r, k, g) \in Answers
    <2>1. CASE pages[r].kind = "node" /\ PositionOf(r, k) # 0
      <3>1. Chosen(r, k) \in Refs
        BY <2>1, ChosenType
      <3>2. g[Chosen(r, k)] \in Answers
        BY <3>1
      <3>. QED  BY <3>2 DEF Looked
    <2>2. CASE ~(pages[r].kind = "node" /\ PositionOf(r, k) # 0)
      <3>1. pages[r].kind \in {"leaf", "node", "bad"}
        BY DEF Page
      <3>. QED  BY <2>2, <3>1 DEF Looked, IsLeaf
    <2>. QED  BY <2>1, <2>2
  <1>3. \A n \in Nat, g \in S : More(n, g) \in S
    BY <1>2
  <1>4. PICK step \in [Nat -> [S -> S]] : step = [n \in Nat |-> [g \in S |-> More(n, g)]]
    BY <1>3
  <1> HIDE DEF S, base, More
  <1>5. PICK f \in [0..Levels -> S] : IsRecursion(f, base, step, Levels)
    BY <1>1, LevelsType, RecursionExists
  <1>6. ASSUME NEW n \in 0..Levels PROVE f[n] = More(n, f[n - 1])
    <2>1. f[n] = IF n = 0 THEN base ELSE step[n][f[n - 1]]
      BY <1>5 DEF IsRecursion
    <2>2. CASE n = 0
      BY <2>1, <2>2 DEF base, More, Looked
    <2>3. CASE n # 0
      <3>1. n \in Nat /\ n - 1 \in 0..Levels
        BY <2>3, LevelsType
      <3>2. f[n - 1] \in S
        BY <3>1
      <3>. QED  BY <1>4, <2>1, <2>3, <3>1, <3>2
    <2>. QED  BY <2>2, <2>3
  <1>7. f = [n \in 0..Levels |-> More(n, f[n - 1])]
    <2>1. f = [n \in 0..Levels |-> f[n]]
      OBVIOUS
    <2>. QED  BY <1>6, <2>1
  <1>8. ASSUME NEW at PROVE IsDownIn(pages, at, k) <=> at = [n \in 0..Levels |-> More(n, at[n - 1])]
    BY DEF IsDownIn, More, Looked, Chosen, IsLeaf, PositionOf
  <1>9. IsDownIn(pages, DownOf(k), k)
    BY <1>7, <1>8 DEF DownOf, DownIn
  <1>10. DownOf(k) = [n \in 0..Levels |-> More(n, DownOf(k)[n - 1])]
    BY <1>8, <1>9
  <1>11. PICK d : d = DownOf(k)
    OBVIOUS
  <1>12. \A n \in 0..Levels : d[n] = More(n, d[n - 1])
    BY <1>10, <1>11
  <1>. QED  BY <1>11, <1>12 DEF More

(* Pages that lead a key round in a circle use up every level.             *)
LEMMA CircleRefused ==
    ASSUME pages \in [Refs -> Page], NEW k \in Keys, NEW P \in SUBSET Refs,
           \A p \in P : /\ pages[p].kind = "node" /\ PositionOf(p, k) # 0
                        /\ Chosen(p, k) \in P
    PROVE  \A n \in 0..Levels, p \in P : DownOf(k)[n][p] = "PstLimitError"
  <1>1. PICK d : d = DownOf(k)
    OBVIOUS
  <1>2. \A n \in 0..Levels, r \in Refs : d[n][r] = Looked(n, r, k, d[n - 1])
    BY <1>1, DownExists
  <1> DEFINE Good == {n \in Nat : n <= Levels => \A p \in P : d[n][p] = "PstLimitError"}
  <1>3. 0 \in Good
    <2>1. 0 \in 0..Levels
      BY LevelsType
    <2>. QED  BY <1>2, <2>1 DEF Looked
  <1>4. ASSUME NEW n \in Nat, n \in Good PROVE n + 1 \in Good
    <2> SUFFICES ASSUME n + 1 <= Levels, NEW p \in P PROVE d[n + 1][p] = "PstLimitError"
      OBVIOUS
    <2>1. n + 1 \in 0..Levels /\ (n + 1) - 1 = n /\ n <= Levels
      BY LevelsType
    <2>2. d[n + 1][p] = Looked(n + 1, p, k, d[n])
      BY <1>2, <2>1
    <2>3. d[n][Chosen(p, k)] = "PstLimitError"
      BY <1>4, <2>1
    <2>. QED  BY <2>2, <2>3 DEF Looked, IsLeaf
  <1> HIDE DEF Good
  <1>5. \A n \in Nat : n \in Good
    BY <1>3, <1>4, NatInduct
  <1>6. \A n \in 0..Levels : n \in Nat /\ n <= Levels
    BY LevelsType
  <1>. QED  BY <1>1, <1>5, <1>6 DEF Good

-----------------------------------------------------------------------------
(* What a lookup keeps on its way down: the pages it has read lead its key *)
(* to the page it reads next, and what that page gives with the levels     *)
(* that are left is what the root gives.                                   *)
LookupInv ==
    /\ fpc = "descend" =>
         /\ DownOf(key)[Levels - depth][ref] = DownOf(key)[Levels][root]
         /\ \A p \in path : /\ pages[p].kind = "node" /\ PositionOf(p, key) # 0
                            /\ Chosen(p, key) \in path \cup {ref}
    /\ (fpc = "idle" /\ answer # NoError) => answer = DownOf(key)[Levels][root]

LEMMA DownUnchanged == ASSUME UNCHANGED pages PROVE \A k : DownOf(k)' = DownOf(k)
  BY DEF DownOf

LEMMA ChosenUnchanged ==
    ASSUME UNCHANGED pages
    PROVE  \A p, k : PositionOf(p, k)' = PositionOf(p, k) /\ Chosen(p, k)' = Chosen(p, k)
  BY Zenon DEF Chosen, PositionOf

(* What the page a lookup is about to read answers.                        *)
LEMMA LookedAt ==
    ASSUME TypeOK, WorkBounded, LookupInv, fpc = "descend"
    PROVE  \E n \in 0..Levels :
              /\ n = Levels - depth /\ Levels - n = depth
              /\ DownOf(key)[Levels][root] = Looked(n, ref, key, DownOf(key)[n - 1])
              /\ ~ChildLimit(ref, depth, path) => n # 0 /\ ~(Levels - n >= MaxItems)
              /\ ChildLimit(ref, depth, path) => DownOf(key)[Levels][root] = "PstLimitError"
  <1>1. PICK n \in 0..Levels : n = Levels - depth /\ Levels - n = depth
    <2>1. depth \in Nat /\ depth <= Levels
      BY DEF TypeOK, WorkBounded, Levels
    <2>. QED  BY <2>1, LevelsType
  <1>2. /\ pages \in [Refs -> Page] /\ key \in Keys /\ ref \in Refs /\ path \in SUBSET Refs
        /\ depth \in Nat /\ depth = Cardinality(path)
    BY DEF TypeOK, WorkBounded
  <1>3. DownOf(key)[Levels][root] = DownOf(key)[n][ref]
    BY <1>1 DEF LookupInv
  <1>4. DownOf(key)[n][ref] = Looked(n, ref, key, DownOf(key)[n - 1])
    BY <1>2, DownExists
  <1>5. ASSUME ~ChildLimit(ref, depth, path) PROVE n # 0 /\ ~(Levels - n >= MaxItems)
    BY <1>1, <1>2, <1>5, LevelsType DEF ChildLimit, Exceeds, AddRefused, Levels
  <1>6. ASSUME ChildLimit(ref, depth, path) PROVE DownOf(key)[Levels][root] = "PstLimitError"
    <2>1. CASE Exceeds(depth, MaxBTreeDepth) \/ Cardinality(path) >= MaxItems
      <3>1. n = 0 \/ Levels - n >= MaxItems
        BY <1>1, <1>2, <2>1, LevelsType DEF Exceeds, Levels
      <3>. QED  BY <1>3, <1>4, <3>1 DEF Looked
    <2>2. CASE ref \in path
      <3>1. \A p \in path : /\ pages[p].kind = "node" /\ PositionOf(p, key) # 0
                            /\ Chosen(p, key) \in path
        BY <2>2 DEF LookupInv
      <3>2. DownOf(key)[n][ref] = "PstLimitError"
        BY <1>2, <2>2, <3>1, CircleRefused
      <3>. QED  BY <1>3, <3>2
    <2>. QED  BY <1>6, <2>1, <2>2 DEF ChildLimit, AddRefused
  <1>. QED  BY <1>1, <1>3, <1>4, <1>5, <1>6

LEMMA LookupPreserved ==
    ASSUME TypeOK, WorkBounded, LookupInv, [Next]_vars
    PROVE  LookupInv'
  <1>1. UNCHANGED <<pages, root>>
    BY DEF Next, Resume, LookupStep, YieldLeaf, YieldNode, RefusePage, Exhaust, Find,
           RefuseLookup, SearchLeaf, BelowFirstKey, Descend, ReadOnly, vars
  <1>2. \A k : DownOf(k)' = DownOf(k)
    BY <1>1, DownUnchanged
  <1>3. \A p, k : PositionOf(p, k)' = PositionOf(p, k) /\ Chosen(p, k)' = Chosen(p, k)
    BY <1>1, ChosenUnchanged
  <1>4. Levels' = Levels
    BY DEF Levels
  <1>5. CASE UNCHANGED lookup
    BY <1>1, <1>2, <1>3, <1>4, <1>5 DEF lookup, LookupInv
  <1>6. ASSUME NEW k \in Keys, Find(k) PROVE LookupInv'
    <2>1. fpc' = "descend" /\ key' = k /\ ref' = root /\ depth' = 0 /\ path' = {}
      BY <1>6 DEF Find
    <2>2. Levels - 0 = Levels
      BY LevelsType
    <2>. QED  BY <1>1, <1>2, <1>4, <2>1, <2>2 DEF LookupInv
  <1>7. ASSUME NEW a, Answer(a), a = DownOf(key)[Levels][root] PROVE LookupInv'
    <2>1. fpc' = "idle" /\ key' = key /\ answer' = a
      BY <1>7 DEF Answer
    <2>. QED  BY <1>1, <1>2, <1>4, <1>7, <2>1 DEF LookupInv
  <1>8. CASE LookupStep
    <2>1. fpc = "descend"
      BY <1>8 DEF LookupStep, RefuseLookup, SearchLeaf, BelowFirstKey, Descend
    <2>2. PICK n \in 0..Levels :
              /\ n = Levels - depth /\ Levels - n = depth
              /\ DownOf(key)[Levels][root] = Looked(n, ref, key, DownOf(key)[n - 1])
              /\ ~ChildLimit(ref, depth, path) => n # 0 /\ ~(Levels - n >= MaxItems)
              /\ ChildLimit(ref, depth, path) => DownOf(key)[Levels][root] = "PstLimitError"
      BY <2>1, LookedAt
    <2>3. /\ pages \in [Refs -> Page] /\ key \in Keys /\ ref \in Refs /\ depth \in Nat
          /\ pages[ref].kind \in {"leaf", "node", "bad"}
      BY DEF TypeOK, Page
    <2>4. CASE RefuseLookup
      <3>1. CASE ChildLimit(ref, depth, path) /\ Answer("PstLimitError")
        BY <1>7, <2>2, <3>1
      <3>2. CASE ~ChildLimit(ref, depth, path) /\ ChildBad(ref) /\ Answer("PstFormatError")
        <4>1. DownOf(key)[Levels][root] = "PstFormatError"
          BY <2>2, <3>2 DEF Looked, ChildBad
        <4>. QED  BY <1>7, <3>2, <4>1
      <3>. QED  BY <2>4, <3>1, <3>2 DEF RefuseLookup
    <2>5. CASE SearchLeaf
      <3>1. DownOf(key)[Levels][root] =
               IF Contains(pages[ref].keys, key) THEN "found" ELSE "PstNotFoundError"
        BY <2>2, <2>5 DEF SearchLeaf, Child, Looked, IsLeaf
      <3>2. Answer(IF Contains(pages[ref].keys, key) THEN "found" ELSE "PstNotFoundError")
        BY <2>5 DEF SearchLeaf
      <3>. QED  BY <1>7, <3>1, <3>2
    <2>6. ASSUME Child(ref, depth, path), ~IsLeaf(ref)
          PROVE  /\ pages[ref].kind = "node"
                 /\ PositionOf(ref, key) \in 0..Len(pages[ref].entries)
                 /\ DOMAIN pages[ref].entries = 1..Len(pages[ref].entries)
                 /\ Len(pages[ref].entries) \in Nat
                 /\ DownOf(key)[Levels][root] =
                      IF PositionOf(ref, key) = 0 THEN "PstNotFoundError"
                      ELSE DownOf(key)[n - 1][Chosen(ref, key)]
      <3>1. pages[ref].kind = "node"
        BY <2>3, <2>6, NodePage DEF Child
      <3>2. /\ PositionOf(ref, key) \in 0..Len(pages[ref].entries)
            /\ DOMAIN pages[ref].entries = 1..Len(pages[ref].entries)
            /\ Len(pages[ref].entries) \in Nat
        BY <2>3, <3>1, PositionIs
      <3>. QED  BY <2>2, <2>6, <3>1, <3>2 DEF Child, Looked
    <2>7. CASE BelowFirstKey
      <3>1. PositionOf(ref, key) = 0
        BY <2>6, <2>7 DEF BelowFirstKey, Position
      <3>. QED  BY <1>7, <2>6, <2>7, <3>1 DEF BelowFirstKey
    <2>8. CASE Descend
      <3>1. /\ PositionOf(ref, key) # 0 /\ ref' = Chosen(ref, key) /\ depth' = depth + 1
            /\ path' = path \cup {ref} /\ UNCHANGED <<fpc, key, answer>>
        BY <2>6, <2>8 DEF Descend, Position, Chosen
      <3>2. n - 1 = Levels - (depth + 1)
        BY <2>2, <2>3, LevelsType
      <3>3. DownOf(key)[Levels - (depth + 1)][ref'] = DownOf(key)[Levels][root]
        BY <2>6, <2>8, <3>1, <3>2 DEF Descend
      <3>4. \A p \in path \cup {ref} : /\ pages[p].kind = "node" /\ PositionOf(p, key) # 0
                                       /\ Chosen(p, key) \in (path \cup {ref}) \cup {ref'}
        BY <2>1, <2>6, <2>8, <3>1 DEF Descend, LookupInv
      <3>. QED  BY <1>1, <1>2, <1>3, <1>4, <2>1, <3>1, <3>3, <3>4 DEF LookupInv
    <2>. QED  BY <1>8, <2>4, <2>5, <2>7, <2>8 DEF LookupStep
  <1>9. CASE Resume \/ UNCHANGED vars
    <2>1. UNCHANGED lookup
      BY <1>9 DEF Resume, YieldLeaf, YieldNode, RefusePage, Exhaust, vars
    <2>. QED  BY <1>5, <2>1
  <1>. QED  BY <1>6, <1>8, <1>9 DEF Next

-----------------------------------------------------------------------------
(* What an iteration accepts, on the unfolded tree.                        *)
Admits ==
    /\ \A i \in 1..Len(Whole) : Whole[i].depth <= MaxBTreeDepth
                                /\ pages[Whole[i].ref].kind # "bad"
    /\ \A i \in 1..Len(Whole), j \in 1..Len(Whole) : Whole[i].ref = Whole[j].ref => i = j
    /\ Len(Whole) <= MaxItems
    /\ walk = "entries" => Len(AllKeys) <= MaxItems

LEMMA AdmissibleIs ==
    ASSUME pages \in [Refs -> Page], root \in Refs
    PROVE  Admissible <=> Admits
  <1>1. PICK occ \in Seq(Item) : occ = Whole /\ occ = Occurrences(root, 0)
    BY WholeIs
  <1>2. DOMAIN occ = 1..Len(occ)
    BY LenProperties
  <1>3. LeafKeys(root, 0) = AllKeys
    BY WholeIs
  <1>. QED  BY <1>1, <1>2, <1>3 DEF Admissible, Admits

LEMMA TreeUnchanged ==
    ASSUME UNCHANGED <<pages, root>>
    PROVE  Whole' = Whole /\ Pre' = Pre /\ KeysAt' = KeysAt /\ AllKeys' = AllKeys
  <1>1. Below' = Below
    BY DEF Below
  <1>2. Whole' = Whole
    BY <1>1 DEF Whole, Levels
  <1>3. Pre' = Pre
    BY <1>1 DEF Pre, Levels, Pair
  <1>4. KeysAt' = KeysAt
    BY DEF KeysAt, IsLeaf, Item
  <1>. QED  BY <1>2, <1>3, <1>4 DEF AllKeys

LEMMA PairsAreItems ==
    ASSUME pages \in [Refs -> Page], NEW s \in Seq(Pair)
    PROVE  s \in Seq(Item)
  <1>1. Pair \subseteq Item
    BY KeysAtType
  <1>. QED  BY <1>1

-----------------------------------------------------------------------------
(* An iteration has handed out a first part of the unfolded tree, and what *)
(* its stack stands for is the rest of it.                                 *)
Split(done) ==
    /\ Whole = done \o Spread(stack, Pre)
    /\ Len(done) = Cardinality(visited)
    /\ visited = {x.ref : x \in ToSet(done)}
    /\ \A i \in 1..Len(done), j \in 1..Len(done) : done[i].ref = done[j].ref => i = j
    /\ \A i \in 1..Len(done) : done[i].depth <= MaxBTreeDepth
                               /\ pages[done[i].ref].kind # "bad"
    /\ out = Spread(done, KeysAt)
    /\ \A x \in ToSet(stack) : x.depth <= Levels

IterInv ==
    /\ \E done \in Seq(Pair) : Split(done)
    /\ ipc = "done" => stack = <<>>
    /\ ipc = "refused" => ~Admits

(* The page on top of the stack is the next one of the tree.               *)
LEMMA TopIsNext ==
    ASSUME TypeOK, stack # <<>>, NEW done \in Seq(Pair), Split(done)
    PROVE  /\ Top \in Pair /\ Top.depth <= Levels /\ Pre[Top] \in Seq(Item)
           /\ Tail(stack) \in Seq(Pair) /\ Spread(Tail(stack), Pre) \in Seq(Item)
           /\ Spread(stack, Pre) = Pre[Top] \o Spread(Tail(stack), Pre)
           /\ \E rest \in Seq(Item) : Whole = Append(done, Top) \o rest
  <1>1. /\ stack \in Seq(Pair) /\ Top \in Pair /\ Tail(stack) \in Seq(Pair)
        /\ Top \in ToSet(stack)
    <2>1. stack \in Seq(Pair)
      BY DEF TypeOK, Pair
    <2>. QED  BY <2>1, PopProperties, PopMembers DEF Top
  <1>2. Pre \in [Pair -> Seq(Item)] /\ pages \in [Refs -> Page]
    BY PreType DEF TypeOK
  <1>3. Top.depth <= Levels
    BY <1>1 DEF Split
  <1>4. Spread(stack, Pre) = Pre[Top] \o Spread(Tail(stack), Pre)
    BY <1>1, <1>2, SpreadHead DEF Top
  <1>5. Spread(Tail(stack), Pre) \in Seq(Item) /\ Pre[Top] \in Seq(Item)
    BY <1>1, <1>2, SpreadType
  <1>6. \E rest \in Seq(Item) : Whole = Append(done, Top) \o rest
    <2>1. PICK t \in Pair : t = Top
      BY <1>1
    <2>2. PICK below \in Seq(Item) : Pre[t] = <<t>> \o below
      BY <1>2, <1>3, <2>1, PreStarts
    <2>3. PICK after \in Seq(Item) : after = Spread(Tail(stack), Pre)
      BY <1>5
    <2>4. done \in Seq(Item) /\ t \in Item /\ below \o after \in Seq(Item)
      <3>1. Pair \subseteq Item
        BY <1>2, KeysAtType
      <3>. QED  BY <3>1, ConcatProperties
    <2>5. (<<t>> \o below) \o after = <<t>> \o (below \o after)
      <3>1. <<t>> \in Seq(Item)
        BY <2>4
      <3>. QED  BY <3>1, ConcatAssociative
    <2>6. done \o (<<t>> \o (below \o after)) = Append(done, t) \o (below \o after)
      BY <2>4, AppendThenRest
    <2>. QED  BY <1>4, <2>1, <2>2, <2>3, <2>4, <2>5, <2>6 DEF Split
  <1>. QED  BY <1>1, <1>3, <1>4, <1>5, <1>6

(* Where an iteration refuses the page it has to read next, the tree is    *)
(* one that no iteration accepts.                                          *)
LEMMA RefusalHasReason ==
    ASSUME TypeOK, WorkBounded, stack # <<>>, NEW done \in Seq(Pair), Split(done),
           ~Child(Top.ref, Top.depth, visited) \/ CountRefused(Top.ref)
    PROVE  ~Admits
  <1>1. PICK t \in Pair, rest \in Seq(Item) : t = Top /\ Whole = Append(done, t) \o rest
    BY TopIsNext
  <1>2. /\ pages \in [Refs -> Page] /\ t \in Item /\ done \in Seq(Item) /\ visited \in SUBSET Refs
        /\ t.ref \in Refs /\ t.depth \in Nat /\ MaxBTreeDepth \in Nat /\ MaxItems \in Nat
    BY KeysAtType, PairsAreItems, LevelsType DEF TypeOK, Pair
  <1>3. PICK n \in Nat : n = Len(done)
    BY LenProperties
  <1>4. PICK first \in Seq(Item) : first = Append(done, t)
    BY <1>2, AppendProperties
  <1>5. Len(first) = n + 1 /\ first[n + 1] = t /\ \A i \in 1..n : first[i] = done[i]
    BY <1>2, <1>3, <1>4, AppendProperties
  <1>6. /\ Len(Whole) \in Nat /\ n + 1 <= Len(Whole)
        /\ \A i \in 1..(n + 1) : Whole[i] = first[i]
    <2>1. Len(rest) \in Nat /\ Len(Whole) = (n + 1) + Len(rest)
      <3>1. Whole = first \o rest
        BY <1>1, <1>4
      <3>2. Len(first \o rest) = Len(first) + Len(rest) /\ Len(rest) \in Nat
        BY ConcatProperties, LenProperties
      <3>. QED  BY <1>5, <3>1, <3>2
    <2>2. \A i \in 1..(n + 1) : (first \o rest)[i] = first[i]
      BY <1>5, <2>1, ConcatProperties
    <2>. QED  BY <1>1, <1>4, <2>1, <2>2
  <1>7. n + 1 \in 1..Len(Whole) /\ Whole[n + 1] = t
    BY <1>5, <1>6
  <1>8. CASE Exceeds(t.depth, MaxBTreeDepth) \/ pages[t.ref].kind = "bad"
    BY <1>2, <1>7, <1>8 DEF Admits, Exceeds
  <1>9. CASE t.ref \in visited
    <2>1. PICK i \in 1..n : done[i].ref = t.ref
      <3>1. PICK x \in ToSet(done) : x.ref = t.ref
        BY <1>9 DEF Split
      <3>2. DOMAIN done = 1..n
        BY <1>3, LenProperties
      <3>. QED  BY <3>1, <3>2 DEF ToSet
    <2>2. i \in 1..Len(Whole) /\ Whole[i].ref = t.ref /\ i # n + 1
      BY <1>5, <1>6, <2>1
    <2>. QED  BY <1>7, <2>2 DEF Admits
  <1>10. CASE Cardinality(visited) >= MaxItems
    <2>1. n >= MaxItems
      BY <1>3, <1>10 DEF Split
    <2>. QED  BY <1>2, <1>6, <2>1 DEF Admits
  <1>11. CASE CountRefused(t.ref)
    <2>1. /\ walk = "entries" /\ IsLeaf(t.ref) /\ Len(out) + Len(pages[t.ref].keys) > MaxItems
      BY <1>11 DEF CountRefused, Exceeds, WorkBounded
    <2>2. KeysAt \in [Item -> Seq(Keys)] /\ KeysAt[t] = pages[t.ref].keys
      BY <1>2, <2>1, KeysAtType DEF KeysAt
    <2>3. AllKeys = (Spread(done, KeysAt) \o KeysAt[t]) \o Spread(rest, KeysAt)
      <3>1. Spread(first \o rest, KeysAt) = Spread(first, KeysAt) \o Spread(rest, KeysAt)
        BY <2>2, SpreadConcat
      <3>2. Spread(first, KeysAt) = Spread(done, KeysAt) \o KeysAt[t]
        BY <1>2, <1>4, <2>2, SpreadAppend, ZenonT(60)
      <3>. QED  BY <1>1, <1>4, <3>1, <3>2 DEF AllKeys
    <2>4. PICK a \in Seq(Keys), b \in Seq(Keys), c \in Seq(Keys) :
             a = out /\ b = pages[t.ref].keys /\ c = Spread(rest, KeysAt)
      <3>1. pages[t.ref].keys \in Seq(Keys)
        BY <1>2, <2>2
      <3>2. Spread(rest, KeysAt) \in Seq(Keys)
        BY <2>2, SpreadType
      <3>. QED  BY <3>1, <3>2 DEF TypeOK
    <2>5. AllKeys = (a \o b) \o c
      BY <2>2, <2>3, <2>4 DEF Split
    <2>6. /\ Len(AllKeys) = (Len(a) + Len(b)) + Len(c)
          /\ Len(a) \in Nat /\ Len(b) \in Nat /\ Len(c) \in Nat
      BY <2>5, ConcatProperties, LenProperties
    <2>. QED  BY <1>2, <2>1, <2>4, <2>6 DEF Admits
  <1>. QED  BY <1>1, <1>2, <1>8, <1>9, <1>10, <1>11 DEF Child, ChildLimit, ChildBad, AddRefused

(* A page that is handed out moves from the stack to what is done.         *)
LEMMA SplitMoves ==
    ASSUME TypeOK, WorkBounded, stack # <<>>, NEW done \in Seq(Pair), Split(done),
           Child(Top.ref, Top.depth, visited), UNCHANGED <<pages, root>>,
           visited' = visited \cup {Top.ref},
           stack' = PairKids(Top) \o Tail(stack),
           out' = out \o KeysAt[Top]
    PROVE  \E new \in Seq(Pair) : Split(new)'
  <1>1. PICK t \in Pair : t = Top
    BY TopIsNext
  <1>2. /\ pages \in [Refs -> Page] /\ t \in Item /\ done \in Seq(Item) /\ visited \in SUBSET Refs
        /\ t.ref \in Refs /\ t.depth \in Nat /\ t.depth + 1 \in Nat
        /\ MaxBTreeDepth \in Nat /\ MaxItems \in Nat
    <2>1. pages \in [Refs -> Page] /\ visited \in SUBSET Refs
      BY DEF TypeOK
    <2>2. t \in Item /\ done \in Seq(Item)
      BY <2>1, KeysAtType, PairsAreItems
    <2>3. t.ref \in Refs /\ t.depth \in Nat /\ t.depth + 1 \in Nat
      BY DEF Pair
    <2>. QED  BY <2>1, <2>2, <2>3, LevelsType
  <1>3. /\ t.depth <= MaxBTreeDepth /\ pages[t.ref].kind # "bad" /\ t.ref \notin visited
        /\ t.depth + 1 <= Levels /\ t.depth <= Levels
    <2>1. t.depth <= MaxBTreeDepth /\ t.ref \notin visited
      BY <1>1, <1>2 DEF Child, ChildLimit, Exceeds, AddRefused
    <2>2. pages[t.ref].kind # "bad"
      BY <1>1, <1>2 DEF Child, ChildBad, TypeOK
    <2>. QED  BY <1>2, <2>1, <2>2 DEF Levels
  <1>4. PICK new \in Seq(Pair) : new = Append(done, t)
    BY AppendProperties
  <1>5. PICK n \in Nat : n = Len(done)
    BY LenProperties
  <1>6. Len(new) = n + 1 /\ new[n + 1] = t /\ \A i \in 1..n : new[i] = done[i]
    BY <1>4, <1>5, AppendProperties
  <1>7. \A i \in 1..n : done[i].ref \in visited
    <2>1. \A i \in 1..n : done[i] \in ToSet(done)
      BY <1>5, LenProperties DEF ToSet
    <2>. QED  BY <2>1 DEF Split
  <1>8. PICK kids \in Seq(Pair), tail \in Seq(Pair) : kids = PairKids(t) /\ tail = Tail(stack)
    BY <1>1, <1>2, PairKidsType, TopIsNext
  <1>9. Pre \in [Pair -> Seq(Item)] /\ KeysAt \in [Item -> Seq(Keys)]
    BY <1>2, PreType, KeysAtType
  <1>10. Whole = new \o Spread(stack', Pre)
    <2>1. Spread(stack', Pre) = Spread(kids, Pre) \o Spread(tail, Pre)
      BY <1>1, <1>8, <1>9, SpreadConcat, ZenonT(60)
    <2>2. PICK a \in Seq(Item), b \in Seq(Item) : a = Spread(kids, Pre) /\ b = Spread(tail, Pre)
      BY <1>9, SpreadType
    <2>3. Pre[t] = <<t>> \o a
      BY <1>2, <1>3, <1>8, <2>2, PreUnfolds
    <2>4. Spread(stack, Pre) = (<<t>> \o a) \o b
      BY <1>1, <1>8, <2>2, <2>3, TopIsNext
    <2>5. (<<t>> \o a) \o b = <<t>> \o (a \o b) /\ a \o b \in Seq(Item)
      <3>1. <<t>> \in Seq(Item)
        BY <1>2
      <3>. QED  BY <3>1, ConcatAssociative, ConcatProperties
    <2>6. done \o (<<t>> \o (a \o b)) = Append(done, t) \o (a \o b)
      <3>1. PICK ab \in Seq(Item) : ab = a \o b
        BY <2>5
      <3>2. done \in Seq(Item) /\ t \in Item
        BY <1>2
      <3>3. done \o (<<t>> \o ab) = Append(done, t) \o ab
        BY <3>2, AppendThenRest, SMTT(30)
      <3>. QED  BY <3>1, <3>3
    <2>. QED  BY <1>4, <2>1, <2>2, <2>4, <2>5, <2>6 DEF Split
  <1>11. Len(new) = Cardinality(visited')
    <2>1. IsFiniteSet(visited)
      BY <1>2, RefsAssumption, FS_Subset
    <2>2. Cardinality(visited \cup {t.ref}) = Cardinality(visited) + 1
      BY <1>3, <2>1, FS_AddElement
    <2>. QED  BY <1>1, <1>5, <1>6, <2>2 DEF Split
  <1>12. visited' = {x.ref : x \in ToSet(new)}
    <2>1. ToSet(new) = ToSet(done) \cup {t}
      BY <1>4, AppendMembers
    <2>. QED  BY <1>1, <2>1 DEF Split
  <1>13. ASSUME NEW i \in 1..(n + 1), NEW j \in 1..(n + 1), new[i].ref = new[j].ref PROVE i = j
    <2>1. CASE i \in 1..n /\ j \in 1..n
      BY <1>5, <1>6, <1>13, <2>1 DEF Split
    <2>2. CASE i = n + 1 /\ j \in 1..n
      BY <1>3, <1>6, <1>7, <1>13, <2>2
    <2>3. CASE j = n + 1 /\ i \in 1..n
      BY <1>3, <1>6, <1>7, <1>13, <2>3
    <2>4. (i \in 1..n \/ i = n + 1) /\ (j \in 1..n \/ j = n + 1)
      OBVIOUS
    <2>. QED  BY <2>1, <2>2, <2>3, <2>4
  <1>14. ASSUME NEW i \in 1..(n + 1)
         PROVE  new[i].depth <= MaxBTreeDepth /\ pages[new[i].ref].kind # "bad"
    <2>1. CASE i \in 1..n
      BY <1>5, <1>6, <2>1 DEF Split
    <2>2. CASE i = n + 1
      BY <1>3, <1>6, <2>2
    <2>3. i \in 1..n \/ i = n + 1
      OBVIOUS
    <2>. QED  BY <2>1, <2>2, <2>3
  <1>15. out' = Spread(new, KeysAt)
    <2>1. Spread(Append(done, t), KeysAt) = Spread(done, KeysAt) \o KeysAt[t]
      <3>1. PICK w \in [Item -> Seq(Keys)] : w = KeysAt
        BY <1>9
      <3>2. done \in Seq(Item) /\ t \in Item
        BY <1>2
      <3>3. Spread(Append(done, t), w) = Spread(done, w) \o w[t]
        BY <3>2, SpreadAppend
      <3>. QED  BY <3>1, <3>3
    <2>. QED  BY <1>1, <1>4, <2>1 DEF Split
  <1>16. ASSUME NEW x \in ToSet(stack') PROVE x.depth <= Levels
    <2>1. x \in ToSet(kids) \/ x \in ToSet(tail)
      <3>1. ToSet(kids \o tail) = ToSet(kids) \cup ToSet(tail)
        BY PushMembers
      <3>. QED  BY <1>1, <1>8, <3>1
    <2>2. CASE x \in ToSet(kids)
      BY <1>2, <1>3, <1>8, <2>2, PairKidsType
    <2>3. CASE x \in ToSet(tail)
      BY <1>8, <2>3, TopProperties DEF Split
    <2>. QED  BY <2>1, <2>2, <2>3
  <1>17. Whole' = Whole /\ Pre' = Pre /\ KeysAt' = KeysAt /\ Levels' = Levels
    BY TreeUnchanged DEF Levels
  <1>18. Split(new)'
    BY <1>6, <1>10, <1>11, <1>12, <1>13, <1>14, <1>15, <1>16, <1>17 DEF Split
  <1>. QED  BY <1>18

-----------------------------------------------------------------------------
LEMMA IterationStarts ==
    ASSUME Init
    PROVE  IterInv
  <1>1. /\ pages \in [Refs -> Page] /\ root \in Refs /\ ipc = "running" /\ visited = {} /\ out = <<>>
        /\ stack = <<[ref |-> root, depth |-> 0]>>
    BY StoresAssumption DEF Init
  <1>2. PICK p \in Pair : p = [ref |-> root, depth |-> 0]
    BY <1>1 DEF Pair
  <1>3. Pre \in [Pair -> Seq(Item)] /\ Whole \in Seq(Item)
    BY <1>1, PreType, WholeIs
  <1>4. Spread(stack, Pre) = Whole
    <2>1. Spread(<<p>>, Pre) = Pre[p]
      BY <1>3, SpreadOne
    <2>2. Pre[p] = Whole
      BY <1>2, LevelsType DEF Pre, Whole
    <2>. QED  BY <1>1, <1>2, <2>1, <2>2
  <1>5. PICK none \in Seq(Pair) : none = <<>>
    BY EmptySeq
  <1>6. Whole = none \o Spread(stack, Pre)
    BY <1>3, <1>4, <1>5, ConcatEmptySeq
  <1>7. Len(none) = 0 /\ ToSet(none) = {} /\ Cardinality({}) = 0
    BY <1>5, FS_EmptySet DEF ToSet
  <1>8. out = Spread(none, KeysAt)
    BY <1>1, <1>5, SpreadEmpty
  <1>9. \A x \in ToSet(stack) : x.depth <= Levels
    <2>1. ToSet(stack) = {p}
      BY <1>1, <1>2 DEF ToSet
    <2>. QED  BY <1>2, <2>1, LevelsType
  <1>10. Split(none)
    BY <1>1, <1>6, <1>7, <1>8, <1>9 DEF Split
  <1>. QED  BY <1>1, <1>10 DEF IterInv

LEMMA IterationPreserved ==
    ASSUME TypeOK, WorkBounded, IterInv, [Next]_vars
    PROVE  IterInv'
  <1>1. UNCHANGED <<pages, root, walk>>
    BY DEF Next, Resume, LookupStep, YieldLeaf, YieldNode, RefusePage, Exhaust, Find,
           RefuseLookup, SearchLeaf, BelowFirstKey, Descend, ReadOnly, vars
  <1>2. Whole' = Whole /\ Pre' = Pre /\ KeysAt' = KeysAt /\ AllKeys' = AllKeys
    BY <1>1, TreeUnchanged
  <1>3. Admits' = Admits
    BY <1>1, <1>2 DEF Admits
  <1>4. PICK done \in Seq(Pair) : Split(done)
    BY DEF IterInv
  <1>5. ASSUME UNCHANGED <<stack, visited, out>> PROVE Split(done)'
    BY <1>1, <1>2, <1>4, <1>5 DEF Split, Levels
  <1>6. CASE YieldLeaf
    <2>1. /\ ipc = "running" /\ ipc' = ipc /\ stack # <<>> /\ IsLeaf(Top.ref)
          /\ Child(Top.ref, Top.depth, visited)
          /\ visited' = visited \cup {Top.ref} /\ stack' = Tail(stack)
          /\ out' = out \o pages[Top.ref].keys
      BY <1>6 DEF YieldLeaf
    <2>2. Top \in Item /\ Tail(stack) \in Seq(Pair)
      BY <1>4, <2>1, TopIsNext, KeysAtType DEF TypeOK
    <2>3. KeysAt[Top] = pages[Top.ref].keys
      BY <2>1, <2>2 DEF KeysAt
    <2>4. PairKids(Top) \o Tail(stack) = Tail(stack)
      <3>1. PairKids(Top) = <<>>
        BY <2>1 DEF PairKids, IsLeaf
      <3>. QED  BY <2>2, <3>1, ConcatEmptySeq
    <2>5. \E new \in Seq(Pair) : Split(new)'
      BY <1>1, <1>4, <2>1, <2>3, <2>4, SplitMoves
    <2>. QED  BY <2>1, <2>5 DEF IterInv
  <1>7. CASE YieldNode
    <2>1. /\ ipc = "running" /\ ipc' = ipc /\ stack # <<>> /\ ~IsLeaf(Top.ref)
          /\ Child(Top.ref, Top.depth, visited) /\ ~ChildBad(Top.ref)
          /\ visited' = visited \cup {Top.ref}
          /\ stack' = Children(Top.ref, Top.depth + 1) \o Tail(stack)
          /\ out' = out
      BY <1>7 DEF YieldNode, Child
    <2>2. Top \in Item /\ Top.ref \in Refs
      <3>1. Top \in Pair /\ Pair \subseteq Item
        BY <1>4, <2>1, TopIsNext, KeysAtType DEF TypeOK
      <3>. QED  BY <3>1 DEF Pair
    <2>3. out \o KeysAt[Top] = out
      <3>1. KeysAt[Top] = <<>>
        BY <2>1, <2>2 DEF KeysAt
      <3>. QED  BY <3>1, ConcatEmptySeq DEF TypeOK
    <2>4. PairKids(Top) = Children(Top.ref, Top.depth + 1)
      <3>1. pages[Top.ref].kind = "node"
        BY <2>1, <2>2, NodePage
      <3>. QED  BY <3>1 DEF PairKids
    <2>5. \E new \in Seq(Pair) : Split(new)'
      BY <1>1, <1>4, <2>1, <2>3, <2>4, SplitMoves
    <2>. QED  BY <2>1, <2>5 DEF IterInv
  <1>8. CASE RefusePage
    <2>1. UNCHANGED <<stack, visited, out>> /\ ipc' = "refused"
      BY <1>8 DEF RefusePage
    <2>2. ~Admits
      BY <1>4, <1>8, RefusalHasReason DEF RefusePage
    <2>. QED  BY <1>3, <1>5, <2>1, <2>2 DEF IterInv
  <1>9. CASE Exhaust
    BY <1>3, <1>5, <1>9 DEF Exhaust, IterInv
  <1>10. CASE (\E k \in Keys : Find(k)) \/ LookupStep \/ UNCHANGED vars
    <2>1. UNCHANGED <<ipc, stack, visited, out>>
      BY <1>10 DEF Find, LookupStep, RefuseLookup, SearchLeaf, BelowFirstKey, Descend,
                   iteration, vars
    <2>. QED  BY <1>3, <1>5, <2>1 DEF IterInv
  <1>. QED  BY <1>6, <1>7, <1>8, <1>9, <1>10 DEF Next, Resume

(* An iteration that ends accepted the tree and handed out all its keys;   *)
(* one that is refused had a reason and handed out a first part of them.   *)
LEMMA IterationExact ==
    ASSUME TypeOK, WorkBounded, IterInv
    PROVE  /\ ipc = "done" => Admits /\ out = AllKeys
           /\ ipc = "refused" => ~Admits /\ IsPrefix(out, AllKeys)
  <1>1. PICK done \in Seq(Pair) : Split(done)
    BY DEF IterInv
  <1>2. /\ pages \in [Refs -> Page] /\ stack \in Seq(Pair) /\ done \in Seq(Item)
        /\ MaxItems \in Nat
    BY KeysAtType, PairsAreItems, LevelsType DEF TypeOK, Pair
  <1>3. ASSUME ipc = "done" PROVE Admits /\ out = AllKeys
    <2>1. Whole = done
      <3>1. Spread(stack, Pre) = <<>>
        BY <1>3, SpreadEmpty DEF IterInv
      <3>. QED  BY <1>1, <3>1, ConcatEmptySeq DEF Split
    <2>2. out = AllKeys
      BY <1>1, <2>1 DEF Split, AllKeys
    <2>3. Len(Whole) <= MaxItems /\ (walk = "entries" => Len(AllKeys) <= MaxItems)
      BY <1>1, <2>1, <2>2 DEF Split, WorkBounded
    <2>. QED  BY <1>1, <2>1, <2>2, <2>3 DEF Split, Admits
  <1>4. ASSUME ipc = "refused" PROVE ~Admits /\ IsPrefix(out, AllKeys)
    <2>1. PICK rest \in Seq(Item) : rest = Spread(stack, Pre)
      BY <1>2, PreType, SpreadType
    <2>2. KeysAt \in [Item -> Seq(Keys)]
      BY <1>2, KeysAtType
    <2>3. AllKeys = Spread(done, KeysAt) \o Spread(rest, KeysAt)
      <3>1. Whole = done \o rest
        BY <1>1, <2>1 DEF Split
      <3>2. done \in Seq(Item)
        BY <1>2
      <3>3. Spread(done \o rest, KeysAt) = Spread(done, KeysAt) \o Spread(rest, KeysAt)
        BY <2>2, <3>2, SpreadConcat
      <3>. QED  BY <3>1, <3>3 DEF AllKeys
    <2>4. Spread(done, KeysAt) \in Seq(Keys) /\ Spread(rest, KeysAt) \in Seq(Keys)
      BY <1>2, <2>2, SpreadType
    <2>5. IsPrefix(Spread(done, KeysAt), AllKeys)
      BY <2>3, <2>4, BeginsWith
    <2>. QED  BY <1>1, <1>4, <2>5 DEF Split, IterInv
  <1>. QED  BY <1>3, <1>4

-----------------------------------------------------------------------------
(* Numbers that ascend, followed by greater ones that do.                  *)
LEMMA AscendingConcat ==
    ASSUME NEW s \in Seq(Nat), NEW t \in Seq(Nat), Ascending(s), Ascending(t),
           \A a \in ToSet(s), b \in ToSet(t) : a < b
    PROVE  Ascending(s \o t)
  <1>1. PICK m \in Nat, n \in Nat : m = Len(s) /\ n = Len(t)
    BY LenProperties
  <1>2. PICK u \in Seq(Nat) : u = s \o t
    BY ConcatProperties
  <1>3. /\ Len(u) = m + n
        /\ \A i \in 1..(m + n) : u[i] = IF i <= m THEN s[i] ELSE t[i - m]
    BY <1>1, <1>2, ConcatProperties
  <1>4. (\A i \in 1..m : s[i] \in ToSet(s)) /\ (\A i \in 1..n : t[i] \in ToSet(t))
    BY <1>1, LenProperties DEF ToSet
  <1>5. ASSUME NEW i \in 1..((m + n) - 1) PROVE u[i] < u[i + 1]
    <2>1. CASE i < m
      <3>1. u[i] = s[i] /\ u[i + 1] = s[i + 1] /\ i \in 1..(m - 1)
        BY <1>3, <2>1
      <3>. QED  BY <1>1, <3>1 DEF Ascending
    <2>2. CASE i = m
      <3>1. u[i] = s[m] /\ u[i + 1] = t[1] /\ m \in 1..m /\ 1 \in 1..n
        <4>1. m \in 1..(m + n) /\ m + 1 \in 1..(m + n) /\ ~(m + 1 <= m) /\ (m + 1) - m = 1
              /\ m \in 1..m /\ 1 \in 1..n
          BY <2>2
        <4>. QED  BY <1>3, <2>2, <4>1
      <3>. QED  BY <1>4, <3>1
    <2>3. CASE i > m
      <3>1. PICK j \in Nat : j = i - m
        BY <2>3
      <3>2. u[i] = t[j] /\ u[i + 1] = t[j + 1] /\ j \in 1..(n - 1)
        <4>1. (i + 1) - m = j + 1 /\ i \in 1..(m + n) /\ i + 1 \in 1..(m + n)
          BY <3>1
        <4>. QED  BY <1>3, <2>3, <3>1, <4>1
      <3>. QED  BY <1>1, <3>2 DEF Ascending
    <2>. QED  BY <2>1, <2>2, <2>3
  <1>. QED  BY <1>2, <1>3, <1>5 DEF Ascending

(* Parts that ascend, each of them below the next ones, ascend in a row.   *)
InOrder(s, w) ==
    /\ \A i \in 1..Len(s) : Ascending(w[s[i]])
    /\ \A i \in 1..Len(s), j \in 1..Len(s) :
          i < j => \A a \in ToSet(w[s[i]]), b \in ToSet(w[s[j]]) : a < b

LEMMA SpreadAscends ==
    ASSUME NEW T, NEW w \in [T -> Seq(Nat)], NEW s \in Seq(T), InOrder(s, w)
    PROVE  Ascending(Spread(s, w))
  <1> DEFINE Good == {t \in Seq(T) : InOrder(t, w) => Ascending(Spread(t, w))}
  <1>1. <<>> \in Good
    <2>1. Ascending(<<>>)
      BY DEF Ascending
    <2>. QED  BY <2>1, SpreadEmpty, EmptySeq
  <1>2. ASSUME NEW t \in Seq(T), NEW y \in T, t \in Good PROVE Append(t, y) \in Good
    <2>1. PICK u \in Seq(T) : u = Append(t, y)
      BY AppendProperties
    <2>2. PICK n \in Nat : n = Len(t)
      BY LenProperties
    <2>3. Len(u) = n + 1 /\ u[n + 1] = y /\ \A i \in 1..n : u[i] = t[i]
      BY <2>1, <2>2, AppendProperties
    <2>4. ASSUME InOrder(u, w) PROVE Ascending(Spread(u, w))
      <3>1. InOrder(t, w)
        BY <2>2, <2>3, <2>4 DEF InOrder
      <3>2. Ascending(Spread(t, w))
        BY <1>2, <3>1
      <3>3. Ascending(w[y])
        BY <2>3, <2>4 DEF InOrder
      <3>4. PICK a \in Seq(Nat), b \in Seq(Nat) : a = Spread(t, w) /\ b = w[y]
        BY SpreadType
      <3>5. ASSUME NEW p \in ToSet(a), NEW q \in ToSet(b) PROVE p < q
        <4>1. PICK x \in ToSet(t) : p \in ToSet(w[x])
          <5>1. ToSet(Spread(t, w)) = UNION {ToSet(w[x]) : x \in ToSet(t)}
            BY SpreadMembers
          <5>. QED  BY <3>4, <3>5, <5>1
        <4>2. PICK i \in 1..n : t[i] = x
          <5>1. DOMAIN t = 1..n
            BY <2>2, LenProperties
          <5>. QED  BY <5>1 DEF ToSet
        <4>3. i \in 1..(n + 1) /\ n + 1 \in 1..(n + 1) /\ i < n + 1 /\ u[i] = x
          BY <2>3, <4>2
        <4>. QED  BY <2>3, <2>4, <3>4, <3>5, <4>1, <4>3 DEF InOrder
      <3>6. Ascending(a \o b)
        BY <3>2, <3>3, <3>4, <3>5, AscendingConcat
      <3>7. Spread(u, w) = a \o b
        BY <2>1, <3>4, SpreadAppend
      <3>. QED  BY <3>6, <3>7
    <2>. QED  BY <2>1, <2>4
  <1> HIDE DEF Good
  <1>3. s \in Good
    BY <1>1, <1>2, SeqInduct
  <1>. QED  BY <1>3 DEF Good

-----------------------------------------------------------------------------
(* The members of a part of the tree: the page it starts with, and the     *)
(* members of the parts below.                                             *)
LEMMA BelowMembers ==
    ASSUME pages \in [Refs -> Page], NEW x \in Refs
    PROVE  /\ \A n \in 0..Levels : Here[n][x] \in ToSet(Below[n][x])
           /\ ToSet(Below[0][x]) = {Here[0][x]}
           /\ \A n \in 1..Levels :
                 /\ n - 1 \in 0..Levels
                 /\ ToSet(Below[n][x]) =
                      {Here[n][x]} \cup UNION {ToSet(Below[n - 1][c]) : c \in ToSet(Kids[x])}
                 /\ \A c \in ToSet(Kids[x]) : Len(Below[n - 1][c]) + 1 <= Len(Below[n][x])
                 /\ Len(Below[n][x]) >= 1
  <1>1. /\ Kids \in [Refs -> Seq(Refs)] /\ Here \in [Nat -> [Refs -> Item]]
        /\ \A n \in 0..Levels : n \in Nat
    BY KidsType, HereType, LevelsType
  <1>2. ToSet(Below[0][x]) = {Here[0][x]}
    <2>1. Below[0][x] = <<Here[0][x]>>
      BY BelowIs
    <2>. QED  BY <2>1 DEF ToSet
  <1>3. ASSUME NEW n \in 1..Levels
        PROVE  /\ n - 1 \in 0..Levels
               /\ ToSet(Below[n][x]) =
                    {Here[n][x]} \cup UNION {ToSet(Below[n - 1][c]) : c \in ToSet(Kids[x])}
               /\ \A c \in ToSet(Kids[x]) : Len(Below[n - 1][c]) + 1 <= Len(Below[n][x])
               /\ Len(Below[n][x]) >= 1
    <2>1. PICK w \in [Refs -> Seq(Item)], s \in Seq(Refs), h \in Item :
             w = Below[n - 1] /\ s = Kids[x] /\ h = Here[n][x]
      <3>1. n \in Nat
        BY LevelsType
      <3>. QED  BY <1>1, <3>1, BelowIs
    <2>2. PICK r \in Seq(Item) : r = Spread(s, w)
      BY SpreadType
    <2>3. Below[n][x] = <<h>> \o r
      BY <2>1, <2>2, BelowIs
    <2>4. PICK one \in Seq(Item) : one = <<h>>
      <3>1. <<h>> \in Seq(Item)
        OBVIOUS
      <3>. QED  BY <3>1
    <2>5. ToSet(one \o r) = ToSet(one) \cup ToSet(r)
      BY PushMembers
    <2>6. ToSet(one) = {h} /\ Len(one) = 1
      BY <2>4 DEF ToSet
    <2>7. ToSet(r) = UNION {ToSet(w[c]) : c \in ToSet(s)}
      BY <2>2, SpreadMembers
    <2>8. Len(one \o r) = 1 + Len(r) /\ Len(r) \in Nat
      BY <2>6, ConcatProperties, LenProperties, ZenonT(60)
    <2>9. ASSUME NEW c \in ToSet(s) PROVE Len(w[c]) <= Len(r) /\ Len(w[c]) \in Nat
      <3>1. c \in Refs
        BY ToSetType
      <3>2. Len(w[c]) \in Nat
        BY <3>1, LenProperties
      <3>. QED  BY <2>2, <3>2, SpreadLength
    <2>10. \A c \in ToSet(s) : Len(w[c]) + 1 <= Len(one \o r)
      BY <2>8, <2>9
    <2>11. n - 1 \in 0..Levels
      BY LevelsType
    <2>12. Below[n][x] = one \o r
      BY <2>3, <2>4
    <2>13. ToSet(Below[n][x]) =
             {Here[n][x]} \cup UNION {ToSet(Below[n - 1][c]) : c \in ToSet(Kids[x])}
      <3>1. ToSet(one \o r) = {h} \cup UNION {ToSet(w[c]) : c \in ToSet(s)}
        BY <2>5, <2>6, <2>7
      <3>. QED  BY <2>1, <2>12, <3>1
    <2>14. \A c \in ToSet(Kids[x]) : Len(Below[n - 1][c]) + 1 <= Len(Below[n][x])
      BY <2>1, <2>10, <2>12
    <2>15. Len(Below[n][x]) >= 1
      BY <2>8, <2>12
    <2>. QED  BY <2>11, <2>13, <2>14, <2>15
  <1>4. ASSUME NEW n \in 0..Levels PROVE Here[n][x] \in ToSet(Below[n][x])
    <2>1. n = 0 \/ n \in 1..Levels
      BY LevelsType
    <2>. QED  BY <1>2, <1>3, <2>1
  <1>. QED  BY <1>2, <1>3, <1>4

(* Every page below a page has its children below it too, one level down,  *)
(* and is no deeper than there are pages.                                  *)
PlacedBelow(n, x) ==
    \A q \in ToSet(Below[n][x]) :
        /\ q.ref \in Refs /\ q.depth \in (Levels - n)..Levels
        /\ q.depth - (Levels - n) < Len(Below[n][x])
        /\ q.depth < Levels =>
              \A c \in ToSet(Kids[q.ref]) :
                  [ref |-> c, depth |-> q.depth + 1] \in ToSet(Below[n][x])

LEMMA BelowPlaced ==
    ASSUME pages \in [Refs -> Page]
    PROVE  \A n \in 0..Levels, x \in Refs : PlacedBelow(n, x)
  <1> DEFINE Good == {n \in Nat : n <= Levels => \A x \in Refs : PlacedBelow(n, x)}
  <1>1. \A n \in 0..Levels, x \in Refs : Here[n][x] = [ref |-> x, depth |-> Levels - n]
    BY LevelsType DEF Here
  <1>2. 0 \in Good
    <2>1. ASSUME NEW x \in Refs PROVE PlacedBelow(0, x)
      <3>1. ToSet(Below[0][x]) = {[ref |-> x, depth |-> Levels]}
        <4>1. Here[0][x] = [ref |-> x, depth |-> Levels]
          <5>1. 0 \in 0..Levels /\ Levels - 0 = Levels
            BY LevelsType
          <5>. QED  BY <1>1, <5>1
        <4>. QED  BY <4>1, BelowMembers
      <3>2. Len(Below[0][x]) = 1
        <4>1. Below[0][x] = <<Here[0][x]>>
          BY BelowIs
        <4>. QED  BY <4>1
      <3>. QED  BY <3>1, <3>2, LevelsType DEF PlacedBelow
    <2>. QED  BY <2>1
  <1>3. ASSUME NEW n \in Nat, n \in Good PROVE n + 1 \in Good
    <2> SUFFICES ASSUME n + 1 <= Levels, NEW x \in Refs PROVE PlacedBelow(n + 1, x)
      OBVIOUS
    <2>1. /\ n + 1 \in 1..Levels /\ n + 1 \in 0..Levels /\ n \in 0..Levels /\ n <= Levels
          /\ (n + 1) - 1 = n /\ Levels \in Nat
      BY LevelsType
    <2>2. /\ ToSet(Below[n + 1][x]) =
               {[ref |-> x, depth |-> Levels - (n + 1)]}
                  \cup UNION {ToSet(Below[n][c]) : c \in ToSet(Kids[x])}
          /\ \A c \in ToSet(Kids[x]) : Len(Below[n][c]) + 1 <= Len(Below[n + 1][x])
          /\ Len(Below[n + 1][x]) >= 1
      <3>1. Here[n + 1][x] = [ref |-> x, depth |-> Levels - (n + 1)]
        BY <1>1, <2>1
      <3>2. PICK m \in 1..Levels : m = n + 1 /\ m - 1 = n
        BY <2>1
      <3>3. /\ ToSet(Below[m][x]) =
                 {Here[m][x]} \cup UNION {ToSet(Below[m - 1][c]) : c \in ToSet(Kids[x])}
            /\ \A c \in ToSet(Kids[x]) : Len(Below[m - 1][c]) + 1 <= Len(Below[m][x])
            /\ Len(Below[m][x]) >= 1
        BY BelowMembers
      <3>. QED  BY <3>1, <3>2, <3>3
    <2>3. \A c \in ToSet(Kids[x]) : c \in Refs
      BY KidsType, ToSetType
    <2>4. Len(Below[n + 1][x]) \in Nat /\ \A c \in Refs : Len(Below[n][c]) \in Nat
      BY <2>1, BelowIs, LenProperties
    <2>5. ASSUME NEW q \in ToSet(Below[n + 1][x])
          PROVE  /\ q.ref \in Refs /\ q.depth \in (Levels - (n + 1))..Levels
                 /\ q.depth - (Levels - (n + 1)) < Len(Below[n + 1][x])
                 /\ q.depth < Levels =>
                       \A c \in ToSet(Kids[q.ref]) :
                           [ref |-> c, depth |-> q.depth + 1] \in ToSet(Below[n + 1][x])
      <3>1. CASE q = [ref |-> x, depth |-> Levels - (n + 1)]
        <4>1. q.ref = x /\ q.depth = Levels - (n + 1) /\ q.depth + 1 = Levels - n
          BY <2>1, <3>1
        <4>2. ASSUME NEW c \in ToSet(Kids[x])
              PROVE  [ref |-> c, depth |-> Levels - n] \in ToSet(Below[n + 1][x])
          <5>1. c \in Refs
            BY <2>3
          <5>2. [ref |-> c, depth |-> Levels - n] \in ToSet(Below[n][c])
            BY <1>1, <2>1, <5>1, BelowMembers
          <5>. QED  BY <2>2, <5>2
        <4>. QED  BY <2>1, <2>2, <2>4, <4>1, <4>2
      <3>2. ASSUME NEW c \in ToSet(Kids[x]), q \in ToSet(Below[n][c])
            PROVE  /\ q.ref \in Refs /\ q.depth \in (Levels - (n + 1))..Levels
                   /\ q.depth - (Levels - (n + 1)) < Len(Below[n + 1][x])
                   /\ q.depth < Levels =>
                         \A d \in ToSet(Kids[q.ref]) :
                             [ref |-> d, depth |-> q.depth + 1] \in ToSet(Below[n + 1][x])
        <4>1. c \in Refs /\ PlacedBelow(n, c)
          BY <1>3, <2>1, <2>3
        <4>2. /\ q.ref \in Refs /\ q.depth \in (Levels - n)..Levels
              /\ q.depth - (Levels - n) < Len(Below[n][c])
              /\ q.depth < Levels =>
                    \A d \in ToSet(Kids[q.ref]) :
                        [ref |-> d, depth |-> q.depth + 1] \in ToSet(Below[n][c])
          BY <3>2, <4>1 DEF PlacedBelow
        <4>3. PICK a \in Nat, b \in Nat :
                a = Len(Below[n][c]) /\ b = Len(Below[n + 1][x]) /\ a + 1 <= b
          BY <2>2, <2>4, <4>1
        <4>4. /\ q.depth \in (Levels - (n + 1))..Levels
              /\ q.depth - (Levels - (n + 1)) < b
          <5>1. PICK d \in Nat, l \in Nat : d = q.depth /\ l = Levels - n /\ l <= d /\ d <= Levels
            <6>1. Levels - n \in Nat
              BY <2>1
            <6>. QED  BY <2>1, <4>2, <6>1
          <5>2. d - l < a /\ Levels - (n + 1) = l - 1
            BY <2>1, <4>2, <4>3, <5>1
          <5>3. d - (l - 1) < b /\ d \in (l - 1)..Levels
            <6>1. a + 1 <= b
              BY <4>3
            <6>2. d - l < a /\ l <= d /\ d <= Levels
              BY <5>1, <5>2
            <6>3. d - (l - 1) < b
              BY <6>1, <6>2
            <6>4. d \in (l - 1)..Levels
              BY <2>1, <6>2
            <6>. QED  BY <6>3, <6>4
          <5>. QED  BY <4>3, <5>1, <5>2, <5>3
        <4>. QED  BY <2>2, <4>2, <4>3, <4>4
      <3>. QED  BY <2>2, <2>5, <3>1, <3>2
    <2>. QED  BY <2>5 DEF PlacedBelow
  <1> HIDE DEF Good
  <1>4. \A n \in Nat : n \in Good
    BY <1>2, <1>3, NatInduct
  <1>5. \A n \in 0..Levels : n \in Nat /\ n <= Levels
    BY LevelsType
  <1>. QED  BY <1>4, <1>5 DEF Good

-----------------------------------------------------------------------------
(* The keys of the leaves from a page on, with n levels left.              *)
KeysFrom(n, r) == Spread(Below[n][r], KeysAt)

LEMMA KeysFromIs ==
    ASSUME pages \in [Refs -> Page], NEW r \in Refs
    PROVE  /\ \A n \in 0..Levels : KeysFrom(n, r) \in Seq(Keys)
           /\ \A n \in 1..Levels :
                 KeysFrom(n, r) = (IF IsLeaf(r) THEN pages[r].keys ELSE <<>>)
                                     \o Spread(Kids[r], [c \in Refs |-> KeysFrom(n - 1, c)])
  <1>1. /\ KeysAt \in [Item -> Seq(Keys)] /\ Kids \in [Refs -> Seq(Refs)]
        /\ Here \in [Nat -> [Refs -> Item]]
    BY KidsType, KeysAtType, HereType
  <1>2. ASSUME NEW n \in 0..Levels, NEW x \in Refs PROVE KeysFrom(n, x) \in Seq(Keys)
    <2>1. Below[n][x] \in Seq(Item)
      <3>1. Below[n] \in [Refs -> Seq(Item)]
        BY BelowIs
      <3>. QED  BY <3>1
    <2>. QED  BY <1>1, <2>1, SpreadType DEF KeysFrom
  <1>3. ASSUME NEW n \in 1..Levels
        PROVE  KeysFrom(n, r) = (IF IsLeaf(r) THEN pages[r].keys ELSE <<>>)
                                   \o Spread(Kids[r], [c \in Refs |-> KeysFrom(n - 1, c)])
    <2>1. PICK w \in [Refs -> Seq(Item)], s \in Seq(Refs), h \in Item :
             w = Below[n - 1] /\ s = Kids[r] /\ h = Here[n][r] /\ h.ref = r
      <3>1. n \in Nat
        BY LevelsType
      <3>2. Here[n][r].ref = r
        BY <3>1 DEF Here
      <3>. QED  BY <1>1, <3>1, <3>2, BelowIs
    <2>2. PICK v \in [Item -> Seq(Keys)] : v = KeysAt
      BY <1>1
    <2>3. PICK both \in [Refs -> Seq(Keys)] : both = [c \in Refs |-> KeysFrom(n - 1, c)]
      <3>1. n - 1 \in 0..Levels
        BY LevelsType
      <3>. QED  BY <1>2, <3>1
    <2>4. both = Twice(Refs, w, v)
      BY <2>1, <2>2, <2>3 DEF KeysFrom, Twice
    <2>5. Spread(Spread(s, w), v) = Spread(s, both)
      <3>1. InTurn(Refs, Item, Keys, w, v)
        BY DEF InTurn
      <3>. QED  BY <2>4, <3>1, SpreadTwice
    <2>6. PICK one \in Seq(Item), rest \in Seq(Item) : one = <<h>> /\ rest = Spread(s, w)
      <3>1. <<h>> \in Seq(Item)
        OBVIOUS
      <3>2. Spread(s, w) \in Seq(Item)
        BY SpreadType
      <3>. QED  BY <3>1, <3>2
    <2>7. Below[n][r] = one \o rest
      BY <2>1, <2>6, BelowIs
    <2>8. Spread(one \o rest, v) = Spread(one, v) \o Spread(rest, v)
      BY SpreadConcat, ZenonT(60)
    <2>9. Spread(one, v) = v[h]
      BY <2>6, SpreadOne
    <2>10. v[h] = IF IsLeaf(r) THEN pages[r].keys ELSE <<>>
      BY <2>1, <2>2 DEF KeysAt
    <2>. QED  BY <2>1, <2>2, <2>3, <2>5, <2>6, <2>7, <2>8, <2>9, <2>10 DEF KeysFrom
  <1>. QED  BY <1>2, <1>3

(* What SearchTree says of a page of the unfolded tree.                    *)
Sorted(n, r) ==
    /\ pages[r].kind = "leaf" => Ascending(pages[r].keys)
    /\ pages[r].kind = "node" =>
         /\ Ascending([j \in DOMAIN pages[r].entries |-> pages[r].entries[j].key])
         /\ \A j \in DOMAIN pages[r].entries :
               \A k \in ToSet(KeysFrom(n - 1, pages[r].entries[j].ref)) :
                  /\ pages[r].entries[j].key <= k
                  /\ j < Len(pages[r].entries) => k < pages[r].entries[j + 1].key

LEMMA SearchTreeIs ==
    ASSUME pages \in [Refs -> Page], root \in Refs, SearchTree
    PROVE  \A n \in 1..Levels, r \in Refs : Here[n][r] \in ToSet(Whole) => Sorted(n, r)
  <1> SUFFICES ASSUME NEW n \in 1..Levels, NEW r \in Refs, Here[n][r] \in ToSet(Whole)
               PROVE  Sorted(n, r)
    OBVIOUS
  <1>1. Occurrences(root, 0) = Whole
    BY WholeIs
  <1>2. Here[n][r] = [ref |-> r, depth |-> Levels - n]
    BY LevelsType DEF Here
  <1>3. PICK i \in DOMAIN Whole : Whole[i].ref = r /\ Whole[i].depth = Levels - n
    BY <1>2 DEF ToSet
  <1>4. PICK d \in 0..Levels : d = (Levels - n) + 1 /\ Levels - d = n - 1
    <2>1. (Levels - n) + 1 \in 0..Levels /\ Levels - ((Levels - n) + 1) = n - 1
      BY LevelsType
    <2>. QED  BY <2>1
  <1>5. \A c \in Refs : LeafKeys(c, d) = KeysFrom(n - 1, c)
    BY <1>4, LeafKeysAre DEF KeysFrom
  <1>6. /\ pages[r].kind = "leaf" => Ascending(pages[r].keys)
        /\ pages[r].kind = "node" =>
             /\ Ascending([j \in DOMAIN pages[r].entries |-> pages[r].entries[j].key])
             /\ \A j \in DOMAIN pages[r].entries :
                   \A k \in ToSet(LeafKeys(pages[r].entries[j].ref, d)) :
                      /\ pages[r].entries[j].key <= k
                      /\ j < Len(pages[r].entries) => k < pages[r].entries[j + 1].key
    BY <1>1, <1>3, <1>4 DEF SearchTree
  <1>7. pages[r].kind = "node" => \A j \in DOMAIN pages[r].entries : pages[r].entries[j].ref \in Refs
    <2>1. ASSUME pages[r].kind = "node", NEW j \in DOMAIN pages[r].entries
          PROVE  pages[r].entries[j].ref \in Refs
      <3>1. /\ pages[r].entries \in Seq([key : Keys, ref : Refs])
            /\ DOMAIN pages[r].entries = 1..Len(pages[r].entries)
        BY <2>1, KidsType, LenProperties
      <3>2. pages[r].entries[j] \in [key : Keys, ref : Refs]
        BY <3>1, ElementOfSeq
      <3>. QED  BY <3>2
    <2>. QED  BY <2>1
  <1>. QED  BY <1>5, <1>6, <1>7 DEF Sorted

-----------------------------------------------------------------------------
(* One level of a search tree: a leaf page, and a node page over parts     *)
(* that are right.                                                         *)
Right(n, r) ==
    /\ Ascending(KeysFrom(n, r))
    /\ \A k \in Keys : DownOf(k)[n][r] = IF k \in ToSet(KeysFrom(n, r)) THEN "found"
                                                                  ELSE "PstNotFoundError"

LEMMA LeafIsRight ==
    ASSUME pages \in [Refs -> Page], NEW n \in 1..Levels, NEW r \in Refs, IsLeaf(r),
           Sorted(n, r), Levels - n < MaxItems
    PROVE  Right(n, r)
  <1>1. pages[r].kind = "leaf" /\ pages[r].keys \in Seq(Keys)
    BY DEF IsLeaf, Page
  <1>2. KeysFrom(n, r) = pages[r].keys
    <2>1. Kids[r] = <<>>
      BY <1>1, KidsType
    <2>2. Spread(Kids[r], [c \in Refs |-> KeysFrom(n - 1, c)]) = <<>>
      BY <2>1, SpreadEmpty
    <2>3. KeysFrom(n, r) = pages[r].keys \o <<>>
      BY <2>2, KeysFromIs
    <2>. QED  BY <1>1, <2>3, ConcatEmptySeq
  <1>3. ASSUME NEW k \in Keys
        PROVE  DownOf(k)[n][r] = IF k \in ToSet(pages[r].keys) THEN "found" ELSE "PstNotFoundError"
    <2>1. n \in 0..Levels /\ n # 0 /\ ~(Levels - n >= MaxItems)
      BY LevelsType
    <2>2. DownOf(k)[n][r] = IF Contains(pages[r].keys, k) THEN "found" ELSE "PstNotFoundError"
      BY <1>1, <2>1, DownExists DEF Looked, IsLeaf
    <2>3. Contains(pages[r].keys, k) <=> k \in ToSet(pages[r].keys)
      BY <1>1, LenProperties DEF Contains, ToSet
    <2>. QED  BY <2>2, <2>3
  <1>. QED  BY <1>1, <1>2, <1>3 DEF Right, Sorted

LEMMA NodeIsRight ==
    ASSUME pages \in [Refs -> Page], NEW n \in 1..Levels, NEW r \in Refs,
           pages[r].kind = "node", Sorted(n, r), Levels - n < MaxItems,
           \A c \in ToSet(Kids[r]) : Right(n - 1, c)
    PROVE  Right(n, r)
  <1>1. PICK es \in Seq([key : Keys, ref : Refs]), m \in Nat, s \in Seq(Refs) :
           /\ es = pages[r].entries /\ m = Len(es) /\ s = Kids[r] /\ Len(s) = m
           /\ DOMAIN es = 1..m /\ DOMAIN s = 1..m
           /\ \A i \in 1..m : s[i] = es[i].ref
    <2>1. PICK es \in Seq([key : Keys, ref : Refs]), s \in Seq(Refs) :
             /\ es = pages[r].entries /\ s = Kids[r] /\ Len(s) = Len(es)
             /\ \A i \in 1..Len(s) : s[i] = es[i].ref
      <3>1. /\ Kids[r] \in Seq(Refs) /\ pages[r].entries \in Seq([key : Keys, ref : Refs])
            /\ Len(Kids[r]) = Len(pages[r].entries)
            /\ \A i \in 1..Len(Kids[r]) : Kids[r][i] = pages[r].entries[i].ref
        BY KidsType
      <3>. QED  BY <3>1
    <2>2. Len(es) \in Nat /\ DOMAIN es = 1..Len(es) /\ DOMAIN s = 1..Len(s)
      BY LenProperties
    <2>. QED  BY <2>1, <2>2
  <1>2. \A i \in 1..m : es[i].key \in Nat /\ s[i] \in Refs /\ s[i] \in ToSet(s)
    <2>1. \A i \in 1..m : es[i] \in [key : Keys, ref : Refs] /\ s[i] \in Refs
      BY <1>1, ElementOfSeq
    <2>. QED  BY <1>1, <2>1, KeysAssumption DEF ToSet
  <1>3. PICK w \in [Refs -> Seq(Keys)] : w = [c \in Refs |-> KeysFrom(n - 1, c)]
    <2>1. n - 1 \in 0..Levels
      BY LevelsType
    <2>. QED  BY <2>1, KeysFromIs
  <1>4. KeysFrom(n, r) = Spread(s, w)
    <2>1. KeysFrom(n, r) = <<>> \o Spread(s, w)
      BY <1>1, <1>3, KeysFromIs DEF IsLeaf
    <2>2. Spread(s, w) \in Seq(Keys)
      BY SpreadType
    <2>. QED  BY <2>1, <2>2, ConcatEmptySeq
  <1>5. \A i \in 1..m : Right(n - 1, s[i]) /\ w[s[i]] = KeysFrom(n - 1, s[i])
    BY <1>1, <1>2, <1>3
  <1>6. Ascending([j \in DOMAIN es |-> es[j].key])
    BY <1>1 DEF Sorted
  <1>7. \A j \in 1..m, k \in Keys :
           k \in ToSet(w[s[j]]) => es[j].key <= k /\ (j < m => k < es[j + 1].key)
    BY <1>1, <1>5 DEF Sorted
  <1>8. \A i \in 1..m : ToSet(w[s[i]]) \subseteq Keys
    <2>1. \A i \in 1..m : w[s[i]] \in Seq(Keys)
      BY <1>2
    <2>. QED  BY <2>1, ToSetType
  <1>9. \A i \in 1..m, j \in 1..m : i < j => es[i].key < es[j].key
    <2>1. PICK keys : keys = [j \in DOMAIN es |-> es[j].key]
      OBVIOUS
    <2>2. keys \in [1..m -> Nat] /\ \A i \in 1..m : keys[i] = es[i].key
      BY <1>1, <1>2, <2>1
    <2>3. keys \in Seq(Nat)
      BY <2>2
    <2>4. Len(keys) = m
      <3>1. DOMAIN keys = 1..Len(keys) /\ Len(keys) \in Nat
        BY <2>3, LenProperties
      <3>. QED  BY <2>2, <3>1
    <2>5. Ascending(keys)
      BY <1>6, <2>1
    <2>. QED  BY <2>2, <2>3, <2>4, <2>5, AscendingAll
  <1>10. Ascending(Spread(s, w))
    <2>1. ASSUME NEW i \in 1..m, NEW j \in 1..m, i < j, NEW a \in ToSet(w[s[i]]),
                 NEW b \in ToSet(w[s[j]])
          PROVE  a < b
      <3>1. a \in Nat /\ b \in Nat /\ a \in Keys /\ b \in Keys
        BY <1>8, KeysAssumption
      <3>2. i < m /\ i + 1 \in 1..m /\ (i + 1 = j \/ i + 1 < j)
        BY <2>1
      <3>3. a < es[i + 1].key /\ es[j].key <= b
        BY <1>7, <3>1, <3>2
      <3>4. es[i + 1].key <= es[j].key
        BY <1>2, <1>9, <3>2
      <3>. QED  BY <1>2, <3>1, <3>2, <3>3, <3>4, SMTT(30)
    <2>2. InOrder(s, w)
      BY <1>1, <1>5, <2>1 DEF InOrder, Right
    <2>3. w \in [Refs -> Seq(Nat)]
      <3>1. \A c \in Refs : w[c] \in Seq(Nat)
        <4>1. Seq(Keys) \subseteq Seq(Nat)
          <5>1. ASSUME NEW q \in Seq(Keys) PROVE q \in Seq(Nat)
            <6>1. \A i \in 1..Len(q) : q[i] \in Nat
              BY KeysAssumption, ElementOfSeq
            <6>2. PICK l \in Nat : l = Len(q)
              BY LenProperties
            <6>3. q = [i \in 1..l |-> q[i]]
              BY <6>2, LenProperties
            <6>4. [i \in 1..l |-> q[i]] \in [1..l -> Nat]
              BY <6>1, <6>2
            <6>5. q \in [1..l -> Nat]
              BY <6>3, <6>4
            <6>. QED  BY <6>5
          <5>. QED  BY <5>1
        <4>. QED  BY <4>1
      <3>. QED  BY <3>1
    <2>. QED  BY <2>2, <2>3, SpreadAscends
  <1>11. ASSUME NEW k \in Keys
         PROVE  DownOf(k)[n][r] = IF k \in ToSet(Spread(s, w)) THEN "found" ELSE "PstNotFoundError"
    <2>1. n \in 0..Levels /\ n # 0 /\ ~(Levels - n >= MaxItems)
      BY LevelsType
    <2>2. DownOf(k)[n][r] = IF PositionOf(r, k) = 0 THEN "PstNotFoundError"
                                               ELSE DownOf(k)[n - 1][Chosen(r, k)]
      BY <2>1, DownExists DEF Looked, IsLeaf
    <2>3. PICK p \in 0..m : p = PositionOf(r, k) /\ \A i \in 1..m : i <= p <=> es[i].key <= k
      <3>1. /\ PositionOf(r, k) \in 0..m
            /\ \A i \in 1..m : i <= PositionOf(r, k) <=> es[i].key <= k
        BY <1>1, <1>6, PositionIs
      <3>. QED  BY <3>1
    <2>4. k \in ToSet(Spread(s, w)) <=> \E j \in 1..m : k \in ToSet(w[s[j]])
      <3>1. ToSet(Spread(s, w)) = UNION {ToSet(w[c]) : c \in ToSet(s)}
        BY SpreadMembers
      <3>2. ToSet(s) = {s[j] : j \in 1..m}
        BY <1>1 DEF ToSet
      <3>. QED  BY <3>1, <3>2
    <2>5. k \in Nat
      BY KeysAssumption
    <2>6. ASSUME NEW j \in 1..m, k \in ToSet(w[s[j]]) PROVE j = p
      <3>1. es[j].key <= k /\ (j < m => k < es[j + 1].key)
        BY <1>7, <2>6
      <3>2. j <= p
        BY <2>3, <3>1
      <3>3. CASE j < p
        <4>1. j < m /\ j + 1 \in 1..m /\ j + 1 <= p
          BY <3>3
        <4>2. es[j + 1].key <= k /\ k < es[j + 1].key
          BY <2>3, <3>1, <4>1
        <4>. QED  BY <1>2, <2>5, <4>1, <4>2
      <3>. QED  BY <3>2, <3>3
    <2>7. CASE p = 0
      BY <2>2, <2>3, <2>4, <2>6, <2>7
    <2>8. CASE p # 0
      <3>1. p \in 1..m
        BY <2>8
      <3>2. Chosen(r, k) = s[p]
        BY <1>1, <2>3, <3>1 DEF Chosen
      <3>3. DownOf(k)[n - 1][s[p]] = IF k \in ToSet(w[s[p]]) THEN "found" ELSE "PstNotFoundError"
        BY <1>5, <3>1 DEF Right
      <3>4. k \in ToSet(Spread(s, w)) <=> k \in ToSet(w[s[p]])
        BY <2>4, <2>6, <3>1
      <3>. QED  BY <2>2, <2>3, <2>8, <3>2, <3>3, <3>4
    <2>. QED  BY <2>7, <2>8
  <1>. QED  BY <1>4, <1>10, <1>11 DEF Right

(* In a search tree that an iteration accepts, from every page on: the     *)
(* keys ascend, and going down finds exactly them.                         *)
LEMMA SearchIsExact ==
    ASSUME pages \in [Refs -> Page], root \in Refs, Admits, SearchTree
    PROVE  Right(Levels, root)
  <1>1. Whole \in Seq(Item) /\ Levels \in 0..Levels /\ Levels \in Nat /\ Levels # 0
    BY WholeIs, LevelsType
  <1>2. ASSUME NEW q \in ToSet(Whole)
        PROVE  /\ q.depth <= MaxBTreeDepth /\ pages[q.ref].kind # "bad" /\ q.depth < MaxItems
               /\ q.depth < Levels
               /\ \A c \in ToSet(Kids[q.ref]) : [ref |-> c, depth |-> q.depth + 1] \in ToSet(Whole)
    <2>1. PICK i \in 1..Len(Whole) : Whole[i] = q
      BY <1>1, LenProperties DEF ToSet
    <2>2. q.depth <= MaxBTreeDepth /\ pages[q.ref].kind # "bad"
      BY <2>1 DEF Admits
    <2>3. /\ q.depth \in (Levels - Levels)..Levels
          /\ q.depth - (Levels - Levels) < Len(Whole)
          /\ q.depth < Levels =>
                \A c \in ToSet(Kids[q.ref]) : [ref |-> c, depth |-> q.depth + 1] \in ToSet(Whole)
      BY <1>1, BelowPlaced DEF PlacedBelow, Whole
    <2>4. PICK d \in Nat : d = q.depth /\ d < Len(Whole)
      BY <1>1, <2>3
    <2>5. Len(Whole) \in Nat /\ Len(Whole) <= MaxItems
      BY <1>1, LenProperties DEF Admits
    <2>6. d < MaxItems /\ d < Levels
      BY <2>2, <2>4, <2>5, LevelsType DEF Levels
    <2>. QED  BY <2>2, <2>3, <2>4, <2>6
  <1>3. \A n \in 0..Levels, r \in Refs : Here[n][r] = [ref |-> r, depth |-> Levels - n]
    BY LevelsType DEF Here
  <1> DEFINE Good == {n \in Nat : n <= Levels =>
                         \A r \in Refs : Here[n][r] \in ToSet(Whole) => Right(n, r)}
  <1>4. 0 \in Good
    <2>1. ASSUME NEW r \in Refs, Here[0][r] \in ToSet(Whole) PROVE FALSE
      <3>1. Here[0][r].depth = Levels
        <4>1. 0 \in 0..Levels /\ Levels - 0 = Levels
          BY <1>1
        <4>2. Here[0][r] = [ref |-> r, depth |-> Levels - 0]
          BY <1>3, <4>1
        <4>. QED  BY <4>1, <4>2
      <3>2. Here[0][r].depth < Levels
        BY <1>2, <2>1
      <3>. QED  BY <1>1, <3>1, <3>2
    <2>. QED  BY <2>1
  <1>5. ASSUME NEW n \in Nat, n \in Good PROVE n + 1 \in Good
    <2> SUFFICES ASSUME n + 1 <= Levels, NEW r \in Refs, Here[n + 1][r] \in ToSet(Whole)
                 PROVE  Right(n + 1, r)
      OBVIOUS
    <2>1. PICK m \in 1..Levels : m = n + 1 /\ m - 1 = n /\ (Levels - m) + 1 = Levels - n
      <3>1. n + 1 \in 1..Levels /\ (n + 1) - 1 = n /\ (Levels - (n + 1)) + 1 = Levels - n
        BY <1>1
      <3>. QED  BY <3>1
    <2>2. n \in 0..Levels /\ m \in 0..Levels /\ n <= Levels
      BY <1>1, <2>1
    <2>3. Here[m][r] = [ref |-> r, depth |-> Levels - m] /\ Here[m][r] \in ToSet(Whole)
      BY <1>3, <2>1, <2>2
    <2>4. /\ pages[r].kind # "bad" /\ Levels - m < MaxItems
          /\ \A c \in ToSet(Kids[r]) : [ref |-> c, depth |-> Levels - n] \in ToSet(Whole)
      BY <1>2, <2>1, <2>3
    <2>5. Sorted(m, r)
      BY <2>3, SearchTreeIs
    <2>6. ASSUME NEW c \in ToSet(Kids[r]) PROVE Right(m - 1, c)
      <3>1. c \in Refs
        BY KidsType, ToSetType
      <3>2. Here[n][c] \in ToSet(Whole)
        BY <1>3, <2>2, <2>4, <3>1
      <3>. QED  BY <1>5, <2>1, <2>2, <3>1, <3>2
    <2> HIDE DEF Good
    <2>7. CASE IsLeaf(r)
      BY <2>1, <2>4, <2>5, <2>7, LeafIsRight
    <2>8. CASE ~IsLeaf(r)
      <3>1. pages[r].kind = "node"
        BY <2>4, <2>8 DEF IsLeaf, Page
      <3>. QED  BY <2>1, <2>4, <2>5, <2>6, <3>1, NodeIsRight
    <2>. QED  BY <2>7, <2>8
  <1> HIDE DEF Good
  <1>6. Levels \in Good
    BY <1>1, <1>4, <1>5, NatInduct
  <1>7. Here[Levels][root] \in ToSet(Whole)
    BY <1>1, BelowMembers DEF Whole
  <1>. QED  BY <1>1, <1>6, <1>7 DEF Good

-----------------------------------------------------------------------------
(* For every graph of pages, every limit and every interleaving of the two *)
(* walks: a lookup answers what going down the file alone gives, so the    *)
(* cycle guards and the shared cache change no answer; in a search tree    *)
(* that an iteration accepts it answers for exactly the keys of the        *)
(* leaves; and an iteration that ends has handed out all keys of the tree, *)
(* in its order, while one that is refused had a reason in the file.       *)
THEOREM ReadersAreExact == Spec => []ReadersExact
  <1>1. Init => LookupInv /\ IterInv
    BY IterationStarts DEF Init, LookupInv
  <1>2. TypeOK /\ WorkBounded /\ LookupInv /\ IterInv /\ [Next]_vars => LookupInv' /\ IterInv'
    BY LookupPreserved, IterationPreserved
  <1>3. TypeOK /\ WorkBounded /\ LookupInv /\ IterInv => ReadersExact
    <2> SUFFICES ASSUME TypeOK, WorkBounded, LookupInv, IterInv PROVE ReadersExact
      OBVIOUS
    <2>1. pages \in [Refs -> Page] /\ root \in Refs /\ key \in Keys
      BY DEF TypeOK
    <2>2. (Admissible <=> Admits) /\ LeafKeys(root, 0) = AllKeys
      BY <2>1, AdmissibleIs, WholeIs
    <2>3. ASSUME Admits, SearchTree PROVE Right(Levels, root) /\ KeysFrom(Levels, root) = AllKeys
      BY <2>1, <2>3, SearchIsExact DEF KeysFrom, AllKeys, Whole
    <2>4. AnswerIsDescent
      BY DescentIs DEF AnswerIsDescent, LookupInv
    <2>5. AnswerIsListed
      <3>1. ASSUME fpc = "idle", answer # NoError, Admits, SearchTree
            PROVE  answer = IF key \in ToSet(AllKeys) THEN "found" ELSE "PstNotFoundError"
        <4>1. answer = DownOf(key)[Levels][root]
          BY <3>1 DEF LookupInv
        <4>. QED  BY <2>1, <2>3, <3>1, <4>1 DEF Right
      <3>. QED  BY <2>2, <3>1 DEF AnswerIsListed
    <2>6. IterationComplete
      <3>1. /\ ipc = "done" => Admits /\ out = AllKeys
            /\ ipc = "refused" => ~Admits /\ IsPrefix(out, AllKeys)
        BY IterationExact
      <3>2. ipc = "done" /\ SearchTree => Ascending(out)
        BY <2>3, <3>1 DEF Right
      <3>. QED  BY <2>2, <3>1, <3>2 DEF IterationComplete
    <2>. QED  BY <2>4, <2>5, <2>6 DEF ReadersExact
  <1>. QED  BY <1>1, <1>2, <1>3, TypeCorrect, WorkIsBounded, PTL DEF Spec

=============================================================================
