-------------------------------- MODULE BTree --------------------------------
(***************************************************************************)
(* ndb/btree.py: one node or block B-tree of an open store.  A lookup      *)
(* (_find) goes down from the root by bisection; an iteration (pages, and  *)
(* _leaf_entries over it) is a generator that hands out every page in      *)
(* pre-order.  Both follow page references the file chose, through _child, *)
(* and both fill the tree's one cache of parsed intermediate pages.        *)
(*                                                                         *)
(* The reader has one thread.  What interleaves is the generator, which    *)
(* stays suspended between two pages while its consumer runs lookups: a    *)
(* lookup runs from its call to its answer before the generator resumes.   *)
(*                                                                         *)
(* A page is abstracted to what reading and parsing it yields: a leaf and  *)
(* its keys, a node and its entries, or "bad" when any check of read_page, *)
(* BTreePage.parse or _check_intermediate refuses it.  Nothing in those    *)
(* checks orders the keys, counts the entries or compares levels.          *)
(***************************************************************************)
EXTENDS PstLimits, SequencesExt

CONSTANTS Refs,      \* page references, by byte offset
          Keys,      \* node or block identifiers
          Stores,    \* the trees, their roots and what is iterated
          MaxBTreeDepth, MaxItems

Page == [kind : {"leaf"}, keys : Seq(Keys)]
   \cup [kind : {"node"}, entries : Seq([key : Keys, ref : Refs])]
   \cup [kind : {"bad"}]

ASSUME RefsAssumption == IsFiniteSet(Refs)
ASSUME KeysAssumption == Keys \subseteq Nat /\ Keys # {}
ASSUME StoresAssumption ==
    \A s \in Stores : /\ s.pages \in [Refs -> Page] /\ s.root \in Refs
                      /\ s.walk \in {"pages", "entries"}
ASSUME LimitsAssumption == MaxBTreeDepth \in Nat \ {0} /\ MaxItems \in Nat \ {0}

VARIABLES pages, root,  \* the file: its pages and the root of the tree
          walk,         \* iterate pages(), or the leaf entries over it
          cache,        \* the intermediate pages parsed so far
          ipc,          \* the generator: "running", "done" or "refused"
          stack,        \* its references still to visit, next one first
          visited,      \* its VisitedSet
          out, count,   \* keys of the leaves handed out, and their number
          fpc,          \* the lookup: "idle" or "descend"
          key,          \* the key it looks for
          ref, depth,   \* the page it is about to read
          path,         \* its VisitedSet
          answer        \* what the last lookup answered

iteration == <<ipc, stack, visited, out, count>>
lookup == <<fpc, key, ref, depth, path, answer>>
vars == <<pages, root, walk, cache, iteration, lookup>>

Init == /\ \E s \in Stores : pages = s.pages /\ root = s.root /\ walk = s.walk
        /\ cache = {}
        /\ ipc = "running"
        /\ stack = <<[ref |-> root, depth |-> 0]>>
        /\ visited = {} /\ out = <<>> /\ count = 0
        /\ fpc = "idle" /\ key = (CHOOSE k \in Keys : TRUE) /\ answer = NoError
        /\ ref = root /\ depth = 0 /\ path = {}

ReadOnly == UNCHANGED <<pages, root, walk>>

-----------------------------------------------------------------------------
(* Mutant: one VisitedSet for the lookups and the iteration of a tree. *)
ChildLimitShared(r, d, seen) ==
    \/ Exceeds(d, MaxBTreeDepth)
    \/ AddRefused(seen \cup (IF fpc = "idle" THEN {} ELSE visited), r, MaxItems)

(* _child: depth, then the cycle guard, then the cache or the file. *)
ChildLimit(r, d, seen) ==
    Exceeds(d, MaxBTreeDepth) \/ AddRefused(seen, r, MaxItems)

ChildBad(r) == r \notin cache /\ pages[r].kind = "bad"

Child(r, d, seen) == ~ChildLimit(r, d, seen) /\ ~ChildBad(r)

IsLeaf(r) == pages[r].kind = "leaf"

(* Mutant: caches the leaves too. *)
RememberLeaves(r) == cache' = cache \cup {r}

Remember(r) == cache' = IF IsLeaf(r) THEN cache ELSE cache \cup {r}

-----------------------------------------------------------------------------
(* One resumption of the generator, up to its next page.  The code pushes  *)
(* the children after the page is handed out; the stack is the generator's *)
(* own, so nobody can see the difference.                                  *)
Top == Head(stack)

Children(r, d) ==
    [i \in DOMAIN pages[r].entries |-> [ref |-> pages[r].entries[i].ref, depth |-> d]]

(* Mutant: counts each page's entries on their own. *)
CountRefusedPerPage(r) ==
    walk = "entries" /\ IsLeaf(r) /\ Exceeds(Len(pages[r].keys), MaxItems)

CountRefused(r) ==
    walk = "entries" /\ IsLeaf(r) /\ Exceeds(count + Len(pages[r].keys), MaxItems)

YieldLeaf ==
    /\ fpc = "idle" /\ ipc = "running" /\ stack # <<>>
    /\ Child(Top.ref, Top.depth, visited) /\ IsLeaf(Top.ref)
    /\ ~CountRefused(Top.ref)
    /\ visited' = visited \cup {Top.ref}
    /\ out' = out \o pages[Top.ref].keys
    /\ count' = count + Len(pages[Top.ref].keys)
    /\ stack' = Tail(stack)
    /\ ReadOnly /\ UNCHANGED <<cache, ipc, lookup>>

(* Mutant: the walk stops at the first page without children. *)
YieldNodeLast ==
    /\ fpc = "idle" /\ ipc = "running" /\ stack # <<>>
    /\ Child(Top.ref, Top.depth, visited) /\ ~IsLeaf(Top.ref)
    /\ Remember(Top.ref)
    /\ visited' = visited \cup {Top.ref}
    /\ stack' = Children(Top.ref, Top.depth + 1)
    /\ ReadOnly /\ UNCHANGED <<ipc, out, count, lookup>>

(* Mutant: neither remembers the page nor counts its level. *)
YieldNodeForgetful ==
    /\ fpc = "idle" /\ ipc = "running" /\ stack # <<>>
    /\ Child(Top.ref, Top.depth, visited) /\ ~IsLeaf(Top.ref)
    /\ Remember(Top.ref)
    /\ stack' = Children(Top.ref, Top.depth) \o Tail(stack)
    /\ ReadOnly /\ UNCHANGED <<ipc, visited, out, count, lookup>>

YieldNode ==
    /\ fpc = "idle" /\ ipc = "running" /\ stack # <<>>
    /\ Child(Top.ref, Top.depth, visited) /\ ~IsLeaf(Top.ref)
    /\ Remember(Top.ref)
    /\ visited' = visited \cup {Top.ref}
    /\ stack' = Children(Top.ref, Top.depth + 1) \o Tail(stack)
    /\ ReadOnly /\ UNCHANGED <<ipc, out, count, lookup>>

RefusePage ==
    /\ fpc = "idle" /\ ipc = "running" /\ stack # <<>>
    /\ \/ ~Child(Top.ref, Top.depth, visited)
       \/ CountRefused(Top.ref)
    /\ ipc' = "refused"
    /\ ReadOnly /\ UNCHANGED <<cache, stack, visited, out, count, lookup>>

Exhaust ==
    /\ fpc = "idle" /\ ipc = "running" /\ stack = <<>>
    /\ ipc' = "done"
    /\ ReadOnly /\ UNCHANGED <<cache, stack, visited, out, count, lookup>>

Resume == YieldLeaf \/ YieldNode \/ RefusePage \/ Exhaust

-----------------------------------------------------------------------------
(* Mutant: bisect_left. *)
BisectLeft(keys, k) ==
    LET n == Len(keys)
        bisect[w \in (0..n) \X (0..n)] ==
            LET lo == w[1]
                hi == w[2]
                mid == (lo + hi) \div 2
            IN IF lo >= hi THEN lo
               ELSE IF k <= keys[mid + 1] THEN bisect[<<lo, mid>>] ELSE bisect[<<mid + 1, hi>>]
    IN bisect[<<0, n>>]

(* bisect_right, exactly, for keys that are not in order too. *)
BisectRight(keys, k) ==
    LET n == Len(keys)
        bisect[w \in (0..n) \X (0..n)] ==
            LET lo == w[1]
                hi == w[2]
                mid == (lo + hi) \div 2
            IN IF lo >= hi THEN lo
               ELSE IF k < keys[mid + 1] THEN bisect[<<lo, mid>>] ELSE bisect[<<mid + 1, hi>>]
    IN bisect[<<0, n>>]

PositionOf(r, k) ==
    BisectRight([i \in DOMAIN pages[r].entries |-> pages[r].entries[i].key], k)

Position(r) == PositionOf(r, key)

Find(k) ==
    /\ fpc = "idle"
    /\ fpc' = "descend" /\ key' = k
    /\ ref' = root /\ depth' = 0 /\ path' = {} /\ answer' = NoError
    /\ ReadOnly /\ UNCHANGED <<cache, iteration>>

(* The lookup returns or raises, and its local variables are gone. *)
Answer(a) == /\ answer' = a
             /\ fpc' = "idle"
             /\ ref' = root /\ depth' = 0 /\ path' = {}
             /\ UNCHANGED key

RefuseLookup ==
    /\ fpc = "descend"
    /\ \/ ChildLimit(ref, depth, path) /\ Answer("PstLimitError")
       \/ ~ChildLimit(ref, depth, path) /\ ChildBad(ref) /\ Answer("PstFormatError")
    /\ ReadOnly /\ UNCHANGED <<cache, iteration>>

SearchLeaf ==
    /\ fpc = "descend" /\ Child(ref, depth, path) /\ IsLeaf(ref)
    /\ Answer(IF Contains(pages[ref].keys, key) THEN "found" ELSE "PstNotFoundError")
    /\ Remember(ref)
    /\ ReadOnly /\ UNCHANGED iteration

BelowFirstKey ==
    /\ fpc = "descend" /\ Child(ref, depth, path) /\ ~IsLeaf(ref)
    /\ Position(ref) \notin DOMAIN pages[ref].entries
    /\ Answer("PstNotFoundError")
    /\ Remember(ref)
    /\ ReadOnly /\ UNCHANGED iteration

Descend ==
    /\ fpc = "descend" /\ Child(ref, depth, path) /\ ~IsLeaf(ref)
    /\ Position(ref) \in DOMAIN pages[ref].entries
    /\ ref' = pages[ref].entries[Position(ref)].ref
    /\ depth' = depth + 1
    /\ path' = path \cup {ref}
    /\ Remember(ref)
    /\ ReadOnly /\ UNCHANGED <<iteration, fpc, key, answer>>

LookupStep == RefuseLookup \/ SearchLeaf \/ BelowFirstKey \/ Descend

-----------------------------------------------------------------------------
Next == Resume \/ (\E k \in Keys : Find(k)) \/ LookupStep

(* A lookup is a plain loop.  The generator resumes because its consumer   *)
(* asks for every page; between two pages it may run lookups, and each of  *)
(* them ends, so the generator can resume again and again until it does.   *)
Spec == Init /\ [][Next]_vars /\ WF_vars(LookupStep) /\ SF_vars(Resume)

-----------------------------------------------------------------------------
(* The type of the cache, the generator and the lookup of a B-tree.  The   *)
(* cache holds parsed intermediate pages only: never a leaf, and never a   *)
(* page that does not parse.                                               *)
TypeOK ==
    /\ pages \in [Refs -> Page] /\ root \in Refs /\ walk \in {"pages", "entries"}
    /\ cache \in SUBSET {r \in Refs : pages[r].kind = "node"}
    /\ ipc \in {"running", "done", "refused"}
    /\ stack \in Seq([ref : Refs, depth : Nat])
    /\ visited \in SUBSET Refs /\ out \in Seq(Keys) /\ count \in Nat
    /\ fpc \in {"idle", "descend"} /\ key \in Keys
    /\ ref \in Refs /\ depth \in Nat /\ path \in SUBSET Refs
    /\ answer \in Refusals \cup {NoError, "found"}

(* The work of either walk is bounded by the limits and not by the file:   *)
(* a lookup that is going down has read exactly one page per level, none   *)
(* of them twice, down to the deepest level allowed, and an iteration has  *)
(* remembered at most max_items pages and handed out each page's keys.     *)
WorkBounded ==
    /\ depth = Cardinality(path)
    /\ depth <= MaxBTreeDepth + 1 /\ depth <= MaxItems
    /\ Cardinality(visited) <= MaxItems
    /\ Len(out) = count /\ (walk = "entries" => count <= MaxItems)

-----------------------------------------------------------------------------
(* References, computed without a cache, a stack or a visited set.         *)
ChildRefs(r) == IF pages[r].kind = "node"
                THEN [i \in DOMAIN pages[r].entries |-> pages[r].entries[i].ref]
                ELSE <<>>

(* The pages below `r' at level `d', in pre-order, one level too many:     *)
(* below[n][x] are those from `x' on with `n' levels left.                 *)
Occurrences(r, d) ==
    LET Levels == MaxBTreeDepth + 1
        below[n \in 0..Levels] ==
            [x \in Refs |->
                <<[ref |-> x, depth |-> Levels - n]>> \o
                (IF n = 0 THEN <<>>
                 ELSE FlattenSeq([i \in DOMAIN ChildRefs(x) |-> below[n - 1][ChildRefs(x)[i]]]))]
    IN below[Levels - d][r]

LeafKeys(r, d) ==
    LET occ == Occurrences(r, d)
    IN FlattenSeq([i \in DOMAIN occ |->
                     IF IsLeaf(occ[i].ref) THEN pages[occ[i].ref].keys ELSE <<>>])

(* A tree an iteration accepts. *)
Admissible ==
    LET occ == Occurrences(root, 0)
    IN /\ \A i \in DOMAIN occ : occ[i].depth <= MaxBTreeDepth
                             /\ pages[occ[i].ref].kind # "bad"
       /\ \A i, j \in DOMAIN occ : occ[i].ref = occ[j].ref => i = j
       /\ Len(occ) <= MaxItems
       /\ walk = "entries" => Len(LeafKeys(root, 0)) <= MaxItems

(* A search tree: in every node the first keys ascend, and the keys below  *)
(* an entry lie between its key and the next entry's.                      *)
Ascending(s) == \A i \in 1..(Len(s) - 1) : s[i] < s[i + 1]

SearchTree ==
    LET occ == Occurrences(root, 0)
    IN \A i \in DOMAIN occ :
        LET p == pages[occ[i].ref]
            es == p.entries
            Under(j) == ToSet(LeafKeys(es[j].ref, occ[i].depth + 1))
        IN /\ p.kind = "leaf" => Ascending(p.keys)
           /\ p.kind = "node" =>
                /\ Ascending([j \in DOMAIN es |-> es[j].key])
                /\ \A j \in DOMAIN es : \A k \in Under(j) :
                      es[j].key <= k /\ (j < Len(es) => k < es[j + 1].key)

(* What going down from the root for a key finds, page after page, with    *)
(* at[n] what is found from a page on with `n' levels left.                *)
Descent(k) ==
    LET Levels == MaxBTreeDepth + 1
        at[n \in 0..Levels] ==
            [r \in Refs |->
                IF n = 0 \/ Levels - n >= MaxItems THEN "PstLimitError"
                ELSE IF pages[r].kind = "bad" THEN "PstFormatError"
                ELSE IF IsLeaf(r)
                THEN IF Contains(pages[r].keys, k) THEN "found" ELSE "PstNotFoundError"
                ELSE IF PositionOf(r, k) = 0 THEN "PstNotFoundError"
                ELSE at[n - 1][pages[r].entries[PositionOf(r, k)].ref]]
    IN at[Levels][root]

-----------------------------------------------------------------------------
(* Whatever ran before it and whatever is suspended beside it, a lookup    *)
(* answers what going down the file alone gives: the shared cache and the  *)
(* cycle guards of _child change no answer.                                *)
AnswerIsDescent == (fpc = "idle" /\ answer # NoError) => answer = Descent(key)

(* In a search tree that an iteration accepts, find answers for exactly    *)
(* the keys that the iteration hands out, and never refuses: bisection     *)
(* goes wrong at no entry, at no level and for no key.                     *)
AnswerIsListed ==
    (fpc = "idle" /\ answer # NoError /\ Admissible /\ SearchTree) =>
        answer = IF key \in ToSet(LeafKeys(root, 0)) THEN "found" ELSE "PstNotFoundError"

(* An iteration that ends has read a tree within every limit and handed    *)
(* out all its keys in tree order, ascending in a search tree; one that is *)
(* refused had a reason in the file, and handed out a prefix of them.      *)
IterationComplete ==
    /\ ipc = "done" => /\ Admissible
                       /\ out = LeafKeys(root, 0)
                       /\ SearchTree => Ascending(out)
    /\ ipc = "refused" => ~Admissible /\ IsPrefix(out, LeafKeys(root, 0))

(* A lookup depends on the file and the key alone, and is exact where the  *)
(* file is a search tree; so is an iteration, whatever runs between its    *)
(* steps.                                                                  *)
ReadersExact == AnswerIsDescent /\ AnswerIsListed /\ IterationComplete

(* Once an iteration has reached its end, no lookup in that tree refuses   *)
(* it for its shape or its limits; it only says whether it has the key.    *)
(* A key it finds is one the iteration handed out.                         *)
IterationVouches ==
    [][(ipc = "done" /\ fpc = "descend" /\ fpc' = "idle") =>
          /\ answer' \in {"found", "PstNotFoundError"}
          /\ answer' = "found" => Contains(out, key)]_vars

(* The generator ends for a consumer that keeps asking, and every lookup   *)
(* answers, on a cyclic graph of pages too.                                *)
WalksEnd == /\ <>(ipc # "running")
            /\ fpc = "descend" ~> fpc = "idle"

-----------------------------------------------------------------------------
(* The pages of an iteration are traversed as Traversal promises.          *)
Edges == UNION {{r} \X ToSet(ChildRefs(r)) : r \in Refs}

Walk == INSTANCE Traversal WITH Node <- Refs, start <- {root}, edges <- Edges,
                                seen <- visited, status <- ipc

(* pages() hands out each page of the tree once, and all of them if it is  *)
(* exhausted, whatever lookups run in between.                             *)
ImplementsTraversal == Walk!Spec

=============================================================================
