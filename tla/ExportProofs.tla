---------------------------- MODULE ExportProofs ----------------------------
(***************************************************************************)
(* Proofs about the folder walk, for every hierarchy and every limit, and  *)
(* about the exports that draw from it, for every store and destination.   *)
(* The lemmas of the walk leave its fairness out, so that they hold of the *)
(* generator whoever its consumer is.                                      *)
(***************************************************************************)
EXTENDS Export, DataLemmas

WalkSafety == WalkInit /\ [][WalkNext]_walkvars

-----------------------------------------------------------------------------
LEMMA DisplayPathType ==
    ASSUME tree \in [Folders -> Folder], NEW f \in Folders
    PROVE  DisplayPath(f) \in Seq(Piece)
  <1>1. tree[f].name \in DisplayName
    BY DEF Folder
  <1>2. [node |-> f] \in Piece /\ [text |-> tree[f].name] \in Piece
    BY <1>1 DEF Piece
  <1>. QED  BY <1>2 DEF DisplayPath

LEMMA ChildrenType ==
    ASSUME tree \in [Folders -> Folder], NEW f \in Folders
    PROVE  Children(f) \in Seq(Folders)
  <1>1. tree[f].hierarchy \in Table(Folders)
    BY DEF Folder
  <1>2. CASE tree[f].hierarchy.kind = "rows"
    BY <1>1, <1>2 DEF Children, Rows, Table
  <1>3. CASE tree[f].hierarchy.kind # "rows"
    <2>1. Children(f) = <<>>
      BY <1>3 DEF Children, Rows
    <2>. QED  BY <2>1, EmptySeq
  <1>. QED  BY <1>2, <1>3

LEMMA ErrorType ==
    ASSUME NEW f
    PROVE  SubfoldersError(f) \in Refusals \cup {NoError}
  BY DEF SubfoldersError, Refusals, NoError

(* What a folder whose children can be listed puts on the stack: opened    *)
(* folders, and exactly the edges of the walk that leave it.               *)
LEMMA SubfoldersProperties ==
    ASSUME tree \in [Folders -> Folder], NEW v \in VisitType,
           SubfoldersError(v.folder) = NoError
    PROVE  /\ Subfolders(v) \in Seq(VisitType)
           /\ \A x \in ToSet(Subfolders(v)) : /\ tree[x.folder].opens
                                              /\ x.folder \in ToSet(Children(v.folder))
           /\ \A g \in ToSet(Children(v.folder)) :
                 \E x \in ToSet(Subfolders(v)) : x.folder = g
  <1> DEFINE rows == Children(v.folder)
             Pushed(i) == Visit(rows[i], v.path \o DisplayPath(rows[i]), v.depth + 1)
  <1>1. v.folder \in Folders /\ v.path \in Seq(Piece) /\ v.depth \in Nat
    BY DEF VisitType
  <1>2. rows \in Seq(Folders)
    BY <1>1, ChildrenType
  <1>3. /\ DOMAIN rows = 1..Len(rows) /\ Len(rows) \in Nat
        /\ \A i \in 1..Len(rows) : rows[i] \in Folders
    BY <1>2, LenProperties, ElementOfSeq
  <1>4. Subfolders(v) = [i \in DOMAIN rows |-> Pushed(i)]
    BY DEF Subfolders
  <1>5. \A i \in DOMAIN rows : tree[rows[i]].opens
    BY DEF SubfoldersError, NoError
  <1> HIDE DEF rows
  <1>6. ASSUME NEW i \in 1..Len(rows) PROVE Pushed(i) \in VisitType
    <2>1. rows[i] \in Folders /\ DisplayPath(rows[i]) \in Seq(Piece)
      BY <1>3, DisplayPathType
    <2>2. v.path \o DisplayPath(rows[i]) \in Seq(Piece)
      BY <1>1, <2>1, ConcatProperties
    <2>. QED  BY <1>1, <2>1, <2>2 DEF Visit, VisitType
  <1>7. Subfolders(v) \in Seq(VisitType)
    <2>1. Subfolders(v) \in [1..Len(rows) -> VisitType]
      BY <1>3, <1>4, <1>6
    <2>. QED  BY <1>3, <2>1
  <1>8. \A i \in DOMAIN rows : Pushed(i).folder = rows[i]
    BY DEF Visit
  <1> HIDE DEF Pushed
  <1>9. ASSUME NEW x \in ToSet(Subfolders(v))
        PROVE  tree[x.folder].opens /\ x.folder \in ToSet(rows)
    <2>1. PICK i \in DOMAIN rows : x = Pushed(i)
      BY <1>4 DEF ToSet
    <2>. QED  BY <1>5, <1>8, <2>1 DEF ToSet
  <1>10. ASSUME NEW g \in ToSet(rows) PROVE \E x \in ToSet(Subfolders(v)) : x.folder = g
    <2>1. PICK i \in DOMAIN rows : g = rows[i]
      BY DEF ToSet
    <2>2. Pushed(i) \in ToSet(Subfolders(v)) /\ Pushed(i).folder = g
      BY <1>4, <1>8, <2>1 DEF ToSet
    <2>. QED  BY <2>2
  <1>. QED  BY <1>7, <1>9, <1>10 DEF rows

-----------------------------------------------------------------------------
(* What the walk holds has been opened: the type invariant says so of the  *)
(* folders handed out, and this of those that will be.                     *)
OpenedInv == /\ tree[current.folder].opens
             /\ \A v \in ToSet(pending) : tree[v.folder].opens

LEMMA NextProperties ==
    ASSUME WalkTypeOK, OpenedInv, pending # <<>>
    PROVE  /\ Head(pending) \in VisitType /\ Tail(pending) \in Seq(VisitType)
           /\ ToSet(pending) = {Head(pending)} \cup ToSet(Tail(pending))
           /\ tree[Head(pending).folder].opens
  <1>1. pending \in Seq(VisitType)
    BY DEF WalkTypeOK
  <1>2. Head(pending) \in VisitType /\ Tail(pending) \in Seq(VisitType)
    BY <1>1, PopProperties
  <1>3. ToSet(pending) = {Head(pending)} \cup ToSet(Tail(pending))
    BY <1>1, PopMembers
  <1>. QED  BY <1>2, <1>3 DEF OpenedInv

LEMMA WalkInvariant == WalkSafety => [](WalkTypeOK /\ OpenedInv)
  <1>1. WalkInit => WalkTypeOK /\ OpenedInv
    <2> SUFFICES ASSUME WalkInit PROVE WalkTypeOK /\ OpenedInv
      OBVIOUS
    <2>1. PICK c \in Calls : WalkStarts(c)
      BY DEF WalkInit
    <2>2. /\ tree \in [Folders -> Folder] /\ start \in Folders /\ tree[start].opens
          /\ strict \in BOOLEAN /\ recurse \in BOOLEAN
      BY <2>1, CallsAssumption DEF WalkStarts
    <2>3. Visit(start, DisplayPath(start), 0) \in VisitType
      BY <2>2, DisplayPathType DEF Visit, VisitType
    <2>4. /\ pending = <<Visit(start, DisplayPath(start), 0)>> /\ current = pending[1]
          /\ current.folder = start /\ ToSet(pending) = {current}
      BY <2>1 DEF WalkStarts, Visit, ToSet
    <2>5. /\ pending \in Seq(VisitType) /\ current \in VisitType
          /\ yielded \in Seq(VisitType) /\ seen = {} /\ gpc = "next" /\ gerror = NoError
      BY <2>1, <2>3, EmptySeq DEF WalkStarts
    <2>. QED  BY <2>2, <2>4, <2>5 DEF WalkTypeOK, OpenedInv
  <1>2. WalkTypeOK /\ OpenedInv /\ [WalkNext]_walkvars => (WalkTypeOK /\ OpenedInv)'
    <2> SUFFICES ASSUME WalkTypeOK, OpenedInv, [WalkNext]_walkvars
                 PROVE  (WalkTypeOK /\ OpenedInv)'
      OBVIOUS
    <2>1. CASE YieldFolder
      <3>1. /\ Head(pending) \in VisitType /\ Tail(pending) \in Seq(VisitType)
            /\ ToSet(pending) = {Head(pending)} \cup ToSet(Tail(pending))
            /\ tree[Head(pending).folder].opens
        BY <2>1, NextProperties DEF YieldFolder
      <3>2. Append(yielded, Head(pending)) \in Seq(VisitType)
        BY <3>1, AppendProperties DEF WalkTypeOK
      <3>3. Head(pending).folder \in {f \in Folders : tree[f].opens}
        BY <3>1 DEF VisitType
      <3>4. WalkTypeOK'
        BY <2>1, <3>1, <3>2, <3>3 DEF YieldFolder, WalkTypeOK, call
      <3>5. OpenedInv'
        BY <2>1, <3>1 DEF YieldFolder, OpenedInv, call
      <3>. QED  BY <3>4, <3>5
    <2>2. CASE RefuseFolder \/ RaiseChildren
      <3>1. SubfoldersError(current.folder) \in Refusals \cup {NoError}
        BY ErrorType
      <3>. QED  BY <2>2, <3>1 DEF RefuseFolder, RaiseChildren, RefuseWalk, WalkTypeOK,
                                  OpenedInv, Refusals, call
    <2>3. CASE Expand
      <3>1. /\ Subfolders(current) \in Seq(VisitType)
            /\ \A x \in ToSet(Subfolders(current)) : tree[x.folder].opens
        BY <2>3, SubfoldersProperties DEF Expand, WalkTypeOK
      <3>2. /\ pending' \in Seq(VisitType)
            /\ ToSet(pending') = ToSet(Subfolders(current)) \cup ToSet(pending)
        BY <2>3, <3>1, PushMembers DEF Expand, WalkTypeOK
      <3>3. WalkTypeOK'
        BY <2>3, <3>2 DEF Expand, WalkTypeOK, call
      <3>4. OpenedInv'
        BY <2>3, <3>1, <3>2 DEF Expand, OpenedInv, call
      <3>. QED  BY <3>3, <3>4
    <2>4. CASE SkipChildren \/ FinishWalk
      BY <2>4 DEF SkipChildren, FinishWalk, WalkTypeOK, OpenedInv, call
    <2>5. CASE UNCHANGED walkvars
      BY <2>5 DEF walkvars, WalkTypeOK, OpenedInv, call
    <2>. QED  BY <2>1, <2>2, <2>3, <2>4, <2>5 DEF WalkNext
  <1>. QED  BY <1>1, <1>2, PTL DEF WalkSafety

(* Every variable of the walk keeps its type, and no folder is handed out  *)
(* that has not been opened.                                               *)
THEOREM WalkTypeCorrect == WalkSpec => []WalkTypeOK
  BY WalkInvariant, PTL DEF WalkSpec, WalkSafety

-----------------------------------------------------------------------------
(* What has been handed out, and what is still pending, is all that the    *)
(* walk can come to: every edge out of a folder handed out leads to one of *)
(* them, but for the folder at hand, whose children are listed next.  A    *)
(* walk of one folder has nothing pending once it is handed out.           *)
Held == {v.folder : v \in ToSet(pending)}

FrontierInv ==
    /\ gpc = "expand" => current.folder \in seen
    /\ gpc \in {"next", "expand"} =>
        /\ seen \subseteq Walk!Reachable /\ Held \subseteq Walk!Reachable
        /\ start \in seen \cup Held
        /\ \A e \in Edges : e[1] \in seen =>
              e[2] \in seen \cup Held \/ (gpc = "expand" /\ e[1] = current.folder)

LEMMA EdgesProperties ==
    ASSUME tree \in [Folders -> Folder]
    PROVE  /\ \A e \in Edges : /\ e \in Folders \X Folders /\ recurse
                               /\ SubfoldersError(e[1]) = NoError
                               /\ e[2] \in ToSet(Children(e[1]))
           /\ \A f \in Folders : \A g \in ToSet(Children(f)) :
                 (recurse /\ SubfoldersError(f) = NoError) => <<f, g>> \in Edges
  <1>1. ASSUME NEW f \in Folders PROVE ToSet(Children(f)) \in SUBSET Folders
    BY <1>1, ChildrenType, ToSetType
  <1>2. ASSUME NEW e \in Edges
        PROVE  /\ e \in Folders \X Folders /\ recurse
               /\ SubfoldersError(e[1]) = NoError
               /\ e[2] \in ToSet(Children(e[1]))
    <2>1. PICK f \in Folders : e \in {f} \X ToSet(WalkedChildren(f))
      BY DEF Edges
    <2>2. recurse /\ SubfoldersError(f) = NoError
      BY <2>1 DEF WalkedChildren, ToSet
    <2>. QED  BY <1>1, <2>1, <2>2 DEF WalkedChildren
  <1>3. ASSUME NEW f \in Folders, NEW g \in ToSet(Children(f)),
               recurse, SubfoldersError(f) = NoError
        PROVE  <<f, g>> \in Edges
    BY <1>3 DEF Edges, WalkedChildren
  <1>. QED  BY <1>2, <1>3

LEMMA EdgeReachable ==
    ASSUME tree \in [Folders -> Folder], NEW e \in Edges, e[1] \in Walk!Reachable
    PROVE  e[2] \in Walk!Reachable
  <1>1. e[2] \in Folders
    BY EdgesProperties
  <1> HIDE DEF Edges
  <1>. QED  BY <1>1 DEF Walk!Reachable, Walk!Closed

LEMMA WalkRefinement == WalkSafety => Walk!Spec
  <1>1. WalkInit => FrontierInv /\ Walk!Init
    <2> SUFFICES ASSUME WalkInit PROVE FrontierInv /\ Walk!Init
      OBVIOUS
    <2>1. PICK c \in Calls : WalkStarts(c)
      BY DEF WalkInit
    <2>2. tree \in [Folders -> Folder] /\ start \in Folders
      BY <2>1, CallsAssumption DEF WalkStarts
    <2>3. Held = {start} /\ seen = {} /\ gpc = "next"
      <3>1. ToSet(pending) = {Visit(start, DisplayPath(start), 0)}
        BY <2>1 DEF WalkStarts, ToSet
      <3>. QED  BY <2>1, <3>1 DEF Held, Visit, WalkStarts
    <2>4. start \in Walk!Reachable
      BY <2>2 DEF Walk!Reachable, Walk!Closed
    <2>5. Edges \in SUBSET (Folders \X Folders)
      BY <2>2, EdgesProperties
    <2>. QED  BY <2>2, <2>3, <2>4, <2>5 DEF FrontierInv, Walk!Init, Status
  <1>2. WalkTypeOK /\ OpenedInv /\ FrontierInv /\ [WalkNext]_walkvars
            => FrontierInv' /\ [Walk!Next]_(Walk!vars)
    <2> SUFFICES ASSUME WalkTypeOK, OpenedInv, FrontierInv, [WalkNext]_walkvars
                 PROVE  FrontierInv' /\ [Walk!Next]_(Walk!vars)
      OBVIOUS
    <2> DEFINE rest == {v.folder : v \in ToSet(Tail(pending))}
    <2>1. UNCHANGED call
      BY DEF WalkNext, YieldFolder, RefuseFolder, RefuseWalk, Expand, SkipChildren,
             RaiseChildren, FinishWalk, walkvars
    <2>2. Edges' = Edges /\ Walk!Reachable' = Walk!Reachable
      <3>1. Edges' = Edges
        BY <2>1 DEF call, Edges, WalkedChildren, SubfoldersError, Children
      <3>. QED  BY <2>1, <3>1 DEF call, Walk!Reachable, Walk!Closed
    <2>3. tree \in [Folders -> Folder] /\ UNCHANGED <<start, Edges>>
      BY <2>1, <2>2 DEF WalkTypeOK, call
    <2>4. CASE YieldFolder
      <3> DEFINE f == Head(pending).folder
      <3>1. /\ gpc = "next" /\ gpc' = "expand" /\ f \notin seen /\ current' = Head(pending)
            /\ seen' = seen \cup {f} /\ pending' = Tail(pending)
        BY <2>4 DEF YieldFolder, VisitRefused, AddRefused
      <3>2. Held = {f} \cup rest /\ Held' = rest
        BY <2>4, <3>1, NextProperties DEF YieldFolder, Held
      <3>3. f \in Walk!Reachable /\ rest \subseteq Walk!Reachable
        BY <3>1, <3>2 DEF FrontierInv
      <3>4. current'.folder = f
        BY <3>1
      <3> HIDE DEF rest, f
      <3>5. FrontierInv'
        BY <2>2, <2>3, <3>1, <3>2, <3>3, <3>4 DEF FrontierInv
      <3>. QED  BY <2>3, <3>1, <3>3, <3>5
                DEF Status, Walk!Next, Walk!Visit, Walk!ReadOnly
    <2>5. CASE RefuseFolder \/ RaiseChildren
      <3>1. gpc \in {"next", "expand"} /\ gpc' = "refused" /\ UNCHANGED seen
        BY <2>5 DEF RefuseFolder, RaiseChildren, RefuseWalk
      <3>. QED  BY <2>3, <3>1 DEF FrontierInv, Status, Walk!Next, Walk!Refuse, Walk!ReadOnly
    <2>6. CASE Expand
      <3> DEFINE f == current.folder
                 new == {x.folder : x \in ToSet(Subfolders(current))}
      <3>1. /\ gpc = "expand" /\ gpc' = "next" /\ recurse /\ SubfoldersError(f) = NoError
            /\ f \in seen /\ f \in Folders /\ UNCHANGED seen
        BY <2>6 DEF Expand, FrontierInv, WalkTypeOK, VisitType
      <3>2. /\ Subfolders(current) \in Seq(VisitType)
            /\ new = ToSet(Children(f))
        BY <3>1, SubfoldersProperties, ZenonT(60) DEF WalkTypeOK
      <3>3. ToSet(pending') = ToSet(Subfolders(current)) \cup ToSet(pending)
        BY <2>6, <3>2, PushMembers DEF Expand, WalkTypeOK
      <3>4. Held' = new \cup Held
        BY <3>3 DEF Held
      <3>5. \A g \in new : <<f, g>> \in Edges
        BY <2>3, <3>1, <3>2, EdgesProperties
      <3>6. \A e \in Edges : e[1] = f => e[2] \in new
        BY <2>3, <3>2, EdgesProperties
      <3>7. new \subseteq Walk!Reachable
        <4>1. f \in Walk!Reachable
          BY <3>1 DEF FrontierInv
        <4>2. ASSUME NEW g \in new PROVE g \in Walk!Reachable
          <5>1. <<f, g>> \in Edges
            BY <3>5, <4>2
          <5>2. <<f, g>>[1] \in Walk!Reachable
            BY <4>1
          <5>3. <<f, g>>[2] \in Walk!Reachable
            BY <2>3, <5>1, <5>2, EdgeReachable
          <5>. QED  BY <5>3
        <4>. QED  BY <4>2
      <3> HIDE DEF new
      <3>8. FrontierInv'
        BY <2>2, <2>3, <3>1, <3>4, <3>6, <3>7 DEF FrontierInv
      <3>. QED  BY <2>3, <3>1, <3>8 DEF Status, Walk!vars
    <2>7. CASE SkipChildren
      <3>1. \A e \in Edges : e[1] # current.folder
        BY <2>3, <2>7, EdgesProperties DEF SkipChildren
      <3>2. gpc = "expand" /\ gpc' = "next" /\ UNCHANGED <<seen, pending>> /\ Held' = Held
        BY <2>7 DEF SkipChildren, Held
      <3>3. FrontierInv'
        BY <2>2, <2>3, <3>1, <3>2 DEF FrontierInv
      <3>. QED  BY <2>3, <3>2, <3>3 DEF Status, Walk!vars
    <2>8. CASE FinishWalk
      <3>1. /\ gpc \in {"next", "expand"} /\ gpc' = "done" /\ UNCHANGED seen
        BY <2>8 DEF FinishWalk
      <3>2. Walk!Closed(seen)
        <4>1. CASE gpc = "next" /\ pending = <<>>
          <5>1. Held = {}
            BY <4>1 DEF Held, ToSet
          <5>. QED  BY <4>1, <5>1 DEF FrontierInv, Walk!Closed
        <4>2. CASE gpc = "expand" /\ ~recurse
          <5>1. \A e \in Edges : FALSE
            BY <2>3, <4>2, EdgesProperties
          <5>2. Walk!Closed({start}) /\ {start} \subseteq Folders
            BY <5>1 DEF Walk!Closed, WalkTypeOK
          <5>3. Walk!Reachable \subseteq {start}
            BY <5>2 DEF Walk!Reachable
          <5>4. start \in seen
            BY <4>2, <5>3 DEF FrontierInv
          <5>. QED  BY <5>1, <5>4 DEF Walk!Closed
        <4>. QED  BY <2>8, <4>1, <4>2 DEF FinishWalk
      <3>3. seen = Walk!Reachable
        BY <3>1, <3>2 DEF FrontierInv, Walk!Reachable, WalkTypeOK
      <3>. QED  BY <2>3, <3>1, <3>3 DEF FrontierInv, Status, Walk!Next, Walk!Exhaust, Walk!ReadOnly
    <2>9. CASE UNCHANGED walkvars
      BY <2>2, <2>3, <2>9 DEF walkvars, FrontierInv, Held, Status, Walk!vars
    <2>. QED  BY <2>4, <2>5, <2>6, <2>7, <2>8, <2>9 DEF WalkNext
  <1>. QED  BY <1>1, <1>2, WalkInvariant, PTL DEF WalkSafety, Walk!Spec

(* The folder walk implements Traversal: no folder is handed out twice,    *)
(* none that cannot be reached through folders whose children open, and a  *)
(* walk that ends has handed out all of them.                              *)
THEOREM WalkImplementsTraversal == WalkSpec => ImplementsTraversal
  BY WalkRefinement, PTL DEF WalkSpec, WalkSafety, ImplementsTraversal

-----------------------------------------------------------------------------
(* The pre-order of what is under a folder, as FolderPaths has it, exists:  *)
(* it is a recursion on the levels that are left.                          *)
Levels == MaxFolderDepth + 1
Entry == [folder : Folders, depth : Int]
EntryAt(f, d) == [folder |-> f, depth |-> d]
EntryOf(v) == EntryAt(v.folder, v.depth)

IsBelow(below) ==
    below = [n \in 0..Levels |->
                [f \in Folders |->
                    <<EntryAt(f, Levels - n)>> \o
                    (IF n = 0 THEN <<>>
                     ELSE FlattenSeq([i \in DOMAIN WalkedChildren(f) |->
                                        below[n - 1][WalkedChildren(f)[i]]]))]]
Below == CHOOSE below : IsBelow(below)

LEMMA LevelsType == MaxFolderDepth \in Nat /\ Levels \in Nat /\ MaxFolders \in Nat
  BY LimitsAssumption DEF Levels

LEMMA WalkedType ==
    ASSUME tree \in [Folders -> Folder], NEW f \in Folders
    PROVE  WalkedChildren(f) \in Seq(Folders)
  BY ChildrenType, EmptySeq DEF WalkedChildren

LEMMA BelowExists ==
    ASSUME tree \in [Folders -> Folder]
    PROVE  \E below \in [0..Levels -> [Folders -> Seq(Entry)]] : IsBelow(below)
  <1> DEFINE S == [Folders -> Seq(Entry)]
             Depth(n) == Levels - n
             More(n, g, f) == <<EntryAt(f, Depth(n))>> \o FlattenSeq(Mapped(WalkedChildren(f), g))
  <1>1. Levels \in Nat /\ \A n \in Nat : Depth(n) \in Int
    BY LevelsType
  <1> HIDE DEF Depth
  <1>2. \A f \in Folders, n \in Nat : EntryAt(f, Depth(n)) \in Entry
    BY <1>1 DEF Entry, EntryAt
  <1>3. ASSUME NEW n \in Nat, NEW g \in S, NEW f \in Folders PROVE More(n, g, f) \in Seq(Entry)
    <2>1. Mapped(WalkedChildren(f), g) \in Seq(Seq(Entry))
      BY WalkedType, MappedType
    <2>2. FlattenSeq(Mapped(WalkedChildren(f), g)) \in Seq(Entry)
      BY <2>1, FlatType
    <2>3. <<EntryAt(f, Depth(n))>> \in Seq(Entry)
      BY <1>2
    <2>. QED  BY <2>2, <2>3, ConcatProperties
  <1> HIDE DEF More
  <1>4. PICK base \in S : base = [f \in Folders |-> <<EntryAt(f, Levels)>>]
    <2>1. \A f \in Folders : <<EntryAt(f, Levels)>> \in Seq(Entry)
      BY <1>1 DEF Entry, EntryAt
    <2>. QED  BY <2>1
  <1>5. PICK step \in [Nat -> [S -> S]] :
           step = [n \in Nat |-> [g \in S |-> [f \in Folders |-> More(n, g, f)]]]
    BY <1>3
  <1>6. PICK below \in [0..Levels -> S] : IsRecursion(below, base, step, Levels)
    BY <1>1, RecursionExists
  <1>7. ASSUME NEW n \in 0..Levels
        PROVE  below[n] = [f \in Folders |->
                    <<EntryAt(f, Levels - n)>> \o
                    (IF n = 0 THEN <<>>
                     ELSE FlattenSeq([i \in DOMAIN WalkedChildren(f) |->
                                        below[n - 1][WalkedChildren(f)[i]]]))]
    <2>1. below[n] = IF n = 0 THEN base ELSE step[n][below[n - 1]]
      BY <1>6 DEF IsRecursion
    <2>2. CASE n = 0
      <3>1. \A f \in Folders : <<EntryAt(f, Levels)>> \o <<>> = <<EntryAt(f, Levels)>>
        <4>1. \A f \in Folders : <<EntryAt(f, Levels)>> \in Seq(Entry)
          BY <1>1 DEF Entry, EntryAt
        <4>. QED  BY <4>1, ConcatEmptySeq
      <3>2. Levels - n = Levels
        BY <1>1, <2>2
      <3>. QED  BY <1>4, <2>1, <2>2, <3>1, <3>2
    <2>3. CASE n # 0
      <3>1. n \in Nat /\ n - 1 \in 0..Levels
        BY <1>1, <2>3
      <3>2. below[n - 1] \in S
        BY <3>1
      <3>3. below[n] = [f \in Folders |-> More(n, below[n - 1], f)]
        BY <1>5, <2>1, <2>3, <3>1, <3>2
      <3>. QED  BY <2>3, <3>3 DEF More, Depth, Mapped
    <2>. QED  BY <2>2, <2>3
  <1>8. IsBelow(below)
    <2>1. below = [n \in 0..Levels |-> below[n]]
      OBVIOUS
    <2>. QED  BY <1>7, <2>1 DEF IsBelow
  <1>. QED  BY <1>8

LEMMA BelowProperties ==
    ASSUME tree \in [Folders -> Folder]
    PROVE  IsBelow(Below) /\ Below \in [0..Levels -> [Folders -> Seq(Entry)]]
  <1> DEFINE bad == {n \in 0..Levels : Below[n] \notin [Folders -> Seq(Entry)]}
  <1>1. IsBelow(Below) /\ Levels \in Nat
    BY BelowExists, LevelsType DEF Below
  <1>2. ASSUME bad # {} PROVE FALSE
    <2>1. PICK n \in bad : \A k \in bad : n <= k
      <3>1. bad \in SUBSET Nat
        BY <1>1
      <3>. QED  BY <1>2, <3>1, LeastElement
    <2>2. ASSUME NEW f \in Folders
          PROVE  <<EntryAt(f, Levels - n)>> \o
                    (IF n = 0 THEN <<>>
                     ELSE FlattenSeq([i \in DOMAIN WalkedChildren(f) |->
                                        Below[n - 1][WalkedChildren(f)[i]]])) \in Seq(Entry)
      <3>1. Levels - n \in Int
        BY <1>1
      <3>2. <<EntryAt(f, Levels - n)>> \in Seq(Entry)
        BY <3>1 DEF Entry, EntryAt
      <3>3. CASE n = 0
        BY <3>2, <3>3, ConcatEmptySeq
      <3>4. CASE n # 0
        <4>1. n - 1 \in 0..Levels /\ ~(n <= n - 1)
          BY <1>1, <2>1, <3>4
        <4>2. Below[n - 1] \in [Folders -> Seq(Entry)]
          BY <2>1, <4>1
        <4>3. FlattenSeq(Mapped(WalkedChildren(f), Below[n - 1])) \in Seq(Entry)
          BY <4>2, WalkedType, MappedType, FlatType
        <4>. QED  BY <3>2, <3>4, <4>3, ConcatProperties DEF Mapped
      <3>. QED  BY <3>3, <3>4
    <2>3. Below[n] = [f \in Folders |->
                <<EntryAt(f, Levels - n)>> \o
                    (IF n = 0 THEN <<>>
                     ELSE FlattenSeq([i \in DOMAIN WalkedChildren(f) |->
                                        Below[n - 1][WalkedChildren(f)[i]]]))]
      BY <1>1, <2>1 DEF IsBelow
    <2>4. Below[n] \in [Folders -> Seq(Entry)]
      BY <2>2, <2>3
    <2>. QED  BY <2>1, <2>4
  <1>3. Below = [n \in 0..Levels |-> Below[n]]
    BY <1>1 DEF IsBelow
  <1>4. \A n \in 0..Levels : Below[n] \in [Folders -> Seq(Entry)]
    BY <1>2
  <1>. QED  BY <1>1, <1>3, <1>4

LEMMA PreorderIs == Preorder = Below[Levels][start]
  BY DEF Preorder, Below, IsBelow, Levels, EntryAt

-----------------------------------------------------------------------------
(* What the folders on the stack still stand for.                          *)
WalkedVisits(v) ==
    IF recurse /\ SubfoldersError(v.folder) = NoError THEN Subfolders(v) ELSE <<>>

Pre == [v \in VisitType |-> IF v.depth <= Levels THEN Below[Levels - v.depth][v.folder] ELSE <<>>]
Ahead(vs) == FlattenSeq(Mapped(vs, Pre))

LEMMA PreType ==
    ASSUME tree \in [Folders -> Folder]
    PROVE  /\ Pre \in [VisitType -> Seq(Entry)]
           /\ \A vs \in Seq(VisitType) : Ahead(vs) \in Seq(Entry)
  <1>1. ASSUME NEW v \in VisitType
        PROVE  (IF v.depth <= Levels THEN Below[Levels - v.depth][v.folder] ELSE <<>>) \in Seq(Entry)
    <2>1. v.depth \in Nat /\ v.folder \in Folders /\ Levels \in Nat
      BY LevelsType DEF VisitType
    <2>2. CASE v.depth <= Levels
      <3>1. Levels - v.depth \in 0..Levels
        BY <2>1, <2>2
      <3>2. Below[Levels - v.depth] \in [Folders -> Seq(Entry)]
        BY <3>1, BelowProperties
      <3>. QED  BY <2>1, <2>2, <3>2
    <2>. QED  BY <2>2, EmptySeq
  <1>2. Pre \in [VisitType -> Seq(Entry)]
    BY <1>1 DEF Pre
  <1>. QED  BY <1>2, MappedType, FlatType DEF Ahead

LEMMA AheadEmpty == Ahead(<<>>) = <<>>
  BY MappedEmpty, FlatEmpty DEF Ahead

LEMMA AheadHead ==
    ASSUME tree \in [Folders -> Folder], NEW vs \in Seq(VisitType), vs # <<>>
    PROVE  Ahead(vs) = Pre[Head(vs)] \o Ahead(Tail(vs))
  <1>1. Mapped(vs, Pre) = <<Pre[Head(vs)]>> \o Mapped(Tail(vs), Pre)
    BY PreType, MappedHead
  <1>2. Head(vs) \in VisitType /\ Tail(vs) \in Seq(VisitType)
    BY PopProperties
  <1>3. Pre[Head(vs)] \in Seq(Entry) /\ Mapped(Tail(vs), Pre) \in Seq(Seq(Entry))
    BY <1>2, PreType, MappedType
  <1>4. PICK ss \in Seq(Seq(Entry)) :
           ss = Mapped(vs, Pre) /\ ss # <<>> /\ Head(ss) = Pre[Head(vs)]
           /\ Tail(ss) = Mapped(Tail(vs), Pre)
    BY <1>1, <1>3, ConsIs
  <1>5. FlattenSeq(ss) = Head(ss) \o FlattenSeq(Tail(ss))
    BY <1>4, FlatHead
  <1>. QED  BY <1>4, <1>5 DEF Ahead

LEMMA AheadConcat ==
    ASSUME tree \in [Folders -> Folder], NEW vs \in Seq(VisitType), NEW us \in Seq(VisitType)
    PROVE  Ahead(vs \o us) = Ahead(vs) \o Ahead(us)
  <1>1. Mapped(vs \o us, Pre) = Mapped(vs, Pre) \o Mapped(us, Pre)
    BY PreType, MappedConcat
  <1>2. Mapped(vs, Pre) \in Seq(Seq(Entry)) /\ Mapped(us, Pre) \in Seq(Seq(Entry))
    BY PreType, MappedType
  <1>. QED  BY <1>1, <1>2, FlatConcat DEF Ahead

LEMMA BelowStep ==
    ASSUME tree \in [Folders -> Folder], NEW n \in 0..Levels, NEW f \in Folders
    PROVE  /\ n = 0 => Below[n][f] = <<EntryAt(f, Levels)>> \o <<>>
           /\ n # 0 => /\ n - 1 \in 0..Levels /\ Below[n - 1] \in [Folders -> Seq(Entry)]
                       /\ Below[n][f] = <<EntryAt(f, Levels - n)>>
                                          \o FlattenSeq(Mapped(WalkedChildren(f), Below[n - 1]))
                       /\ FlattenSeq(Mapped(WalkedChildren(f), Below[n - 1])) \in Seq(Entry)
  <1>1. Levels \in Nat /\ IsBelow(Below) /\ Below \in [0..Levels -> [Folders -> Seq(Entry)]]
    BY LevelsType, BelowProperties
  <1>2. Below[n] = [g \in Folders |->
                <<EntryAt(g, Levels - n)>> \o
                    (IF n = 0 THEN <<>>
                     ELSE FlattenSeq([i \in DOMAIN WalkedChildren(g) |->
                                        Below[n - 1][WalkedChildren(g)[i]]]))]
    BY <1>1 DEF IsBelow
  <1>3. n = 0 => Levels - n = Levels
    BY <1>1
  <1>4. ASSUME n # 0
        PROVE  /\ n - 1 \in 0..Levels /\ Below[n - 1] \in [Folders -> Seq(Entry)]
               /\ FlattenSeq(Mapped(WalkedChildren(f), Below[n - 1])) \in Seq(Entry)
    <2>1. n - 1 \in 0..Levels
      BY <1>1, <1>4
    <2>2. Below[n - 1] \in [Folders -> Seq(Entry)]
      BY <1>1, <2>1
    <2>. QED  BY <2>1, <2>2, WalkedType, MappedType, FlatType
  <1>. QED  BY <1>2, <1>3, <1>4 DEF Mapped

(* A folder, and then what is under it. *)
LEMMA PreStarts ==
    ASSUME tree \in [Folders -> Folder], NEW v \in VisitType, v.depth <= Levels
    PROVE  \E rest \in Seq(Entry) : Pre[v] = <<EntryOf(v)>> \o rest
  <1>1. v.folder \in Folders /\ v.depth \in Nat /\ Levels \in Nat
    BY LevelsType DEF VisitType
  <1>2. PICK n \in 0..Levels : n = Levels - v.depth
    BY <1>1
  <1>3. Pre[v] = Below[n][v.folder] /\ Levels - n = v.depth /\ (n = 0 => v.depth = Levels)
    BY <1>1, <1>2 DEF Pre
  <1>4. CASE n = 0
    BY <1>1, <1>3, <1>4, BelowStep, EmptySeq DEF EntryOf
  <1>5. CASE n # 0
    BY <1>1, <1>3, <1>5, BelowStep DEF EntryOf
  <1>. QED  BY <1>4, <1>5

LEMMA WalkedVisitsProperties ==
    ASSUME tree \in [Folders -> Folder], NEW v \in VisitType
    PROVE  /\ WalkedVisits(v) \in Seq(VisitType)
           /\ DOMAIN WalkedVisits(v) = DOMAIN WalkedChildren(v.folder)
           /\ \A i \in DOMAIN WalkedVisits(v) :
                 WalkedVisits(v)[i] = Visit(WalkedChildren(v.folder)[i],
                                            v.path \o DisplayPath(WalkedChildren(v.folder)[i]),
                                            v.depth + 1)
  <1>1. CASE recurse /\ SubfoldersError(v.folder) = NoError
    <2>1. Subfolders(v) \in Seq(VisitType)
      BY <1>1, SubfoldersProperties
    <2>2. WalkedVisits(v) = Subfolders(v) /\ WalkedChildren(v.folder) = Children(v.folder)
      BY <1>1 DEF WalkedVisits, WalkedChildren
    <2>. QED  BY <2>1, <2>2 DEF Subfolders
  <1>2. CASE ~(recurse /\ SubfoldersError(v.folder) = NoError)
    <2>1. WalkedVisits(v) = <<>> /\ WalkedChildren(v.folder) = <<>>
      BY <1>2 DEF WalkedVisits, WalkedChildren
    <2>2. \A i : i \notin DOMAIN WalkedVisits(v)
      BY <2>1
    <2>. QED  BY <2>1, <2>2, EmptySeq
  <1>. QED  BY <1>1, <1>2

LEMMA PreUnfolds ==
    ASSUME tree \in [Folders -> Folder], NEW v \in VisitType, v.depth <= MaxFolderDepth
    PROVE  Pre[v] = <<EntryOf(v)>> \o Ahead(WalkedVisits(v))
  <1>1. v.folder \in Folders /\ v.depth \in Nat /\ Levels \in Nat /\ MaxFolderDepth \in Nat
    BY LevelsType DEF VisitType
  <1>2. PICK n \in 0..Levels :
           n = Levels - v.depth /\ n # 0 /\ Levels - n = v.depth /\ n - 1 = Levels - (v.depth + 1)
    BY <1>1 DEF Levels
  <1>3. v.depth <= Levels /\ v.depth + 1 <= Levels
    BY <1>1 DEF Levels
  <1>4. Pre[v] = Below[n][v.folder]
    BY <1>2, <1>3 DEF Pre
  <1>5. ASSUME NEW i \in DOMAIN WalkedVisits(v)
        PROVE  Pre[WalkedVisits(v)[i]] = Below[n - 1][WalkedChildren(v.folder)[i]]
    <2>1. WalkedVisits(v)[i] \in VisitType
      BY WalkedVisitsProperties, LenProperties, ElementOfSeq
    <2>2. WalkedVisits(v)[i].folder = WalkedChildren(v.folder)[i]
          /\ WalkedVisits(v)[i].depth = v.depth + 1
      <3>1. WalkedVisits(v)[i] = Visit(WalkedChildren(v.folder)[i],
                                       v.path \o DisplayPath(WalkedChildren(v.folder)[i]),
                                       v.depth + 1)
        BY WalkedVisitsProperties
      <3>. QED  BY <3>1 DEF Visit
    <2>. QED  BY <1>2, <1>3, <2>1, <2>2 DEF Pre
  <1>6. Mapped(WalkedVisits(v), Pre) = Mapped(WalkedChildren(v.folder), Below[n - 1])
    BY <1>5, WalkedVisitsProperties DEF Mapped
  <1>. QED  BY <1>1, <1>2, <1>4, <1>6, BelowStep DEF Ahead, EntryOf

LEMMA EntryType == \A v \in VisitType : EntryOf(v) \in Entry
  BY DEF VisitType, EntryOf, EntryAt, Entry

Entries == [v \in VisitType |-> EntryOf(v)]

LEMMA FoldersOfProperties ==
    ASSUME NEW s \in Seq(VisitType)
    PROVE  /\ FoldersOf(s) \in Seq(Entry) /\ Len(FoldersOf(s)) = Len(s)
           /\ \A i \in 1..Len(s) : FoldersOf(s)[i] = EntryOf(s[i])
           /\ \A x \in VisitType : FoldersOf(Append(s, x)) = Append(FoldersOf(s), EntryOf(x))
  <1>1. \A v \in VisitType : EntryOf(v) \in Entry
    BY EntryType
  <1>2. Entries \in [VisitType -> Entry]
    BY <1>1 DEF Entries
  <1>3. ASSUME NEW t \in Seq(VisitType) PROVE FoldersOf(t) = Mapped(t, Entries)
    <2>1. DOMAIN t = 1..Len(t) /\ \A i \in DOMAIN t : t[i] \in VisitType
      BY LenProperties, ElementOfSeq
    <2>. QED  BY <2>1 DEF FoldersOf, Mapped, Entries, EntryOf, EntryAt
  <1>4. Mapped(s, Entries) \in Seq(Entry) /\ IsMapped(Mapped(s, Entries), s, Entries)
    BY <1>2, MappedType
  <1>5. \A i \in 1..Len(s) : Entries[s[i]] = EntryOf(s[i])
    BY ElementOfSeq DEF Entries
  <1>6. ASSUME NEW x \in VisitType PROVE FoldersOf(Append(s, x)) = Append(FoldersOf(s), EntryOf(x))
    <2>1. Append(s, x) \in Seq(VisitType)
      BY AppendProperties
    <2>2. Mapped(Append(s, x), Entries) = Append(Mapped(s, Entries), Entries[x])
      BY <1>2, MappedAppend
    <2>. QED  BY <1>3, <2>1, <2>2 DEF Entries
  <1>. QED  BY <1>3, <1>4, <1>5, <1>6 DEF IsMapped

-----------------------------------------------------------------------------
LEMMA CallStays == ASSUME [WalkNext]_walkvars PROVE UNCHANGED call
  BY DEF WalkNext, YieldFolder, RefuseFolder, RefuseWalk, Expand, SkipChildren,
         RaiseChildren, FinishWalk, walkvars

LEMMA CallReads ==
    ASSUME UNCHANGED call
    PROVE  /\ UNCHANGED <<tree, start, strict, recurse, Preorder, Pre>>
           /\ \A f : WalkedChildren(f)' = WalkedChildren(f)
           /\ \A f : SubfoldersError(f)' = SubfoldersError(f)
           /\ \A f : DisplayPath(f)' = DisplayPath(f)
           /\ Ahead(pending)' = Ahead(pending')
           /\ Ahead(WalkedVisits(current))' = Ahead(WalkedVisits(current'))
           /\ WithinLimits' = WithinLimits /\ AllListed' = AllListed
  <1>1. UNCHANGED <<tree, start, strict, recurse>>
    BY DEF call
  <1>2. /\ \A f : SubfoldersError(f)' = SubfoldersError(f)
        /\ \A f : WalkedChildren(f)' = WalkedChildren(f)
        /\ \A f : DisplayPath(f)' = DisplayPath(f)
    BY <1>1 DEF WalkedChildren, SubfoldersError, Children, DisplayPath
  <1>3. Preorder' = Preorder
    BY <1>1, <1>2, Zenon DEF Preorder
  <1>4. Below' = Below
    BY <1>1, <1>2, Zenon DEF Below, IsBelow
  <1>5. Pre' = Pre
    BY <1>4 DEF Pre
  <1>6. Ahead(pending)' = Ahead(pending')
    BY <1>5 DEF Ahead
  <1>7. Ahead(WalkedVisits(current))' = Ahead(WalkedVisits(current'))
    <2>1. WalkedVisits(current)' = WalkedVisits(current')
      BY <1>1 DEF WalkedVisits, Subfolders, SubfoldersError, Children, DisplayPath
    <2>. QED  BY <1>5, <2>1 DEF Ahead
  <1>8. WithinLimits' = WithinLimits
    BY <1>3 DEF WithinLimits
  <1>9. AllListed' = AllListed
    BY <1>1, <1>2, <1>3 DEF AllListed
  <1>. QED  BY <1>1, <1>2, <1>3, <1>5, <1>6, <1>7, <1>8, <1>9

-----------------------------------------------------------------------------
(* What has been handed out, what hangs below the folder at hand and what  *)
(* the stack stands for are together the whole pre-order.                  *)
OrderInv ==
    /\ gpc = "next" => FoldersOf(yielded) \o Ahead(pending) = Preorder
    /\ gpc = "expand" =>
          FoldersOf(yielded) \o (Ahead(WalkedVisits(current)) \o Ahead(pending)) = Preorder
    /\ gpc = "done" => FoldersOf(yielded) = Preorder
    /\ \E rest \in Seq(Entry) : FoldersOf(yielded) \o rest = Preorder

(* The stack. *)
StackInv ==
    /\ \A v \in ToSet(pending) : v.depth <= Levels
    /\ gpc = "expand" => /\ yielded # <<>> /\ current = yielded[Len(yielded)]
                         /\ current.depth <= MaxFolderDepth
    /\ ~recurse => /\ gpc = "next" => pending # <<>> /\ Tail(pending) = <<>>
                   /\ gpc = "expand" => pending = <<>>
    /\ gpc = "done" => pending = <<>>

(* The cycle guard: no folder is handed out twice, and seen is what was.   *)
OnceInv ==
    /\ seen = {yielded[i].folder : i \in 1..Len(yielded)}
    /\ \A i, j \in 1..Len(yielded) : yielded[i].folder = yielded[j].folder => i = j
    /\ Cardinality(seen) = Len(yielded) /\ Len(yielded) <= MaxFolders
    /\ \A i \in 1..Len(yielded) : yielded[i].depth <= MaxFolderDepth

(* The folders handed out whose children the walk has dealt with. *)
Passed == IF gpc = "expand" THEN 1..(Len(yielded) - 1) ELSE 1..Len(yielded)

VerdictInv ==
    /\ (strict /\ recurse /\ gpc # "refused") =>
           \A i \in Passed : SubfoldersError(yielded[i].folder) = NoError
    /\ gpc = "refused" => ~WithinLimits \/ (strict /\ ~AllListed)
    /\ (gpc = "refused" /\ ~strict) => gerror = "PstLimitError"

(* Where a folder stands in the tree. *)
Kids == [f \in Folders |-> WalkedChildren(f)]
Called == [f \in Folders |-> DisplayPath(f)]
Under(v, i) == /\ v.folder \in ToSet(Kids[yielded[i].folder])
               /\ v.path = yielded[i].path \o Called[v.folder]

PlaceInv ==
    /\ yielded = <<>> => pending = <<Visit(start, DisplayPath(start), 0)>>
    /\ yielded # <<>> =>
          /\ yielded[1] = Visit(start, DisplayPath(start), 0)
          /\ \A v \in ToSet(pending) : \E i \in 1..Len(yielded) : Under(v, i)
    /\ \A j \in 2..Len(yielded) : \E i \in 1..(j - 1) : Under(yielded[j], i)
    /\ \A i \in Passed : \A c \in ToSet(Kids[yielded[i].folder]) :
          \E v \in ToSet(pending) \cup ToSet(yielded) : v.folder = c /\ Under(v, i)

WalkInv == OrderInv /\ StackInv /\ OnceInv /\ VerdictInv /\ PlaceInv

-----------------------------------------------------------------------------
(* What a folder that is handed out adds. *)
LEMMA YieldProperties ==
    ASSUME WalkTypeOK, OpenedInv, YieldFolder, NEW h, h = Head(pending)
    PROVE  /\ h \in VisitType /\ h.folder \in Folders /\ h.depth \in Nat
           /\ Tail(pending) \in Seq(VisitType) /\ pending' = Tail(pending)
           /\ ToSet(pending) = {h} \cup ToSet(pending')
           /\ h.depth <= MaxFolderDepth /\ h.folder \notin seen
           /\ Cardinality(seen) < MaxFolders
           /\ yielded \in Seq(VisitType) /\ yielded' = Append(yielded, h)
           /\ yielded' \in Seq(VisitType) /\ Len(yielded) \in Nat
           /\ Len(yielded') = Len(yielded) + 1 /\ yielded'[Len(yielded) + 1] = h
           /\ \A i \in 1..Len(yielded) : yielded'[i] = yielded[i]
           /\ ToSet(yielded') = ToSet(yielded) \cup {h}
           /\ current' = h /\ gpc = "next" /\ gpc' = "expand" /\ seen' = seen \cup {h.folder}
  <1>1. /\ gpc = "next" /\ pending # <<>> /\ ~VisitRefused(h)
        /\ seen' = seen \cup {h.folder} /\ current' = h /\ pending' = Tail(pending)
        /\ yielded' = Append(yielded, h) /\ gpc' = "expand"
    BY DEF YieldFolder
  <1>2. /\ h \in VisitType /\ Tail(pending) \in Seq(VisitType)
        /\ ToSet(pending) = {h} \cup ToSet(Tail(pending))
    BY <1>1, NextProperties
  <1>3. h.folder \in Folders /\ h.depth \in Nat
    BY <1>2 DEF VisitType
  <1>4. /\ yielded \in Seq(VisitType) /\ seen \in SUBSET Folders
        /\ IsFiniteSet(seen) /\ Cardinality(seen) \in Nat
    BY FoldersAssumption, FS_Subset, FS_CardinalityType DEF WalkTypeOK
  <1>5. h.depth <= MaxFolderDepth /\ h.folder \notin seen /\ Cardinality(seen) < MaxFolders
    BY <1>1, <1>3, <1>4, LevelsType DEF VisitRefused, Exceeds, AddRefused
  <1>6. /\ Append(yielded, h) \in Seq(VisitType) /\ Len(yielded) \in Nat
        /\ Len(Append(yielded, h)) = Len(yielded) + 1 /\ Append(yielded, h)[Len(yielded) + 1] = h
        /\ \A i \in 1..Len(yielded) : Append(yielded, h)[i] = yielded[i]
    BY <1>2, <1>4, AppendProperties, LenProperties
  <1>7. ToSet(Append(yielded, h)) = ToSet(yielded) \cup {h}
    BY <1>2, <1>4, AppendMembers
  <1>. QED  BY <1>1, <1>2, <1>3, <1>4, <1>5, <1>6, <1>7

LEMMA OrderStep ==
    ASSUME WalkTypeOK, OpenedInv, WalkInv, [WalkNext]_walkvars
    PROVE  OrderInv'
  <1> DEFINE F == FoldersOf(yielded)
             T == Tail(pending)
             h == Head(pending)
             below == Ahead(WalkedVisits(current))
  <1>1. tree \in [Folders -> Folder] /\ pending \in Seq(VisitType) /\ current \in VisitType
    BY DEF WalkTypeOK
  <1>2. /\ Preorder' = Preorder /\ Ahead(pending)' = Ahead(pending')
        /\ Ahead(WalkedVisits(current))' = Ahead(WalkedVisits(current'))
    BY CallStays, CallReads
  <1>3. F \in Seq(Entry) /\ (\E rest \in Seq(Entry) : F \o rest = Preorder)
    BY FoldersOfProperties DEF WalkTypeOK, WalkInv, OrderInv
  <1>4. Ahead(pending) \in Seq(Entry) /\ below \in Seq(Entry)
    BY <1>1, PreType, WalkedVisitsProperties
  <1>5. SUFFICES
          /\ gpc' = "next" => FoldersOf(yielded') \o Ahead(pending') = Preorder
          /\ gpc' = "expand" =>
                FoldersOf(yielded') \o (Ahead(WalkedVisits(current')) \o Ahead(pending')) = Preorder
          /\ gpc' = "done" => FoldersOf(yielded') = Preorder
          /\ \E rest \in Seq(Entry) : FoldersOf(yielded') \o rest = Preorder
    BY <1>2 DEF OrderInv
  <1> HIDE DEF F, T, h, below
  <1>6. CASE YieldFolder
    <2>1. /\ h \in VisitType /\ T \in Seq(VisitType) /\ pending' = T /\ current' = h
          /\ h.depth <= MaxFolderDepth /\ yielded' = Append(yielded, h)
          /\ gpc = "next" /\ gpc' = "expand" /\ pending # <<>>
      BY <1>6, YieldProperties DEF h, T, YieldFolder
    <2>2. F \o Ahead(pending) = Preorder
      BY <2>1 DEF F, WalkInv, OrderInv
    <2>3. PICK e \in Entry : e = EntryOf(h)
      BY <2>1, EntryType
    <2>4. PICK A \in Seq(Entry) : A = Ahead(WalkedVisits(h))
      BY <1>1, <2>1, PreType, WalkedVisitsProperties
    <2>5. PICK B \in Seq(Entry) : B = Ahead(T)
      BY <1>1, <2>1, PreType
    <2>6. Ahead(pending) = Pre[h] \o B
      BY <1>1, <2>1, <2>5, AheadHead DEF h, T
    <2>7. Pre[h] = <<e>> \o A
      BY <1>1, <2>1, <2>3, <2>4, PreUnfolds
    <2>8. FoldersOf(yielded') = Append(F, e)
      BY <2>1, <2>3, FoldersOfProperties DEF F, WalkTypeOK
    <2>9. (<<e>> \o A) \o B = <<e>> \o (A \o B) /\ A \o B \in Seq(Entry)
      BY ConcatAssociative, ConcatProperties
    <2>10. Append(F, e) \o (A \o B) = F \o (<<e>> \o (A \o B))
      BY <1>3, <2>9, AppendThenRest, SMTT(30)
    <2>11. FoldersOf(yielded') \o (A \o B) = Preorder
      BY <2>2, <2>6, <2>7, <2>8, <2>9, <2>10
    <2>. QED  BY <2>1, <2>4, <2>5, <2>9, <2>11
  <1>7. ASSUME yielded' = yielded
        PROVE  FoldersOf(yielded') = F /\ (\E rest \in Seq(Entry) : FoldersOf(yielded') \o rest = Preorder)
    BY <1>3, <1>7 DEF F
  <1>8. gpc = "expand" => F \o (below \o Ahead(pending)) = Preorder
    BY DEF F, below, WalkInv, OrderInv
  <1>9. CASE Expand
    <2>1. /\ gpc = "expand" /\ gpc' = "next" /\ yielded' = yielded
          /\ WalkedVisits(current) = Subfolders(current)
          /\ pending' = Subfolders(current) \o pending
      BY <1>9 DEF Expand, WalkedVisits
    <2>2. Ahead(pending') = below \o Ahead(pending)
      BY <1>1, <2>1, WalkedVisitsProperties, AheadConcat DEF below
    <2>. QED  BY <1>7, <1>8, <2>1, <2>2
  <1>10. CASE SkipChildren
    <2>1. /\ gpc = "expand" /\ gpc' = "next" /\ yielded' = yielded /\ pending' = pending
          /\ WalkedVisits(current) = <<>>
      BY <1>10 DEF SkipChildren, WalkedVisits
    <2>2. below \o Ahead(pending) = Ahead(pending)
      BY <1>4, <2>1, AheadEmpty, ConcatEmptySeq DEF below
    <2>. QED  BY <1>7, <1>8, <2>1, <2>2
  <1>11. CASE FinishWalk
    <2>1. gpc' = "done" /\ yielded' = yielded
      BY <1>11 DEF FinishWalk
    <2>2. F = Preorder
      <3>1. CASE gpc = "expand" /\ ~recurse
        <4>1. pending = <<>> /\ WalkedVisits(current) = <<>>
          BY <3>1 DEF WalkInv, StackInv, WalkedVisits
        <4>2. below \o Ahead(pending) = <<>>
          BY <1>4, <4>1, AheadEmpty, ConcatEmptySeq DEF below
        <4>. QED  BY <1>3, <1>8, <3>1, <4>2, ConcatEmptySeq
      <3>2. CASE gpc = "next" /\ pending = <<>>
        <4>1. F \o Ahead(pending) = Preorder
          BY <3>2 DEF F, WalkInv, OrderInv
        <4>. QED  BY <1>3, <3>2, <4>1, AheadEmpty, ConcatEmptySeq
      <3>. QED  BY <1>11, <3>1, <3>2 DEF FinishWalk
    <2>. QED  BY <1>7, <2>1, <2>2
  <1>12. CASE RefuseFolder \/ RaiseChildren
    <2>1. gpc' = "refused" /\ yielded' = yielded
      BY <1>12 DEF RefuseFolder, RaiseChildren, RefuseWalk
    <2>. QED  BY <1>7, <2>1
  <1>13. CASE UNCHANGED walkvars
    <2>1. UNCHANGED <<gpc, pending, current, yielded>>
      BY <1>13 DEF walkvars
    <2>2. /\ FoldersOf(yielded') = F /\ Ahead(pending') = Ahead(pending)
          /\ Ahead(WalkedVisits(current')) = below
      BY <2>1 DEF F, below
    <2>3. /\ gpc = "next" => F \o Ahead(pending) = Preorder
          /\ gpc = "done" => F = Preorder
      BY DEF F, WalkInv, OrderInv
    <2>. QED  BY <1>3, <1>8, <2>1, <2>2, <2>3
  <1>. QED  BY <1>6, <1>9, <1>10, <1>11, <1>12, <1>13 DEF WalkNext

LEMMA StackStep ==
    ASSUME WalkTypeOK, OpenedInv, WalkInv, [WalkNext]_walkvars
    PROVE  StackInv'
  <1>1. tree \in [Folders -> Folder] /\ pending \in Seq(VisitType) /\ current \in VisitType
    BY DEF WalkTypeOK
  <1>2. recurse' = recurse
    BY CallStays DEF call
  <1>3. StackInv
    BY DEF WalkInv
  <1>4. CASE YieldFolder
    <2> DEFINE h == Head(pending)
    <2>1. /\ h \in VisitType /\ pending' = Tail(pending) /\ current' = h
          /\ ToSet(pending) = {h} \cup ToSet(pending')
          /\ h.depth <= MaxFolderDepth /\ gpc = "next" /\ gpc' = "expand"
          /\ Len(yielded) \in Nat /\ Len(yielded') = Len(yielded) + 1
          /\ yielded'[Len(yielded) + 1] = h /\ yielded' \in Seq(VisitType)
      BY <1>4, YieldProperties
    <2>2. yielded' # <<>>
      BY <2>1, EmptySeq
    <2>. QED  BY <1>2, <1>3, <2>1, <2>2 DEF StackInv
  <1>5. CASE Expand
    <2>1. /\ gpc = "expand" /\ gpc' = "next" /\ recurse /\ UNCHANGED yielded
          /\ WalkedVisits(current) = Subfolders(current)
          /\ pending' = Subfolders(current) \o pending
      BY <1>5 DEF Expand, WalkedVisits
    <2>2. WalkedVisits(current) \in Seq(VisitType)
      BY <1>1, WalkedVisitsProperties
    <2>3. ToSet(pending') = ToSet(WalkedVisits(current)) \cup ToSet(pending)
      BY <1>1, <2>1, <2>2, PushMembers
    <2>4. current.depth \in Nat /\ current.depth <= MaxFolderDepth
      BY <1>1, <1>3, <2>1 DEF StackInv, VisitType
    <2>5. ASSUME NEW v \in ToSet(WalkedVisits(current)) PROVE v.depth <= Levels
      <3>1. PICK i \in DOMAIN WalkedVisits(current) : v = WalkedVisits(current)[i]
        BY DEF ToSet
      <3>2. v = Visit(WalkedChildren(current.folder)[i],
                      current.path \o DisplayPath(WalkedChildren(current.folder)[i]),
                      current.depth + 1)
        BY <1>1, <3>1, WalkedVisitsProperties
      <3>3. v.depth = current.depth + 1
        BY <3>2 DEF Visit
      <3>. QED  BY <2>4, <3>3, LevelsType DEF Levels
    <2>. QED  BY <1>2, <1>3, <2>1, <2>3, <2>5 DEF StackInv
  <1>6. CASE SkipChildren \/ FinishWalk \/ RefuseFolder \/ RaiseChildren \/ UNCHANGED walkvars
    <2>1. /\ UNCHANGED <<pending, yielded, current>>
          /\ gpc' = "expand" => gpc = "expand"
          /\ gpc' = "next" => gpc = "next" \/ recurse
          /\ gpc' = "done" => gpc = "done" \/ (gpc = "expand" /\ ~recurse) \/ pending = <<>>
      BY <1>6 DEF SkipChildren, FinishWalk, RefuseFolder, RaiseChildren, RefuseWalk, walkvars
    <2>. QED  BY <1>2, <1>3, <2>1 DEF StackInv
  <1>. QED  BY <1>4, <1>5, <1>6 DEF WalkNext

LEMMA OnceStep ==
    ASSUME WalkTypeOK, OpenedInv, WalkInv, [WalkNext]_walkvars
    PROVE  OnceInv'
  <1>1. OnceInv
    BY DEF WalkInv
  <1>2. CASE YieldFolder
    <2> DEFINE h == Head(pending)
    <2>1. PICK n \in Nat : n = Len(yielded)
      BY <1>2, YieldProperties
    <2>2. /\ h.depth <= MaxFolderDepth /\ h.folder \notin seen /\ seen' = seen \cup {h.folder}
          /\ Cardinality(seen) < MaxFolders
          /\ Len(yielded') = n + 1 /\ yielded'[n + 1] = h
          /\ \A i \in 1..n : yielded'[i] = yielded[i]
      BY <1>2, <2>1, YieldProperties
    <2>3. /\ seen = {yielded[i].folder : i \in 1..n} /\ Cardinality(seen) = n
          /\ \A i, j \in 1..n : yielded[i].folder = yielded[j].folder => i = j
          /\ \A i \in 1..n : yielded[i].depth <= MaxFolderDepth
      BY <1>1, <2>1 DEF OnceInv
    <2> HIDE DEF h
    <2>4. 1..(n + 1) = 1..n \cup {n + 1}
      OBVIOUS
    <2>5. seen' = {yielded'[i].folder : i \in 1..(n + 1)}
      BY <2>2, <2>3, <2>4
    <2>6. ASSUME NEW i \in 1..(n + 1), NEW j \in 1..(n + 1), yielded'[i].folder = yielded'[j].folder
          PROVE  i = j
      <3>1. \A k \in 1..n : yielded[k].folder # h.folder
        BY <2>2, <2>3
      <3>. QED  BY <2>2, <2>3, <2>4, <2>6, <3>1
    <2>7. Cardinality(seen') = n + 1
      <3>1. IsFiniteSet(seen)
        BY FoldersAssumption, FS_Subset DEF WalkTypeOK
      <3>. QED  BY <2>2, <2>3, <3>1, FS_AddElement, ZenonT(60)
    <2>8. n + 1 <= MaxFolders
      BY <2>2, <2>3, LevelsType
    <2>9. \A i \in 1..(n + 1) : yielded'[i].depth <= MaxFolderDepth
      BY <2>2, <2>3, <2>4
    <2>. QED  BY <2>2, <2>5, <2>6, <2>7, <2>8, <2>9 DEF OnceInv
  <1>3. CASE ~YieldFolder
    <2>1. UNCHANGED <<seen, yielded>>
      BY <1>3 DEF WalkNext, Expand, SkipChildren, FinishWalk, RefuseFolder, RaiseChildren,
                  RefuseWalk, walkvars
    <2>. QED  BY <1>1, <2>1 DEF OnceInv
  <1>. QED  BY <1>2, <1>3

(* Where the folder next in the stack stands in the pre-order. *)
LEMMA NextInPreorder ==
    ASSUME WalkTypeOK, OpenedInv, WalkInv, gpc = "next", pending # <<>>, NEW h, h = Head(pending)
    PROVE  /\ Preorder \in Seq(Entry) /\ Len(yielded) + 1 \in 1..Len(Preorder)
           /\ Preorder[Len(yielded) + 1] = EntryOf(h)
           /\ \A i \in 1..Len(yielded) : i \in 1..Len(Preorder) /\ Preorder[i] = EntryOf(yielded[i])
  <1>1. tree \in [Folders -> Folder] /\ pending \in Seq(VisitType) /\ yielded \in Seq(VisitType)
    BY DEF WalkTypeOK
  <1>2. h \in VisitType /\ Tail(pending) \in Seq(VisitType) /\ h \in ToSet(pending)
    BY NextProperties
  <1>3. h.depth <= Levels
    BY <1>2 DEF WalkInv, StackInv
  <1>4. PICK A \in Seq(Entry) : A = Ahead(pending) /\ A # <<>> /\ Head(A) = EntryOf(h)
    <2>1. PICK rest \in Seq(Entry) : Pre[h] = <<EntryOf(h)>> \o rest
      BY <1>1, <1>2, <1>3, PreStarts
    <2>2. PICK B \in Seq(Entry) : B = Ahead(Tail(pending))
      BY <1>1, <1>2, PreType
    <2>3. PICK e \in Entry : e = EntryOf(h)
      BY <1>2, EntryType
    <2>4. rest \o B \in Seq(Entry) /\ (<<e>> \o rest) \o B = <<e>> \o (rest \o B)
      BY ConcatProperties, ConcatAssociative
    <2>5. Ahead(pending) = <<e>> \o (rest \o B)
      BY <1>1, <2>1, <2>2, <2>3, <2>4, AheadHead
    <2>. QED  BY <2>3, <2>4, <2>5, ConsIs
  <1>5. PICK F \in Seq(Entry) : /\ F = FoldersOf(yielded) /\ Len(F) = Len(yielded)
                                /\ \A i \in 1..Len(yielded) : F[i] = EntryOf(yielded[i])
    BY <1>1, FoldersOfProperties
  <1>6. PICK n \in Nat : n = Len(yielded)
    BY <1>1, LenProperties
  <1>7. Len(A) \in Nat /\ Len(A) >= 1 /\ A[1] = EntryOf(h)
    BY <1>4, PopProperties, LenProperties
  <1>8. F \o A = Preorder
    BY <1>4, <1>5 DEF WalkInv, OrderInv
  <1>9. /\ Preorder \in Seq(Entry) /\ Len(Preorder) = n + Len(A)
        /\ \A i \in 1..(n + Len(A)) : Preorder[i] = IF i <= n THEN F[i] ELSE A[i - n]
    <2>1. Len(F) = n /\ Len(A) \in Nat
      BY <1>5, <1>6, LenProperties
    <2>2. /\ F \o A \in Seq(Entry) /\ Len(F \o A) = n + Len(A)
          /\ \A i \in 1..(n + Len(A)) : (F \o A)[i] = IF i <= n THEN F[i] ELSE A[i - n]
      BY <2>1, ConcatProperties
    <2>. QED  BY <1>8, <2>2
  <1>10. n + 1 \in 1..Len(Preorder) /\ Preorder[n + 1] = A[1]
    <2>1. n + 1 \in 1..(n + Len(A)) /\ ~(n + 1 <= n) /\ (n + 1) - n = 1
      BY <1>7
    <2>. QED  BY <1>9, <2>1
  <1>11. ASSUME NEW i \in 1..n PROVE i \in 1..Len(Preorder) /\ Preorder[i] = F[i]
    <2>1. i \in 1..(n + Len(A)) /\ i <= n
      BY <1>7
    <2>. QED  BY <1>9, <2>1
  <1>. QED  BY <1>5, <1>6, <1>7, <1>9, <1>10, <1>11

LEMMA VerdictStep ==
    ASSUME WalkTypeOK, OpenedInv, WalkInv, [WalkNext]_walkvars
    PROVE  VerdictInv'
  <1>1. VerdictInv
    BY DEF WalkInv
  <1>2. /\ UNCHANGED <<tree, strict, recurse>> /\ WithinLimits' = WithinLimits /\ AllListed' = AllListed
    BY CallStays, CallReads
  <1>3. \A f : SubfoldersError(f)' = SubfoldersError(f)
    BY CallStays, CallReads
  <1>4. SUFFICES
          /\ (strict /\ recurse /\ gpc' # "refused") =>
                 \A i \in Passed' : SubfoldersError(yielded'[i].folder) = NoError
          /\ gpc' = "refused" => ~WithinLimits \/ (strict /\ ~AllListed)
          /\ (gpc' = "refused" /\ ~strict) => gerror' = "PstLimitError"
    <2>1. \A i : SubfoldersError(yielded[i].folder)' = SubfoldersError(yielded'[i].folder)
      BY <1>2 DEF SubfoldersError, Children
    <2>. QED  BY <1>2, <2>1 DEF VerdictInv
  <1>5. Len(yielded) \in Nat
    BY LenProperties DEF WalkTypeOK
  <1>6. CASE YieldFolder
    <2>1. /\ gpc = "next" /\ gpc' = "expand" /\ Len(yielded') = Len(yielded) + 1
          /\ \A i \in 1..Len(yielded) : yielded'[i] = yielded[i]
      BY <1>6, YieldProperties
    <2>2. Passed' = 1..Len(yielded) /\ Passed = 1..Len(yielded)
      BY <1>5, <2>1 DEF Passed
    <2>. QED  BY <1>1, <2>1, <2>2 DEF VerdictInv
  <1>7. CASE RefuseFolder
    <2> DEFINE h == Head(pending)
    <2>1. /\ gpc = "next" /\ pending # <<>> /\ VisitRefused(h) /\ gpc' = "refused"
          /\ gerror' = "PstLimitError"
      BY <1>7 DEF RefuseFolder, RefuseWalk
    <2>2. /\ Preorder \in Seq(Entry) /\ Len(yielded) + 1 \in 1..Len(Preorder)
          /\ Preorder[Len(yielded) + 1] = EntryOf(h)
          /\ \A i \in 1..Len(yielded) : i \in 1..Len(Preorder) /\ Preorder[i] = EntryOf(yielded[i])
      BY <2>1, NextInPreorder
    <2>3. h \in VisitType /\ h.depth \in Nat
      BY <2>1, NextProperties DEF VisitType
    <2>4. DOMAIN Preorder = 1..Len(Preorder) /\ Len(Preorder) \in Nat
      BY <2>2, LenProperties
    <2>5. /\ seen = {yielded[i].folder : i \in 1..Len(yielded)}
          /\ Cardinality(seen) = Len(yielded)
      BY DEF WalkInv, OnceInv
    <2> HIDE DEF h
    <2>6. ~WithinLimits
      <3>1. CASE h.depth > MaxFolderDepth
        <4>1. Preorder[Len(yielded) + 1].depth = h.depth
          BY <2>2 DEF EntryOf, EntryAt
        <4>2. ~(Preorder[Len(yielded) + 1].depth <= MaxFolderDepth)
          BY <2>3, <3>1, <4>1, LevelsType
        <4>. QED  BY <2>2, <2>4, <4>2 DEF WithinLimits
      <3>2. CASE h.folder \in seen
        <4>1. PICK i \in 1..Len(yielded) : yielded[i].folder = h.folder
          BY <2>5, <3>2
        <4>2. Preorder[i].folder = Preorder[Len(yielded) + 1].folder
          <5>1. Preorder[i] = EntryOf(yielded[i]) /\ Preorder[Len(yielded) + 1] = EntryOf(h)
            BY <2>2
          <5>. QED  BY <4>1, <5>1 DEF EntryOf, EntryAt
        <4>3. i # Len(yielded) + 1
          BY <1>5
        <4>. QED  BY <2>2, <2>4, <4>2, <4>3 DEF WithinLimits
      <3>3. CASE Cardinality(seen) >= MaxFolders
        <4>1. PICK n \in Nat, m \in Nat : n = Len(yielded) /\ m = Len(Preorder)
          BY <1>5, <2>4
        <4>2. n + 1 \in 1..m /\ n >= MaxFolders
          BY <2>2, <2>5, <3>3, <4>1
        <4>3. ~(m <= MaxFolders)
          BY <4>2, LevelsType
        <4>. QED  BY <4>1, <4>3 DEF WithinLimits
      <3>. QED  BY <2>1, <3>1, <3>2, <3>3 DEF VisitRefused, Exceeds, AddRefused
    <2>. QED  BY <2>1, <2>6
  <1>8. CASE RaiseChildren
    <2>1. /\ gpc = "expand" /\ gpc' = "refused" /\ recurse /\ strict
          /\ SubfoldersError(current.folder) # NoError
      BY <1>8 DEF RaiseChildren, RefuseWalk
    <2>2. yielded \in Seq(VisitType) /\ current = yielded[Len(yielded)] /\ yielded # <<>>
      BY <2>1 DEF WalkInv, StackInv, WalkTypeOK
    <2>3. PICK n \in Nat : n = Len(yielded) /\ n \in 1..n
      BY <1>5, <2>2, EmptySeq
    <2>4. PICK F \in Seq(Entry), rest \in Seq(Entry) :
             F = FoldersOf(yielded) /\ F \o rest = Preorder
      BY <2>2, FoldersOfProperties DEF WalkInv, OrderInv
    <2>5. Len(F) = n /\ F[n] = EntryOf(current)
      BY <2>2, <2>3, <2>4, FoldersOfProperties
    <2>6. n \in 1..Len(Preorder) /\ Preorder[n] = F[n] /\ Preorder \in Seq(Entry)
      <3>1. PICK m \in Nat : m = Len(rest)
        BY LenProperties
      <3>2. /\ F \o rest \in Seq(Entry) /\ Len(F \o rest) = n + m
            /\ \A i \in 1..(n + m) : i <= n => (F \o rest)[i] = F[i]
        BY <2>5, <3>1, ConcatProperties
      <3>3. n \in 1..(n + m) /\ n <= n
        BY <2>3, <3>1
      <3>. QED  BY <2>4, <3>2, <3>3
    <2>7. EntryOf(current) \in ToSet(Preorder)
      BY <2>5, <2>6, LenProperties DEF ToSet
    <2>8. EntryOf(current).folder = current.folder
      BY DEF EntryOf, EntryAt
    <2>9. ~AllListed
      BY <2>1, <2>7, <2>8 DEF AllListed
    <2>. QED  BY <2>1, <2>9
  <1>9. CASE Expand
    <2>1. /\ gpc = "expand" /\ gpc' = "next" /\ UNCHANGED yielded
          /\ SubfoldersError(current.folder) = NoError
      BY <1>9 DEF Expand
    <2>2. current = yielded[Len(yielded)]
      BY <2>1 DEF WalkInv, StackInv
    <2>3. Passed' = 1..Len(yielded) /\ Passed = 1..(Len(yielded) - 1)
      BY <2>1 DEF Passed
    <2>4. \A i \in Passed' : i \in Passed \/ i = Len(yielded)
      BY <1>5, <2>3
    <2>. QED  BY <1>1, <2>1, <2>2, <2>4 DEF VerdictInv
  <1>10. CASE SkipChildren
    BY <1>10 DEF SkipChildren
  <1>11. CASE FinishWalk
    <2>1. /\ gpc' = "done" /\ UNCHANGED yielded
          /\ (gpc = "expand" /\ ~recurse) \/ gpc = "next"
      BY <1>11 DEF FinishWalk
    <2>2. recurse => Passed' = Passed
      BY <2>1 DEF Passed
    <2>. QED  BY <1>1, <2>1, <2>2 DEF VerdictInv
  <1>12. CASE UNCHANGED walkvars
    <2>1. UNCHANGED <<gpc, yielded, gerror>>
      BY <1>12 DEF walkvars
    <2>2. Passed' = Passed
      BY <2>1 DEF Passed
    <2>. QED  BY <1>1, <2>1, <2>2 DEF VerdictInv
  <1>. QED  BY <1>6, <1>7, <1>8, <1>9, <1>10, <1>11, <1>12 DEF WalkNext

LEMMA PlaceStep ==
    ASSUME WalkTypeOK, OpenedInv, WalkInv, [WalkNext]_walkvars
    PROVE  PlaceInv'
  <1> DEFINE Placed(v, ys, i) == /\ v.folder \in ToSet(Kids[ys[i].folder])
                                 /\ v.path = ys[i].path \o Called[v.folder]
             root == Visit(start, DisplayPath(start), 0)
  <1>1. tree \in [Folders -> Folder] /\ pending \in Seq(VisitType) /\ current \in VisitType
        /\ yielded \in Seq(VisitType)
    BY DEF WalkTypeOK
  <1>2. PICK n \in Nat : n = Len(yielded) /\ (yielded = <<>> <=> n = 0)
    BY <1>1, LenProperties, EmptySeq
  <1>3. /\ n = 0 => pending = <<root>>
        /\ n # 0 => /\ yielded[1] = root
                    /\ \A v \in ToSet(pending) : \E i \in 1..n : Placed(v, yielded, i)
        /\ \A j \in 2..n : \E i \in 1..(j - 1) : Placed(yielded[j], yielded, i)
        /\ \A i \in Passed : \A c \in ToSet(Kids[yielded[i].folder]) :
              \E v \in ToSet(pending) \cup ToSet(yielded) : v.folder = c /\ Placed(v, yielded, i)
    BY <1>2 DEF WalkInv, PlaceInv, Under
  <1>4. UNCHANGED <<start, Kids, Called>> /\ DisplayPath(start)' = DisplayPath(start)
    <2>1. UNCHANGED <<tree, start, strict, recurse>>
      BY CallStays DEF call
    <2>. QED  BY <2>1 DEF Kids, Called, WalkedChildren, SubfoldersError, Children, DisplayPath
  <1>5. SUFFICES
          /\ yielded' = <<>> => pending' = <<root>>
          /\ yielded' # <<>> =>
                /\ yielded'[1] = root
                /\ \A v \in ToSet(pending') : \E i \in 1..Len(yielded') : Placed(v, yielded', i)
          /\ \A j \in 2..Len(yielded') : \E i \in 1..(j - 1) : Placed(yielded'[j], yielded', i)
          /\ \A i \in Passed' : \A c \in ToSet(Kids[yielded'[i].folder]) :
                \E v \in ToSet(pending') \cup ToSet(yielded') : v.folder = c /\ Placed(v, yielded', i)
    BY <1>4 DEF PlaceInv, Under
  <1>6. CASE YieldFolder
    <2> DEFINE h == Head(pending)
    <2>1. /\ h \in VisitType /\ ToSet(pending) = {h} \cup ToSet(pending')
          /\ Len(yielded') = n + 1 /\ yielded'[n + 1] = h
          /\ \A i \in 1..n : yielded'[i] = yielded[i]
          /\ yielded' \in Seq(VisitType) /\ ToSet(yielded') = ToSet(yielded) \cup {h}
          /\ gpc = "next" /\ gpc' = "expand" /\ pending' = Tail(pending)
      BY <1>2, <1>6, YieldProperties
    <2>2. yielded' # <<>>
      BY <2>1, EmptySeq
    <2>3. \A v, i : i \in 1..n => (Placed(v, yielded', i) <=> Placed(v, yielded, i))
      BY <2>1
    <2>4. Passed = 1..n /\ Passed' = 1..n
      BY <1>2, <2>1 DEF Passed
    <2>5. CASE n = 0
      <3>1. h = root /\ pending' = <<>>
        BY <1>3, <2>1, <2>5
      <3>2. ToSet(pending') = {}
        BY <3>1 DEF ToSet
      <3>3. 2..Len(yielded') = {} /\ Passed' = {} /\ yielded'[1] = root
        BY <2>1, <2>4, <2>5, <3>1
      <3> HIDE DEF Placed, root, h
      <3>. QED  BY <2>2, <3>2, <3>3
    <2>6. CASE n # 0
      <3> HIDE DEF Placed, h, root
      <3>1. yielded'[1] = root
        <4>1. 1 \in 1..n
          BY <2>6
        <4>. QED  BY <1>3, <2>1, <2>6, <4>1
      <3>2. ASSUME NEW v \in ToSet(pending) PROVE \E i \in 1..n : Placed(v, yielded', i)
        BY <1>3, <2>3, <2>6
      <3>3. ASSUME NEW v \in ToSet(pending') PROVE \E i \in 1..Len(yielded') : Placed(v, yielded', i)
        <4>1. 1..n \subseteq 1..Len(yielded')
          BY <2>1
        <4>. QED  BY <2>1, <3>2, <4>1
      <3>4. ASSUME NEW j \in 2..Len(yielded')
            PROVE  \E i \in 1..(j - 1) : Placed(yielded'[j], yielded', i)
        <4>1. CASE j = n + 1
          <5>1. \E i \in 1..n : Placed(h, yielded', i)
            BY <2>1, <3>2
          <5>2. j - 1 = n
            BY <4>1
          <5>. QED  BY <2>1, <4>1, <5>1, <5>2
        <4>2. CASE j # n + 1
          <5>1. j \in 2..n /\ j \in 1..n /\ 1..(j - 1) \subseteq 1..n
            BY <2>1, <4>2
          <5>2. PICK i \in 1..(j - 1) : Placed(yielded[j], yielded, i)
            BY <1>3, <5>1
          <5>. QED  BY <2>1, <2>3, <5>1, <5>2
        <4>. QED  BY <4>1, <4>2
      <3>5. ASSUME NEW i \in 1..n, NEW c \in ToSet(Kids[yielded'[i].folder])
            PROVE  \E v \in ToSet(pending') \cup ToSet(yielded') :
                       v.folder = c /\ Placed(v, yielded', i)
        <4>1. PICK v \in ToSet(pending) \cup ToSet(yielded) : v.folder = c /\ Placed(v, yielded, i)
          BY <1>3, <2>1, <2>4
        <4>. QED  BY <2>1, <2>3, <4>1
      <3>. QED  BY <2>2, <2>4, <3>1, <3>3, <3>4, <3>5
    <2>. QED  BY <2>5, <2>6
  <1>7. CASE Expand
    <2> DEFINE new == WalkedVisits(current)
               kids == Kids[current.folder]
    <2>1. /\ gpc = "expand" /\ gpc' = "next" /\ recurse /\ yielded' = yielded
          /\ new = Subfolders(current) /\ pending' = Subfolders(current) \o pending
      BY <1>7 DEF Expand, WalkedVisits
    <2>2. new \in Seq(VisitType) /\ DOMAIN new = DOMAIN kids
      BY <1>1, WalkedVisitsProperties DEF Kids, VisitType
    <2>3. ToSet(pending') = ToSet(new) \cup ToSet(pending)
      BY <1>1, <2>1, <2>2, PushMembers
    <2>4. yielded # <<>> /\ current = yielded[n] /\ n # 0 /\ n \in 1..n
      BY <1>2, <2>1 DEF WalkInv, StackInv
    <2>5. ASSUME NEW i \in DOMAIN new
          PROVE  new[i].folder = kids[i] /\ Placed(new[i], yielded, n)
      <3> DEFINE f == kids[i]
      <3>1. current.folder \in Folders /\ kids = WalkedChildren(current.folder)
        BY <1>1 DEF Kids, VisitType
      <3>2. f \in Folders /\ f \in ToSet(kids) /\ Called[f] = DisplayPath(f)
        <4>1. kids \in Seq(Folders) /\ i \in DOMAIN kids
          BY <1>1, <2>2, <3>1, WalkedType
        <4>. QED  BY <4>1, LenProperties, ElementOfSeq DEF ToSet, Called
      <3>3. new[i] = Visit(f, current.path \o DisplayPath(f), current.depth + 1)
        BY <1>1, <3>1, WalkedVisitsProperties
      <3> HIDE DEF f, new, kids
      <3>4. new[i].folder = f /\ new[i].path = current.path \o Called[f]
        BY <3>2, <3>3 DEF Visit
      <3>5. kids = Kids[yielded[n].folder]
        BY <2>4 DEF kids
      <3>. QED  BY <2>4, <3>2, <3>4, <3>5 DEF f
    <2>0. kids = Kids[yielded[n].folder]
      BY <2>4
    <2> HIDE DEF Placed, root, new, kids
    <2>6. Passed' = 1..n /\ Passed = 1..(n - 1) /\ Len(yielded') = n
      BY <1>2, <2>1 DEF Passed
    <2>7. ASSUME NEW v \in ToSet(pending') PROVE \E i \in 1..n : Placed(v, yielded, i)
      <3>1. CASE v \in ToSet(new)
        BY <2>4, <2>5, <3>1 DEF ToSet
      <3>2. CASE v \in ToSet(pending)
        BY <1>3, <2>4, <3>2
      <3>. QED  BY <2>3, <3>1, <3>2
    <2>8. ASSUME NEW i \in 1..n, NEW c \in ToSet(Kids[yielded[i].folder])
          PROVE  \E v \in ToSet(pending') \cup ToSet(yielded) : v.folder = c /\ Placed(v, yielded, i)
      <3>1. CASE i = n
        <4>1. PICK k \in DOMAIN new : c = kids[k]
          BY <2>0, <2>2, <3>1 DEF ToSet
        <4>2. new[k] \in ToSet(new)
          BY DEF ToSet
        <4>. QED  BY <2>3, <2>5, <3>1, <4>1, <4>2
      <3>2. CASE i # n
        <4>1. i \in Passed
          BY <2>6, <3>2
        <4>. QED  BY <1>3, <2>3, <4>1
      <3>. QED  BY <3>1, <3>2
    <2>. QED  BY <1>3, <2>1, <2>4, <2>6, <2>7, <2>8
  <1>8. CASE SkipChildren \/ FinishWalk \/ RefuseFolder \/ RaiseChildren \/ UNCHANGED walkvars
    <2>1. UNCHANGED <<pending, yielded, current>>
      BY <1>8 DEF SkipChildren, FinishWalk, RefuseFolder, RaiseChildren, RefuseWalk, walkvars
    <2>2. ASSUME gpc = "expand", gpc' # "expand"
          PROVE  Kids[yielded[n].folder] = <<>>
      <3>1. ~(recurse /\ SubfoldersError(current.folder) = NoError)
        BY <1>8, <2>2 DEF SkipChildren, FinishWalk, RefuseFolder, RaiseChildren, walkvars
      <3>2. current = yielded[n]
        BY <1>2, <2>2 DEF WalkInv, StackInv
      <3>. QED  BY <1>1, <3>1, <3>2 DEF Kids, WalkedChildren, VisitType
    <2>3. ASSUME NEW i \in Passed' PROVE i \in Passed \/ Kids[yielded[i].folder] = <<>>
      <3>1. gpc' = "expand" => gpc = "expand"
        BY <1>8 DEF SkipChildren, FinishWalk, RefuseFolder, RaiseChildren, RefuseWalk, walkvars
      <3>2. CASE gpc' = "expand" \/ gpc # "expand"
        <4>1. Passed' = Passed
          BY <2>1, <3>1, <3>2 DEF Passed
        <4>. QED  BY <4>1
      <3>3. CASE gpc' # "expand" /\ gpc = "expand"
        <4>1. Passed' = 1..n /\ Passed = 1..(n - 1)
          BY <1>2, <2>1, <3>3 DEF Passed
        <4>2. i \in Passed \/ i = n
          BY <4>1
        <4>. QED  BY <2>2, <3>3, <4>2
      <3>. QED  BY <3>2, <3>3
    <2>4. ToSet(<<>>) = {}
      BY DEF ToSet
    <2> HIDE DEF Placed, root
    <2>5. \A i \in Passed' : \A c \in ToSet(Kids[yielded[i].folder]) :
              \E v \in ToSet(pending) \cup ToSet(yielded) : v.folder = c /\ Placed(v, yielded, i)
      BY <1>3, <2>3, <2>4
    <2>. QED  BY <1>2, <1>3, <2>1, <2>5
  <1>. QED  BY <1>6, <1>7, <1>8 DEF WalkNext

LEMMA WalkFacts == WalkSafety => []WalkInv
  <1>1. WalkInit => WalkInv
    <2> SUFFICES ASSUME WalkInit PROVE WalkInv
      OBVIOUS
    <2> DEFINE root == Visit(start, DisplayPath(start), 0)
    <2>1. PICK c \in Calls : WalkStarts(c)
      BY DEF WalkInit
    <2>2. tree \in [Folders -> Folder] /\ start \in Folders
      BY <2>1, CallsAssumption DEF WalkStarts
    <2>3. /\ gpc = "next" /\ pending = <<root>> /\ seen = {} /\ yielded = <<>> /\ gerror = NoError
      BY <2>1 DEF WalkStarts
    <2>4. root \in VisitType /\ root.folder = start /\ root.depth = 0
      BY <2>2, DisplayPathType DEF Visit, VisitType
    <2> HIDE DEF root
    <2>5. /\ pending \in Seq(VisitType) /\ ToSet(pending) = {root} /\ Tail(pending) = <<>>
          /\ pending # <<>> /\ Head(pending) = root
      BY <2>3, <2>4 DEF ToSet
    <2>6. Len(yielded) = 0 /\ 1..Len(yielded) = {} /\ 2..Len(yielded) = {} /\ Passed = {}
      BY <2>3, EmptySeq DEF Passed
    <2>7. OrderInv
      <3>1. FoldersOf(yielded) = <<>>
        <4>1. DOMAIN yielded = {}
          BY <2>3
        <4>. QED  BY <4>1 DEF FoldersOf
      <3>2. Ahead(pending) = Pre[root]
        <4>1. Pre[root] \in Seq(Entry)
          BY <2>2, <2>4, PreType
        <4>. QED  BY <2>2, <2>5, <4>1, AheadHead, AheadEmpty, ConcatEmptySeq
      <3>3. Pre[root] = Preorder /\ Pre[root] \in Seq(Entry)
        <4>1. 0 <= Levels /\ Levels - 0 = Levels
          BY LevelsType
        <4>2. Pre[root] = Below[Levels][start]
          BY <2>4, <4>1 DEF Pre
        <4>. QED  BY <2>2, <2>4, <4>2, PreType, PreorderIs
      <3>4. <<>> \o Preorder = Preorder
        BY <3>3, ConcatEmptySeq
      <3>. QED  BY <2>3, <3>1, <3>2, <3>3, <3>4 DEF OrderInv
    <2>8. StackInv
      BY <2>3, <2>4, <2>5, LevelsType DEF StackInv
    <2>9. OnceInv
      BY <2>3, <2>6, FS_EmptySet, LevelsType DEF OnceInv
    <2>10. VerdictInv
      BY <2>3, <2>6 DEF VerdictInv
    <2>11. PlaceInv
      BY <2>3, <2>6 DEF PlaceInv, root
    <2>. QED  BY <2>7, <2>8, <2>9, <2>10, <2>11 DEF WalkInv
  <1>2. WalkTypeOK /\ OpenedInv /\ WalkInv /\ [WalkNext]_walkvars => WalkInv'
    BY OrderStep, StackStep, OnceStep, VerdictStep, PlaceStep DEF WalkInv
  <1>. QED  BY <1>1, <1>2, WalkInvariant, PTL DEF WalkSafety

LEMMA OrderFollows == ASSUME WalkTypeOK, WalkInv PROVE WalkOrder
  <1>1. PICK F \in Seq(Entry), rest \in Seq(Entry) :
           F = FoldersOf(yielded) /\ Len(F) = Len(yielded) /\ F \o rest = Preorder
    BY FoldersOfProperties DEF WalkTypeOK, WalkInv, OrderInv
  <1>2. IsPrefix(F, F \o rest)
    BY BeginsWith
  <1>3. gpc = "done" => F = Preorder
    BY <1>1 DEF WalkInv, OrderInv
  <1>. QED  BY <1>1, <1>2, <1>3 DEF WalkOrder

LEMMA VerdictFollows == ASSUME WalkTypeOK, WalkInv PROVE WalkVerdict
  <1>1. /\ gpc = "refused" => ~WithinLimits \/ (strict /\ ~AllListed)
        /\ (gpc = "refused" /\ ~strict) => gerror = "PstLimitError"
    BY DEF WalkInv, VerdictInv
  <1>2. ASSUME gpc = "done" PROVE WithinLimits /\ (strict => AllListed)
    <2>1. PICK n \in Nat : n = Len(yielded)
      BY LenProperties DEF WalkTypeOK
    <2>2. Preorder = FoldersOf(yielded) /\ yielded \in Seq(VisitType)
      BY <1>2 DEF WalkInv, OrderInv, WalkTypeOK
    <2>3. /\ Len(Preorder) = n /\ DOMAIN Preorder = 1..n
          /\ \A i \in 1..n : /\ Preorder[i].folder = yielded[i].folder
                             /\ Preorder[i].depth = yielded[i].depth
      <3>1. /\ Preorder \in Seq(Entry) /\ Len(Preorder) = n
            /\ \A i \in 1..n : Preorder[i] = EntryOf(yielded[i])
        BY <2>1, <2>2, FoldersOfProperties
      <3>. QED  BY <3>1, LenProperties DEF EntryOf, EntryAt
    <2>4. /\ \A i, j \in 1..n : yielded[i].folder = yielded[j].folder => i = j
          /\ n <= MaxFolders
          /\ \A i \in 1..n : yielded[i].depth <= MaxFolderDepth
      BY <2>1 DEF WalkInv, OnceInv
    <2>5. WithinLimits
      BY <2>3, <2>4 DEF WithinLimits
    <2>6. ASSUME strict, recurse, NEW v \in ToSet(Preorder) PROVE SubfoldersError(v.folder) = NoError
      <3>1. PICK i \in 1..n : v = Preorder[i]
        BY <2>3 DEF ToSet
      <3>2. SubfoldersError(yielded[i].folder) = NoError
        BY <1>2, <2>1, <2>6 DEF WalkInv, VerdictInv, Passed
      <3>. QED  BY <2>3, <3>1, <3>2
    <2>. QED  BY <2>5, <2>6 DEF AllListed
  <1>. QED  BY <1>1, <1>2 DEF WalkVerdict

LEMMA NestFollows == ASSUME WalkTypeOK, WalkInv PROVE PathsNest
  <1> SUFFICES ASSUME NEW j \in 2..Len(yielded)
               PROVE  \E i \in 1..(j - 1) :
                         /\ Contains(WalkedChildren(yielded[i].folder), yielded[j].folder)
                         /\ yielded[i].path = Front(yielded[j].path)
    BY DEF PathsNest
  <1>1. tree \in [Folders -> Folder] /\ yielded \in Seq(VisitType)
    BY DEF WalkTypeOK
  <1>2. PICK i \in 1..(j - 1) : Under(yielded[j], i)
    BY DEF WalkInv, PlaceInv
  <1>3. i \in 1..Len(yielded) /\ j \in 1..Len(yielded)
    BY <1>1, LenProperties
  <1>4. yielded[i] \in VisitType /\ yielded[j] \in VisitType
    BY <1>1, <1>3, ElementOfSeq
  <1>5. PICK f \in Folders, g \in Folders :
           f = yielded[i].folder /\ g = yielded[j].folder /\ yielded[i].path \in Seq(Piece)
    BY <1>4 DEF VisitType
  <1>6. g \in ToSet(WalkedChildren(f)) /\ yielded[j].path = yielded[i].path \o DisplayPath(g)
    BY <1>2, <1>5 DEF Under, Kids, Called
  <1>7. Contains(WalkedChildren(f), g)
    BY <1>1, <1>6, WalkedType, LenProperties DEF ToSet, Contains
  <1>8. PICK x \in Piece : DisplayPath(g) = <<x>>
    <2>1. tree[g].name \in DisplayName
      BY <1>1 DEF Folder
    <2>2. [node |-> g] \in Piece /\ [text |-> tree[g].name] \in Piece
      BY <2>1 DEF Piece
    <2>. QED  BY <2>2 DEF DisplayPath
  <1>9. Front(yielded[j].path) = yielded[i].path
    BY <1>5, <1>6, <1>8, FrontAppend
  <1>. QED  BY <1>5, <1>7, <1>9

(* The walk hands out the pre-order of the hierarchy, each folder under    *)
(* its place in the tree, accepts exactly the hierarchies that are within  *)
(* the limits and, if strict, can all be listed, and says why it refused.  *)
THEOREM WalkFollowsTree == WalkSpec => []WalkMatchesTree
  <1>1. WalkTypeOK /\ WalkInv => WalkMatchesTree
    BY OrderFollows, VerdictFollows, NestFollows DEF WalkMatchesTree
  <1>. QED  BY <1>1, WalkFacts, WalkInvariant, PTL DEF WalkSpec, WalkSafety

-----------------------------------------------------------------------------
(* The exports. *)
ExportSafety == ExportInit /\ [][ExportNext]_evars

(* A consumer never disturbs the generator it draws from.                  *)
LEMMA ConsumerWalks == ExportSafety => WalkSafety
  <1>1. ExportInit => WalkInit
    BY DEF ExportInit, WalkInit
  <1>2. [ExportNext]_evars => [WalkNext]_walkvars
    BY DEF ExportNext, evars, Generate, RefuseContents, Select, PassOver, RefuseSelection,
           List, OpenOutput, Take, SkipFolder, RaiseFirst, OpenFolder, WriteMessage,
           SkipMessage, RaiseMessage, Escape, FinishFolder, Finish, Raise
  <1>. QED  BY <1>1, <1>2, PTL DEF ExportSafety, WalkSafety

(* Whatever an export does with the folders it is handed, and whenever it  *)
(* stops, the walk below it implements Traversal: each folder that can be  *)
(* reached is exported at most once, and all of them by a run whose walk   *)
(* ends.                                                                   *)
THEOREM ExportImplementsTraversal == ExportSpec => ImplementsTraversal
  BY ConsumerWalks, WalkRefinement, PTL DEF ExportSpec, ExportSafety, ImplementsTraversal

-----------------------------------------------------------------------------
(* The command has touched a file only if the whole folder tree was walked *)
(* and not refused, the selection is not empty where one was asked for,    *)
(* and in a strict run every contents table selected can be read.          *)
SelectionSound ==
    /\ wanted # {} => selected # <<>>
    /\ strict => \A v \in ToSet(selected) : ~ContentsRefused(v.folder)

FilesAfterSelection == (cli /\ files # before) => (gpc = "done" /\ SelectionSound)

Selecting == epc \in {"walk", "folder", "walked"}

SelectionInv ==
    /\ selected \in Seq(VisitType)
    /\ cli => /\ strict => \A v \in ToSet(selected) : ~ContentsRefused(v.folder)
              /\ (Selecting \/ epc = "refused") \/ (gpc = "done" /\ SelectionSound)
              /\ epc = "walked" => gpc = "done"
              /\ Selecting => files = before
              /\ FilesAfterSelection

LEMMA SelectionInvariant == ExportSafety => []SelectionInv
  <1>1. ExportInit => SelectionInv
    <2> SUFFICES ASSUME ExportInit PROVE SelectionInv
      OBVIOUS
    <2>1. selected = <<>> /\ epc = "walk" /\ files = before
      BY DEF ExportInit
    <2>2. ToSet(selected) = {}
      BY <2>1 DEF ToSet
    <2>. QED  BY <2>1, <2>2, EmptySeq DEF SelectionInv, Selecting, FilesAfterSelection
  <1>2. WalkTypeOK /\ SelectionInv /\ [ExportNext]_evars => SelectionInv'
    <2> SUFFICES ASSUME WalkTypeOK, SelectionInv, [ExportNext]_evars PROVE SelectionInv'
      OBVIOUS
    <2>1. UNCHANGED job /\ (cli' = cli /\ wanted' = wanted /\ before' = before)
      BY DEF ExportNext, evars, exportvars, job, Generate, RefuseContents, Select, PassOver,
             RefuseSelection, List, OpenOutput, Take, SkipFolder, RaiseFirst, OpenFolder,
             WriteMessage, SkipMessage, RaiseMessage, Escape, FinishFolder, Finish, Raise
    <2>2. strict' = strict
      BY DEF ExportNext, evars, walkvars, call, Generate, WalkNext, YieldFolder, RefuseFolder,
             RefuseWalk, Expand, SkipChildren, RaiseChildren, FinishWalk, RefuseContents,
             Select, PassOver, RefuseSelection, List, OpenOutput, Take, SkipFolder, RaiseFirst,
             OpenFolder, WriteMessage, SkipMessage, RaiseMessage, Escape, FinishFolder, Finish, Raise
    <2>3. \A f : ContentsRefused(f)' <=> ContentsRefused(f)
      BY <2>1 DEF job, ContentsRefused, Rows
    <2>4. ASSUME UNCHANGED selected
          PROVE  SelectionSound' <=> SelectionSound
      BY <2>1, <2>2, <2>3, <2>4 DEF SelectionSound
    <2>5. CASE Generate
      <3>1. /\ epc = "walk" /\ UNCHANGED <<selected, files>>
            /\ gpc' \in {"next", "expand", "done", "refused"}
        BY <2>5 DEF Generate, WalkNext, YieldFolder, RefuseFolder, RefuseWalk, Expand,
                    SkipChildren, RaiseChildren, FinishWalk
      <3>2. /\ epc' \in {"folder", "walk", "walked", "refused"}
            /\ epc' = "walked" => gpc' = "done"
        BY <2>5, <3>1 DEF Generate
      <3>3. files' = before' \/ ~cli
        BY <2>1, <3>1 DEF SelectionInv, Selecting
      <3>. QED  BY <2>1, <2>2, <2>3, <3>1, <3>2, <3>3
                DEF SelectionInv, Selecting, FilesAfterSelection
    <2>6. CASE Select
      <3>1. /\ epc = "folder" /\ epc' = "walk" /\ UNCHANGED files
            /\ selected' = Append(selected, current)
            /\ ~(strict /\ ContentsRefused(current.folder))
        BY <2>6 DEF Select
      <3>2. /\ selected' \in Seq(VisitType)
            /\ ToSet(selected') = ToSet(selected) \cup {current}
        BY <3>1, AppendMembers DEF SelectionInv, WalkTypeOK
      <3>3. cli => files' = before'
        BY <2>1, <3>1 DEF SelectionInv, Selecting
      <3>4. cli => (strict' => \A v \in ToSet(selected') : ~ContentsRefused(v.folder)')
        BY <2>2, <2>3, <3>1, <3>2 DEF SelectionInv
      <3>. QED  BY <2>1, <3>1, <3>2, <3>3, <3>4 DEF SelectionInv, Selecting, FilesAfterSelection
    <2>7. CASE RefuseContents \/ PassOver \/ RefuseSelection \/ Take \/ RaiseFirst \/ RaiseMessage
      <3>1. UNCHANGED <<selected, files, gpc>>
        BY <2>7 DEF RefuseContents, PassOver, RefuseSelection, Take, RaiseFirst, RaiseMessage,
                    Raise, walkvars
      <3>2. cli => epc' = "refused" \/ (epc' = "walk" /\ epc = "folder")
        BY <2>7 DEF RefuseContents, PassOver, RefuseSelection, Take, RaiseFirst, RaiseMessage,
                    Raise
      <3>. QED  BY <2>1, <2>2, <2>3, <2>4, <3>1, <3>2
                DEF SelectionInv, Selecting, FilesAfterSelection
    <2>8. CASE List \/ OpenOutput
      <3>1. /\ epc = "walked" /\ epc' \in {"finished", "write"}
            /\ UNCHANGED <<selected, gpc>> /\ cli /\ ~NothingMatches
        BY <2>8 DEF List, OpenOutput, walkvars
      <3>2. gpc' = "done" /\ SelectionSound'
        BY <2>4, <3>1 DEF SelectionInv, SelectionSound, NothingMatches
      <3>. QED  BY <2>1, <2>2, <2>3, <3>1, <3>2
                DEF SelectionInv, Selecting, FilesAfterSelection
    <2>9. CASE SkipFolder \/ OpenFolder \/ WriteMessage \/ SkipMessage \/ Escape \/ FinishFolder \/ Finish
      <3>1. /\ cli => epc \in {"write", "message"} /\ epc' \in {"write", "message", "finished", "escaped"}
            /\ UNCHANGED <<selected, gpc>>
        BY <2>9 DEF SkipFolder, OpenFolder, WriteMessage, SkipMessage, Escape, FinishFolder, Finish,
                    AfterFolder, walkvars
      <3>2. cli => gpc' = "done" /\ SelectionSound'
        BY <2>4, <3>1 DEF SelectionInv, Selecting
      <3>. QED  BY <2>1, <2>2, <2>3, <3>1, <3>2
                DEF SelectionInv, Selecting, FilesAfterSelection
    <2>10. CASE UNCHANGED evars
      <3>1. UNCHANGED <<selected, files, gpc, epc>>
        BY <2>10 DEF evars, exportvars, walkvars
      <3>. QED  BY <2>1, <2>2, <2>3, <2>4, <3>1 DEF SelectionInv, Selecting, FilesAfterSelection
    <2>. QED  BY <2>5, <2>6, <2>7, <2>8, <2>9, <2>10 DEF ExportNext
  <1>. QED  BY <1>1, <1>2, ConsumerWalks, WalkInvariant, PTL DEF ExportSafety

(* The command selects before it writes (main calls _select, which         *)
(* exhausts the walk, before any writer): once a file differs from what    *)
(* the run found, the walk has ended without a refusal, the selection is   *)
(* not empty if one was asked for, and in a strict run every contents      *)
(* table in it can be read.                                                *)
THEOREM CommandSelectsFirst == ExportSpec => []((cli /\ files # before) => (gpc = "done" /\ SelectionSound))
  <1>1. SelectionInv => ((cli /\ files # before) => (gpc = "done" /\ SelectionSound))
    BY DEF SelectionInv, FilesAfterSelection
  <1>. QED  BY <1>1, SelectionInvariant, PTL DEF ExportSpec, ExportSafety

-----------------------------------------------------------------------------
(* The types of a run, and what they rest on: only folders.txt ever holds  *)
(* lines, a library call writes folders or messages, and the mbox that is  *)
(* being written has been created.                                         *)
JobTypes == /\ cli \in BOOLEAN /\ format \in Format
            /\ ~cli => format \in {"folders", "eml"}
            /\ contents \in [Folders -> Table(Messages)]
            /\ message \in [Messages -> MessageKind]
            /\ before \in [FileNames -> File]

ProgressTypes ==
    /\ epc \in {"walk", "folder", "walked", "write", "message", "finished", "refused",
               "escaped"}
    /\ selected \in Seq(VisitType) /\ todo \in Seq(VisitType)
    /\ msgs \in Seq(Messages) /\ count \in Nat /\ written \in Nat
    /\ index \in Seq(Line)
    /\ epc = "message" => todo # <<>>
    /\ epc \in {"write", "message"} => format # "list"

FileTypes ==
    /\ files \in [FileNames -> File]
    /\ \A n \in FileNames \ {IndexFile} :
          files[n].state = "written" => files[n].body \in Seq(FileRecord)

BeingWritten ==
    /\ (epc \in {"write", "message"} /\ format = "mbox") => files[StoreBox].state = "written"
    /\ (epc = "message" /\ format = "folders") =>
            files[[mbox |-> Head(todo).folder]].state = "written"

ExportTypes == JobTypes /\ ProgressTypes /\ FileTypes /\ BeingWritten

LEMMA FileNamesDiffer ==
    /\ IndexFile \in FileNames /\ StoreBox \in FileNames /\ StoreBox # IndexFile
    /\ \A f \in Folders : /\ [mbox |-> f] \in FileNames
                          /\ [mbox |-> f] # IndexFile /\ [mbox |-> f] # StoreBox
    /\ \A m \in Messages : /\ [eml |-> m] \in FileNames
                           /\ [eml |-> m] # IndexFile /\ [eml |-> m] # StoreBox
    /\ \A f \in Folders, m \in Messages : [mbox |-> f] # [eml |-> m]
  <1>1. \A x : /\ DOMAIN [mbox |-> x] = {"mbox"} /\ DOMAIN [eml |-> x] = {"eml"}
               /\ DOMAIN [name |-> x] = {"name"}
    OBVIOUS
  <1>2. "mbox" # "name" /\ "eml" # "name" /\ "mbox" # "eml"
    OBVIOUS
  <1>3. {"mbox"} # {"name"} /\ {"eml"} # {"name"} /\ {"mbox"} # {"eml"}
    BY <1>2
  <1>4. StoreBox # IndexFile
    BY DEF StoreBox, IndexFile
  <1>5. ASSUME NEW f \in Folders
        PROVE  [mbox |-> f] \in FileNames /\ [mbox |-> f] # IndexFile /\ [mbox |-> f] # StoreBox
    BY <1>1, <1>3 DEF FileNames, IndexFile, StoreBox
  <1>6. ASSUME NEW m \in Messages
        PROVE  [eml |-> m] \in FileNames /\ [eml |-> m] # IndexFile /\ [eml |-> m] # StoreBox
    BY <1>1, <1>3 DEF FileNames, IndexFile, StoreBox
  <1>. QED  BY <1>1, <1>3, <1>4, <1>5, <1>6 DEF FileNames

(* Replacing what a file holds, with records or with lines. *)
LEMMA ReplaceFile ==
    ASSUME FileTypes, NEW n \in FileNames, NEW body,
           body \in Seq(FileRecord) \/ (n = IndexFile /\ body \in Seq(Line)),
           files' = [files EXCEPT ![n] = Written(body)]
    PROVE  FileTypes' /\ files'[n].state = "written"
  <1>1. Written(body) \in File /\ Written(body).state = "written" /\ Written(body).body = body
    BY DEF Written, File
  <1>2. files' \in [FileNames -> File] /\ files'[n] = Written(body)
    BY <1>1 DEF FileTypes
  <1>3. ASSUME NEW k \in FileNames \ {IndexFile}, files'[k].state = "written"
        PROVE  files'[k].body \in Seq(FileRecord)
    BY <1>1, <1>3 DEF FileTypes
  <1>. QED  BY <1>1, <1>2, <1>3 DEF FileTypes

LEMMA NamedType ==
    ASSUME contents \in [Folders -> Table(Messages)], NEW f \in Folders
    PROVE  Named(f) \in Seq(Messages)
  <1>1. contents[f] \in Table(Messages)
    OBVIOUS
  <1>2. CASE ContentsRefused(f)
    BY <1>2, EmptySeq DEF Named
  <1>3. CASE ~ContentsRefused(f)
    BY <1>1, <1>3 DEF Named, ContentsRefused, Table
  <1>. QED  BY <1>2, <1>3

LEMMA FromFirstType ==
    ASSUME NEW ids \in Seq(Messages)
    PROVE  FromFirstOpened(ids) \in Seq(Messages)
  <1> DEFINE opened == {i \in DOMAIN ids : message[ids[i]] # "unopenable"}
  <1>1. DOMAIN ids = 1..Len(ids) /\ Len(ids) \in Nat /\ \A i \in 1..Len(ids) : ids[i] \in Messages
    BY LenProperties, ElementOfSeq
  <1>0. FromFirstOpened(ids) = IF opened = {} THEN <<>> ELSE SubSeq(ids, Min(opened), Len(ids))
    BY DEF FromFirstOpened
  <1>2. CASE opened = {}
    BY <1>0, <1>2, EmptySeq
  <1>3. CASE opened # {}
    <2>1. opened \in SUBSET Nat
      BY <1>1
    <2>2. Min(opened) \in opened
      BY <1>3, <2>1, MinProperties
    <2>3. Min(opened) \in 1..Len(ids)
      BY <1>1, <2>2
    <2> HIDE DEF opened
    <2>4. SubSeq(ids, Min(opened), Len(ids)) \in Seq(Messages)
      <3>1. PICK m \in 1..Len(ids) : m = Min(opened)
        BY <2>3
      <3>2. \A i \in m..Len(ids) : ids[i] \in Messages
        BY <1>1
      <3>3. SubSeq(ids, m, Len(ids)) \in Seq(Messages)
        BY <1>1, <3>2, SubSeqProperties
      <3>. QED  BY <3>1, <3>3
    <2>. QED  BY <1>0, <1>3, <2>4
  <1>. QED  BY <1>2, <1>3

LEMMA ExportTypesHold == ExportSafety => []ExportTypes
  <1>1. ExportInit => ExportTypes
    <2> SUFFICES ASSUME ExportInit PROVE ExportTypes
      OBVIOUS
    <2>1. PICK c \in Calls :
             /\ cli = c.cli /\ format = c.format
             /\ contents = c.contents /\ message = c.message
             /\ files = Fresh(c.before) /\ before = files
      BY DEF ExportInit
    <2>2. Fresh(c.before) \in [FileNames -> File] /\ c.before \in {"absent", "stale"}
      BY ExportCallsAssumption DEF Fresh, File
    <2>3. JobTypes
      BY <2>1, <2>2, ExportCallsAssumption DEF JobTypes
    <2>4. \A n \in FileNames : files[n].state # "written"
      BY <2>1, <2>2 DEF Fresh
    <2>5. FileTypes
      BY <2>1, <2>2, <2>4 DEF FileTypes
    <2>6. ProgressTypes /\ epc = "walk"
      BY EmptySeq DEF ExportInit, ProgressTypes
    <2>. QED  BY <2>3, <2>5, <2>6 DEF ExportTypes, BeingWritten
  <1>2. WalkTypeOK /\ WalkTypeOK' /\ ExportTypes /\ [ExportNext]_evars => ExportTypes'
    <2> SUFFICES ASSUME WalkTypeOK, WalkTypeOK', ExportTypes, [ExportNext]_evars
                 PROVE  ExportTypes'
      OBVIOUS
    <2>1. JobTypes' /\ UNCHANGED <<job, cli, format, contents, message>>
      <3>1. UNCHANGED job
        BY DEF ExportNext, evars, exportvars, Generate, RefuseContents, Select, PassOver,
               RefuseSelection, List, OpenOutput, Take, SkipFolder, RaiseFirst, OpenFolder,
               WriteMessage, SkipMessage, RaiseMessage, Escape, FinishFolder, Finish, Raise
      <3>2. UNCHANGED <<cli, format, contents, message, before>>
        BY <3>1 DEF job
      <3>. QED  BY <3>1, <3>2 DEF ExportTypes, JobTypes
    <2>2. /\ JobTypes /\ ProgressTypes /\ FileTypes /\ BeingWritten
          /\ current \in VisitType
      BY DEF ExportTypes, WalkTypeOK
    <2>3. CASE Generate
      <3>1. /\ gpc' \in {"next", "expand", "done", "refused"}
            /\ UNCHANGED <<selected, todo, msgs, count, index, written, files>>
            /\ epc' = CASE gpc' = "expand" -> "folder"
                         [] gpc' = "next" -> "walk"
                         [] gpc' = "done" -> "walked"
                         [] gpc' = "refused" -> "refused"
        BY <2>3 DEF Generate, WalkTypeOK
      <3>2. epc' \in {"folder", "walk", "walked", "refused"}
        BY <3>1
      <3>. QED  BY <2>1, <2>2, <3>1, <3>2
                DEF ExportTypes, ProgressTypes, FileTypes, BeingWritten
    <2>4. CASE RefuseContents \/ RefuseSelection \/ RaiseFirst \/ RaiseMessage \/ Escape
      BY <2>1, <2>2, <2>4
      DEF RefuseContents, RefuseSelection, RaiseFirst, RaiseMessage, Escape, Raise,
          ExportTypes, ProgressTypes, FileTypes, BeingWritten
    <2>5. CASE PassOver \/ List
      BY <2>1, <2>2, <2>5
      DEF PassOver, List, ExportTypes, ProgressTypes, FileTypes, BeingWritten
    <2>6. CASE Select
      <3>1. selected' \in Seq(VisitType)
        BY <2>2, <2>6, AppendProperties DEF Select, ProgressTypes
      <3>. QED  BY <2>1, <2>2, <2>6, <3>1
                DEF Select, ExportTypes, ProgressTypes, FileTypes, BeingWritten
    <2>7. CASE OpenOutput
      <3>1. /\ epc' = "write" /\ todo' = selected /\ format # "list"
            /\ UNCHANGED <<selected, msgs, count, index, written>>
            /\ files' = IF format = "mbox" THEN [files EXCEPT ![StoreBox] = Written(<<>>)]
                                           ELSE files
        BY <2>7 DEF OpenOutput
      <3>2. FileTypes' /\ (format = "mbox" => files'[StoreBox].state = "written")
        <4>1. CASE format = "mbox"
          BY <2>2, <3>1, <4>1, ReplaceFile, FileNamesDiffer, EmptySeq
        <4>2. CASE format # "mbox"
          BY <2>2, <3>1, <4>2 DEF FileTypes
        <4>. QED  BY <4>1, <4>2
      <3>. QED  BY <2>1, <2>2, <3>1, <3>2 DEF ExportTypes, ProgressTypes, BeingWritten
    <2>8. CASE Take
      <3>1. todo' = <<current>> /\ epc' = "write" /\ ~cli
            /\ UNCHANGED <<selected, msgs, count, index, written, files>>
        BY <2>8 DEF Take
      <3>2. <<current>> \in Seq(VisitType)
        BY <2>2
      <3>3. format \in {"folders", "eml"}
        BY <2>2, <3>1 DEF JobTypes
      <3>. QED  BY <2>1, <2>2, <3>1, <3>2, <3>3
                DEF ExportTypes, ProgressTypes, FileTypes, BeingWritten
    <2>9. ASSUME todo # <<>>
          PROVE  /\ Head(todo) \in VisitType /\ Tail(todo) \in Seq(VisitType)
                 /\ Head(todo).folder \in Folders /\ Head(todo).path \in Seq(Piece)
      <3>1. todo \in Seq(VisitType)
        BY <2>2 DEF ProgressTypes
      <3>2. Head(todo) \in VisitType /\ Tail(todo) \in Seq(VisitType)
        BY <2>9, <3>1, PopProperties
      <3>. QED  BY <3>2 DEF VisitType
    <2>10. ASSUME NEW line \in Line
           PROVE  Indexed(line) \in Seq(Line)
      BY <2>2, AppendProperties DEF ProgressTypes, Indexed
    <2>11. CASE SkipFolder
      <3>1. /\ epc = "write" /\ todo # <<>> /\ todo' = Tail(todo) /\ epc' = AfterFolder
            /\ index' = Indexed(SkippedLine(Head(todo)))
            /\ UNCHANGED <<selected, msgs, count, written, files>>
        BY <2>11 DEF SkipFolder
      <3>2. SkippedLine(Head(todo)) \in Line
        BY <2>9, <3>1 DEF SkippedLine, Line
      <3>3. index' \in Seq(Line)
        BY <2>10, <3>1, <3>2
      <3>. QED  BY <2>1, <2>2, <2>9, <3>1, <3>3
                DEF ExportTypes, ProgressTypes, FileTypes, BeingWritten, AfterFolder
    <2>12. CASE OpenFolder
      <3> DEFINE f == Head(todo).folder
      <3>1. /\ epc = "write" /\ todo # <<>> /\ epc' = "message" /\ count' = 0
            /\ msgs' = IF format = "folders" THEN FromFirstOpened(Named(f)) ELSE Named(f)
            /\ files' = IF format = "folders" THEN [files EXCEPT ![[mbox |-> f]] = Written(<<>>)]
                                              ELSE files
            /\ UNCHANGED <<selected, todo, index, written>>
        BY <2>12 DEF OpenFolder
      <3>2. f \in Folders
        BY <2>9, <3>1
      <3>3. msgs' \in Seq(Messages)
        BY <2>2, <3>1, <3>2, NamedType, FromFirstType DEF JobTypes
      <3> HIDE DEF f
      <3>4. /\ FileTypes'
            /\ format = "folders" => files'[[mbox |-> f]].state = "written"
        <4>1. CASE format = "folders"
          <5>1. [mbox |-> f] \in FileNames /\ <<>> \in Seq(FileRecord)
            BY <3>2, FileNamesDiffer, EmptySeq
          <5>. QED  BY <2>2, <3>1, <4>1, <5>1, ReplaceFile
        <4>2. CASE format # "folders"
          BY <2>2, <3>1, <4>2 DEF FileTypes
        <4>. QED  BY <4>1, <4>2
      <3>5. format = "mbox" => files' = files
        BY <3>1
      <3>6. ProgressTypes'
        BY <2>1, <2>2, <3>1, <3>3 DEF ProgressTypes
      <3>7. BeingWritten'
        BY <2>1, <2>2, <3>1, <3>4, <3>5 DEF BeingWritten, f
      <3>. QED  BY <2>1, <3>4, <3>6, <3>7 DEF ExportTypes
    <2>13. CASE WriteMessage
      <3> DEFINE m == Head(msgs)
                 box == IF format = "mbox" THEN StoreBox ELSE [mbox |-> Head(todo).folder]
      <3>1. /\ epc = "message" /\ msgs # <<>> /\ epc' = "message"
            /\ msgs' = Tail(msgs) /\ count' = count + 1
            /\ UNCHANGED <<selected, todo, index, written>>
            /\ files' = IF format = "eml"
                        THEN [files EXCEPT ![[eml |-> m]] = Written(<<Record(m)>>)]
                        ELSE [files EXCEPT ![box] = Written(Append(@.body, Record(m)))]
        BY <2>13 DEF WriteMessage
      <3>2. /\ todo # <<>> /\ format \in {"mbox", "folders", "eml"}
            /\ m \in Messages /\ Tail(msgs) \in Seq(Messages) /\ count + 1 \in Nat
        BY <2>2, <3>1, PopProperties DEF ProgressTypes, JobTypes, Format
      <3>3. Record(m) \in FileRecord
        BY <2>9, <3>2 DEF Record, FileRecord
      <3> HIDE DEF m
      <3>4. FileTypes' /\ (\A n \in FileNames : files[n].state = "written"
                                                 => files'[n].state = "written")
        <4>1. CASE format = "eml"
          <5>1. [eml |-> m] \in FileNames /\ <<Record(m)>> \in Seq(FileRecord)
            BY <3>2, <3>3, FileNamesDiffer
          <5>2. FileTypes' /\ files'[[eml |-> m]].state = "written"
            BY <2>2, <3>1, <4>1, <5>1, ReplaceFile
          <5>. QED  BY <2>2, <3>1, <4>1, <5>2 DEF FileTypes
        <4>2. CASE format # "eml"
          <5>1. box \in FileNames /\ box # IndexFile /\ files[box].state = "written"
            BY <2>2, <2>9, <3>1, <3>2, <4>2, FileNamesDiffer DEF BeingWritten
          <5> HIDE DEF box
          <5>2. Append(files[box].body, Record(m)) \in Seq(FileRecord)
            BY <2>2, <3>3, <5>1, AppendProperties DEF FileTypes
          <5>3. files' = [files EXCEPT ![box] = Written(Append(files[box].body, Record(m)))]
            BY <3>1, <4>2
          <5>4. FileTypes' /\ files'[box].state = "written"
            BY <2>2, <5>1, <5>2, <5>3, ReplaceFile
          <5>. QED  BY <2>2, <5>3, <5>4 DEF FileTypes
        <4>. QED  BY <4>1, <4>2
      <3>5. ProgressTypes'
        BY <2>1, <2>2, <3>1, <3>2 DEF ProgressTypes
      <3>6. BeingWritten'
        BY <2>1, <2>2, <2>9, <3>1, <3>2, <3>4, FileNamesDiffer DEF BeingWritten
      <3>. QED  BY <2>1, <3>4, <3>5, <3>6 DEF ExportTypes
    <2>14. CASE SkipMessage
      <3>1. Tail(msgs) \in Seq(Messages)
        BY <2>2, <2>14, PopProperties DEF SkipMessage, ProgressTypes
      <3>. QED  BY <2>1, <2>2, <2>14, <3>1
                DEF SkipMessage, ExportTypes, ProgressTypes, FileTypes, BeingWritten
    <2>15. CASE FinishFolder
      <3> DEFINE line == IndexLine(Head(todo), count)
      <3>1. /\ epc = "message" /\ todo' = Tail(todo) /\ epc' = AfterFolder
            /\ index' = Indexed(line) /\ written' = written + count
            /\ files' = IF cli /\ format = "folders"
                        THEN [files EXCEPT ![IndexFile] = Written(<<line>>)] ELSE files
            /\ UNCHANGED <<selected, msgs, count>>
        BY <2>15 DEF FinishFolder
      <3>2. todo # <<>> /\ format # "list" /\ count \in Nat /\ written + count \in Nat
        BY <2>2, <3>1 DEF ProgressTypes
      <3>3. line \in Line
        BY <2>9, <3>2 DEF IndexLine, Line
      <3> HIDE DEF line
      <3>4. index' \in Seq(Line) /\ Tail(todo) \in Seq(VisitType)
        BY <2>9, <2>10, <3>1, <3>2, <3>3
      <3>5. FileTypes' /\ (format = "mbox" => files' = files)
        <4>1. CASE cli /\ format = "folders"
          <5>1. <<line>> \in Seq(Line)
            BY <3>3
          <5>. QED  BY <2>2, <3>1, <4>1, <5>1, ReplaceFile, FileNamesDiffer
        <4>2. CASE ~(cli /\ format = "folders")
          BY <2>2, <3>1, <4>2 DEF FileTypes
        <4>. QED  BY <4>1, <4>2
      <3>6. ProgressTypes'
        BY <2>1, <2>2, <3>1, <3>2, <3>4 DEF ProgressTypes, AfterFolder
      <3>7. BeingWritten'
        BY <2>1, <2>2, <3>1, <3>5 DEF BeingWritten, AfterFolder
      <3>. QED  BY <2>1, <3>5, <3>6, <3>7 DEF ExportTypes
    <2>16. CASE Finish
      <3>1. /\ epc' = "finished"
            /\ files' = IF format = "folders" THEN [files EXCEPT ![IndexFile] = Written(index)]
                                              ELSE files
            /\ UNCHANGED <<selected, todo, msgs, count, index, written>>
        BY <2>16 DEF Finish
      <3>2. FileTypes'
        <4>1. CASE format = "folders"
          BY <2>2, <3>1, <4>1, ReplaceFile, FileNamesDiffer DEF ProgressTypes
        <4>2. CASE format # "folders"
          BY <2>2, <3>1, <4>2 DEF FileTypes
        <4>. QED  BY <4>1, <4>2
      <3>. QED  BY <2>1, <2>2, <3>1, <3>2 DEF ExportTypes, ProgressTypes, BeingWritten
    <2>17. CASE UNCHANGED evars
      BY <2>1, <2>2, <2>17
      DEF evars, exportvars, ExportTypes, ProgressTypes, FileTypes, BeingWritten
    <2>. QED  BY <2>3, <2>4, <2>5, <2>6, <2>7, <2>8, <2>11, <2>12, <2>13, <2>14, <2>15,
                 <2>16, <2>17 DEF ExportNext
  <1>. QED  BY <1>1, <1>2, ConsumerWalks, WalkInvariant, PTL DEF ExportSafety

(* For every store, destination and call, a run keeps its types, and the   *)
(* mbox that is being written exists.                                      *)
THEOREM ExportTypeCorrect == ExportSpec => []ExportTypeOK
  <1>1. WalkTypeOK /\ ExportTypes => ExportTypeOK
    BY DEF ExportTypes, JobTypes, ProgressTypes, FileTypes, BeingWritten, ExportTypeOK
  <1>. QED  BY <1>1, ExportTypesHold, ConsumerWalks, WalkInvariant, PTL
            DEF ExportSpec, ExportSafety

-----------------------------------------------------------------------------
(* What is kept of a sequence.  A recursive function on 0..n exists, and   *)
(* two of them agree as far as their sequences do; so KeptOf of a longer   *)
(* sequence continues that of a shorter one.                               *)
IsKeptTo(g, s, C, n) ==
    g = [i \in 0..n |-> IF i = 0 THEN <<>>
                        ELSE IF s[i] \in C THEN Append(g[i - 1], s[i]) ELSE g[i - 1]]

LEMMA KeptUpTo ==
    ASSUME NEW T, NEW C, NEW s \in Seq(T), NEW m \in 0..Len(s)
    PROVE  \E g \in [0..m -> Seq(T)] : IsKeptTo(g, s, C, m)
  <1> DEFINE Made(n) == \E g \in [0..n -> Seq(T)] : IsKeptTo(g, s, C, n)
             bad == {n \in 0..Len(s) : ~Made(n)}
  <1>0. Len(s) \in Nat /\ \A i \in 1..Len(s) : s[i] \in T
    BY LenProperties, ElementOfSeq
  <1>1. SUFFICES ASSUME bad # {} PROVE FALSE
    OBVIOUS
  <1>2. PICK n \in bad : \A k \in bad : n <= k
    <2>1. bad \in SUBSET Nat
      BY <1>0
    <2>. QED  BY <1>1, <2>1, LeastElement
  <1>3. n \in 0..Len(s) /\ n \in Nat /\ ~Made(n)
    BY <1>0
  <1>4. CASE n = 0
    <2> DEFINE g == [i \in 0..0 |-> <<>>]
    <2>1. g \in [0..n -> Seq(T)]
      BY <1>4, EmptySeq
    <2>2. g = [i \in 0..n |-> IF i = 0 THEN <<>>
                              ELSE IF s[i] \in C THEN Append(g[i - 1], s[i]) ELSE g[i - 1]]
      BY <1>4
    <2>. QED  BY <1>3, <2>1, <2>2 DEF IsKeptTo
  <1>5. CASE n # 0
    <2>1. n - 1 \in 0..Len(s) /\ n - 1 \notin bad
      BY <1>0, <1>2, <1>3, <1>5
    <2>2. PICK h \in [0..(n - 1) -> Seq(T)] : IsKeptTo(h, s, C, n - 1)
      BY <2>1
    <2> DEFINE Body(f, i) == IF i = 0 THEN <<>>
                             ELSE IF s[i] \in C THEN Append(f[i - 1], s[i]) ELSE f[i - 1]
               g == [i \in 0..n |-> Body(h, i)]
    <2>3. \A i \in 0..(n - 1) : h[i] = Body(h, i)
      BY <2>2 DEF IsKeptTo
    <2>4. \A i \in 0..(n - 1) : i \in 0..n /\ g[i] = h[i]
      <3>1. \A i \in 0..n : g[i] = Body(h, i)
        OBVIOUS
      <3> HIDE DEF g, Body
      <3>. QED  BY <1>3, <2>3, <3>1
    <2>5. ASSUME NEW i \in 0..n PROVE Body(h, i) \in Seq(T) /\ Body(g, i) = Body(h, i)
      <3>1. CASE i = 0
        BY <3>1, EmptySeq
      <3>2. CASE i # 0
        <4>1. i - 1 \in 0..(n - 1) /\ i \in 1..Len(s)
          BY <1>0, <1>3, <3>2
        <4>2. h[i - 1] \in Seq(T) /\ g[i - 1] = h[i - 1] /\ s[i] \in T
          BY <1>0, <2>4, <4>1
        <4>3. Append(h[i - 1], s[i]) \in Seq(T)
          BY <4>2, AppendProperties
        <4> HIDE DEF g
        <4>. QED  BY <3>2, <4>2, <4>3
      <3>. QED  BY <3>1, <3>2
    <2>6. g \in [0..n -> Seq(T)]
      BY <2>5
    <2>7. g = [i \in 0..n |-> Body(g, i)]
      <3>1. g = [i \in 0..n |-> Body(h, i)]
        OBVIOUS
      <3> HIDE DEF g, Body
      <3>. QED  BY <2>5, <3>1
    <2> HIDE DEF g
    <2>8. IsKeptTo(g, s, C, n)
      BY <2>7 DEF IsKeptTo
    <2>. QED  BY <1>3, <2>6, <2>8
  <1>. QED  BY <1>4, <1>5

LEMMA KeptAgree ==
    ASSUME NEW C, NEW s, NEW t, NEW n \in Nat, NEW m \in Nat, n <= m, Alike(s, t, n),
           NEW g, NEW h, IsKeptTo(g, s, C, n), IsKeptTo(h, t, C, m)
    PROVE  \A i \in 0..n : g[i] = h[i]
  <1> DEFINE bad == {i \in 0..n : g[i] # h[i]}
  <1>1. SUFFICES ASSUME bad # {} PROVE FALSE
    OBVIOUS
  <1>2. PICK i \in bad : \A k \in bad : i <= k
    <2>1. bad \in SUBSET Nat
      OBVIOUS
    <2>. QED  BY <1>1, <2>1, LeastElement
  <1>3. i \in 0..n /\ i \in 0..m /\ g[i] # h[i]
    OBVIOUS
  <1>4. /\ g[i] = IF i = 0 THEN <<>> ELSE IF s[i] \in C THEN Append(g[i - 1], s[i]) ELSE g[i - 1]
        /\ h[i] = IF i = 0 THEN <<>> ELSE IF t[i] \in C THEN Append(h[i - 1], t[i]) ELSE h[i - 1]
    BY <1>3 DEF IsKeptTo
  <1>5. i # 0
    BY <1>3, <1>4
  <1>6. i - 1 \in 0..n /\ i \in 1..n /\ i - 1 \notin bad
    BY <1>2, <1>3, <1>5
  <1>7. g[i - 1] = h[i - 1] /\ s[i] = t[i]
    BY <1>6 DEF Alike
  <1>. QED  BY <1>3, <1>4, <1>5, <1>7

(* KeptOf is what every such function comes to. *)
LEMMA KeptIs ==
    ASSUME NEW T, NEW C, NEW s \in Seq(T)
    PROVE  \E g \in [0..Len(s) -> Seq(T)] : IsKeptTo(g, s, C, Len(s)) /\ KeptOf(s, C) = g[Len(s)]
  <1> DEFINE n == Len(s)
             picked == CHOOSE g : IsKeptTo(g, s, C, n)
  <1>1. n \in Nat /\ n \in 0..Len(s)
    BY LenProperties
  <1>2. PICK g \in [0..n -> Seq(T)] : IsKeptTo(g, s, C, n)
    BY <1>1, KeptUpTo
  <1>3. IsKeptTo(picked, s, C, n)
    BY <1>2
  <1>4. KeptOf(s, C) = picked[n]
    BY DEF KeptOf, IsKeptTo
  <1> HIDE DEF picked
  <1>5. g[n] = picked[n]
    <2>1. Alike(s, s, n) /\ n <= n /\ n \in 0..n
      BY <1>1 DEF Alike
    <2>2. PICK f : f = g
      OBVIOUS
    <2>3. IsKeptTo(f, s, C, n)
      BY <1>2, <2>2
    <2>4. \A i \in 0..n : f[i] = picked[i]
      BY <1>1, <1>3, <2>1, <2>3, KeptAgree
    <2>. QED  BY <2>1, <2>2, <2>4
  <1>. QED  BY <1>2, <1>4, <1>5

LEMMA KeptType ==
    ASSUME NEW T, NEW C, NEW s \in Seq(T)
    PROVE  KeptOf(s, C) \in Seq(T)
  <1>1. Len(s) \in Nat
    BY LenProperties
  <1>. QED  BY <1>1, KeptIs

LEMMA KeptEnds ==
    ASSUME NEW T, NEW C, NEW s \in Seq(T), NEW n, n = Len(s)
    PROVE  \E g : IsKeptTo(g, s, C, n) /\ KeptOf(s, C) = g[n]
  <1>1. PICK g \in [0..Len(s) -> Seq(T)] : IsKeptTo(g, s, C, Len(s)) /\ KeptOf(s, C) = g[Len(s)]
    BY KeptIs
  <1>. QED  BY <1>1

LEMMA KeptEmpty == ASSUME NEW C PROVE KeptOf(<<>>, C) = <<>>
  <1>1. PICK s \in Seq({}) : s = <<>> /\ Len(s) = 0
    BY EmptySeq
  <1>2. PICK g : IsKeptTo(g, s, C, 0) /\ KeptOf(s, C) = g[0]
    BY <1>1, KeptEnds
  <1>3. KeptOf(s, C) = <<>>
    BY <1>2 DEF IsKeptTo
  <1>. QED  BY <1>1, <1>3

LEMMA KeptAppend ==
    ASSUME NEW T, NEW C, NEW s \in Seq(T), NEW x \in T
    PROVE  KeptOf(Append(s, x), C) = IF x \in C THEN Append(KeptOf(s, C), x) ELSE KeptOf(s, C)
  <1>1. PICK n \in Nat, m \in Nat, t \in Seq(T) :
           /\ t = Append(s, x) /\ n = Len(s) /\ m = n + 1 /\ m = Len(t) /\ t[m] = x
           /\ Alike(s, t, n)
    <2>1. /\ Append(s, x) \in Seq(T) /\ Len(s) \in Nat
          /\ Len(Append(s, x)) = Len(s) + 1 /\ Append(s, x)[Len(s) + 1] = x
          /\ \A i \in 1..Len(s) : Append(s, x)[i] = s[i]
      BY AppendProperties, LenProperties
    <2>2. Alike(s, Append(s, x), Len(s))
      BY <2>1 DEF Alike
    <2>3. Len(s) + 1 \in Nat
      BY <2>1
    <2>. QED  BY <2>1, <2>2, <2>3
  <1>2. PICK g : IsKeptTo(g, s, C, n) /\ KeptOf(s, C) = g[n]
    BY <1>1, KeptEnds
  <1>3. PICK h : IsKeptTo(h, t, C, m) /\ KeptOf(t, C) = h[m]
    BY <1>1, KeptEnds, ZenonT(60)
  <1>4. g[n] = h[n]
    <2>1. n <= m /\ n \in 0..n
      BY <1>1
    <2>2. \A i \in 0..n : g[i] = h[i]
      BY <1>1, <1>2, <1>3, <2>1, KeptAgree
    <2>. QED  BY <2>1, <2>2
  <1>5. h[m] = IF t[m] \in C THEN Append(h[m - 1], t[m]) ELSE h[m - 1]
    <2>1. m \in 0..m /\ m # 0
      BY <1>1
    <2>. QED  BY <1>3, <2>1 DEF IsKeptTo
  <1>6. m - 1 = n
    BY <1>1
  <1>. QED  BY <1>1, <1>2, <1>3, <1>4, <1>5, <1>6

LEMMA KeptConcat ==
    ASSUME NEW T, NEW C, NEW s \in Seq(T), NEW u \in Seq(T)
    PROVE  KeptOf(s \o u, C) = KeptOf(s, C) \o KeptOf(u, C)
  <1> DEFINE Joins(t) == KeptOf(s \o t, C) = KeptOf(s, C) \o KeptOf(t, C)
             bad == {n \in Nat : \E t \in Seq(T) : Len(t) = n /\ ~Joins(t)}
  <1>0. KeptOf(s, C) \in Seq(T)
    BY KeptType
  <1>1. bad = {}
    <2>1. SUFFICES ASSUME bad # {} PROVE FALSE
      OBVIOUS
    <2>2. PICK n \in bad : \A k \in bad : n <= k
      BY <2>1, LeastElement
    <2>3. PICK t \in Seq(T) : Len(t) = n /\ ~Joins(t)
      BY <2>2
    <2>4. CASE t = <<>>
      <3>1. s \o t = s /\ KeptOf(s, C) \o <<>> = KeptOf(s, C)
        BY <1>0, <2>4, ConcatEmptySeq
      <3>. QED  BY <2>3, <2>4, <3>1, KeptEmpty
    <2>5. CASE t # <<>>
      <3>1. PICK r \in Seq(T), x \in T : t = Append(r, x)
        BY <2>5, SequenceEmptyOrAppend
      <3>2. Len(r) \in Nat /\ Len(t) = Len(r) + 1
        BY <3>1, AppendProperties, LenProperties
      <3>3. Joins(r)
        <4>1. Len(r) \notin bad
          BY <2>2, <2>3, <3>2, SMTT(30)
        <4>. QED  BY <3>2, <4>1
      <3>4. /\ KeptOf(r, C) \in Seq(T)
            /\ \E z \in Seq(T) : z = s \o r /\ s \o t = Append(z, x)
        <4>1. s \o Append(r, x) = Append(s \o r, x)
          BY <3>1, AppendToConcat
        <4>2. s \o r \in Seq(T)
          BY <3>1, ConcatProperties
        <4>. QED  BY <3>1, <4>1, <4>2, KeptType
      <3>5. KeptOf(s \o t, C) = IF x \in C THEN Append(KeptOf(s \o r, C), x) ELSE KeptOf(s \o r, C)
        <4>1. PICK z \in Seq(T) : z = s \o r /\ s \o t = Append(z, x)
          BY <3>4
        <4>2. KeptOf(Append(z, x), C) = IF x \in C THEN Append(KeptOf(z, C), x) ELSE KeptOf(z, C)
          BY <3>1, KeptAppend
        <4> HIDE DEF Joins
        <4>. QED  BY <4>1, <4>2
      <3>6. KeptOf(t, C) = IF x \in C THEN Append(KeptOf(r, C), x) ELSE KeptOf(r, C)
        BY <3>1, KeptAppend
      <3>7. KeptOf(s, C) \o Append(KeptOf(r, C), x) = Append(KeptOf(s, C) \o KeptOf(r, C), x)
        BY <1>0, <3>1, <3>4, AppendToConcat
      <3>8. Joins(t)
        BY <3>3, <3>5, <3>6, <3>7
      <3>. QED  BY <2>3, <3>8
    <2>. QED  BY <2>4, <2>5
  <1>2. Len(u) \in Nat /\ Len(u) \notin bad
    BY <1>1, LenProperties
  <1>3. Joins(u)
    BY <1>2
  <1>. QED  BY <1>3

LEMMA KeptHead ==
    ASSUME NEW T, NEW C, NEW s \in Seq(T), s # <<>>
    PROVE  /\ Head(s) \in C => KeptOf(s, C) = <<Head(s)>> \o KeptOf(Tail(s), C)
           /\ Head(s) \notin C => KeptOf(s, C) = KeptOf(Tail(s), C)
  <1>1. Head(s) \in T /\ Tail(s) \in Seq(T) /\ <<Head(s)>> \in Seq(T)
    BY HeadThenTail
  <1>2. s = <<Head(s)>> \o Tail(s)
    BY HeadThenTail
  <1>3. KeptOf(s, C) = KeptOf(<<Head(s)>>, C) \o KeptOf(Tail(s), C)
    BY <1>1, <1>2, KeptConcat
  <1>4. KeptOf(<<Head(s)>>, C) = IF Head(s) \in C THEN <<Head(s)>> ELSE <<>>
    <2>1. PICK e \in Seq(T), x \in T : e = <<>> /\ x = Head(s)
      BY <1>1, EmptySeq
    <2>2. KeptOf(Append(e, x), C) = IF x \in C THEN Append(KeptOf(e, C), x) ELSE KeptOf(e, C)
      BY KeptAppend
    <2>3. KeptOf(e, C) = <<>>
      BY <2>1, KeptEmpty
    <2>4. Append(e, x) = <<x>>
      BY <2>1
    <2>. QED  BY <2>1, <2>2, <2>3, <2>4
  <1>5. KeptOf(Tail(s), C) \in Seq(T)
    BY <1>1, KeptType
  <1>6. <<>> \o KeptOf(Tail(s), C) = KeptOf(Tail(s), C)
    BY <1>5, ConcatEmptySeq
  <1>. QED  BY <1>3, <1>4, <1>6

LEMMA KeptMembers ==
    ASSUME NEW T, NEW C, NEW u \in Seq(T)
    PROVE  ToSet(KeptOf(u, C)) = ToSet(u) \cap C
  <1> DEFINE Same(t) == ToSet(KeptOf(t, C)) = ToSet(t) \cap C
             bad == {n \in Nat : \E t \in Seq(T) : Len(t) = n /\ ~Same(t)}
  <1>1. bad = {}
    <2>1. SUFFICES ASSUME bad # {} PROVE FALSE
      OBVIOUS
    <2>2. PICK n \in bad : \A k \in bad : n <= k
      BY <2>1, LeastElement
    <2>3. PICK t \in Seq(T) : Len(t) = n /\ ~Same(t)
      BY <2>2
    <2>4. CASE t = <<>>
      BY <2>3, <2>4, KeptEmpty DEF ToSet
    <2>5. CASE t # <<>>
      <3>1. PICK r \in Seq(T), x \in T : t = Append(r, x)
        BY <2>5, SequenceEmptyOrAppend
      <3>2. Len(r) \in Nat /\ Len(t) = Len(r) + 1
        BY <3>1, AppendProperties, LenProperties
      <3>3. Same(r)
        <4>1. Len(r) \notin bad
          BY <2>2, <2>3, <3>2
        <4>. QED  BY <3>2, <4>1
      <3>4. ToSet(t) = ToSet(r) \cup {x} /\ KeptOf(r, C) \in Seq(T)
        BY <3>1, AppendMembers, KeptType
      <3>5. ToSet(Append(KeptOf(r, C), x)) = ToSet(KeptOf(r, C)) \cup {x}
        BY <3>4, AppendMembers
      <3>6. KeptOf(t, C) = IF x \in C THEN Append(KeptOf(r, C), x) ELSE KeptOf(r, C)
        BY <3>1, KeptAppend
      <3>7. Same(t)
        <4>1. CASE x \in C
          BY <3>3, <3>4, <3>5, <3>6, <4>1
        <4>2. CASE x \notin C
          BY <3>3, <3>4, <3>6, <4>2
        <4>. QED  BY <4>1, <4>2
      <3>. QED  BY <2>3, <3>7
    <2>. QED  BY <2>4, <2>5
  <1>2. Len(u) \in Nat /\ Len(u) \notin bad
    BY <1>1, LenProperties
  <1>3. Same(u)
    BY <1>2
  <1>. QED  BY <1>3

-----------------------------------------------------------------------------
(* A run reaches each folder covered once, and each message named in it    *)
(* once.  Left are the folders still to be written while it writes.        *)
Ended == epc \in {"refused", "escaped"}
Left == IF epc = "folder" THEN {current} ELSE ToSet(todo)
Writing == ~Ended /\ (cli => ~Selecting)

Schedule ==
    /\ cli => /\ (~Ended /\ epc # "folder") => selected = Covered
              /\ epc = "folder" =>
                   Covered = IF Matches(current.path) THEN Append(selected, current) ELSE selected
    /\ ~cli => Covered = yielded /\ (epc = "folder" => current \in ToSet(yielded))
    /\ Selecting \/ epc = "finished" => todo = <<>>
    /\ ToSet(todo) \subseteq ToSet(Covered)
    /\ ~cli /\ epc \in {"write", "message"} => Tail(todo) = <<>>
    /\ epc = "message" => ~ContentsRefused(Head(todo).folder)
    /\ \A n \in FileNames : before[n].state # "written"

ReadableVisits == {v \in VisitType : ~ContentsRefused(v.folder)}
Converting == {m \in Messages : Converts(m)}

(* The single mbox: what it holds and what is still to come is what is due. *)
Stamps(ms, path) == [i \in DOMAIN ms |-> [message |-> ms[i], folder |-> path]]
AllStamped(vs) == FlattenSeq([i \in DOMAIN vs |-> Stamped(vs[i])])
Records(vs) == AllStamped(KeptOf(vs, ReadableVisits))

StoreBoxInv ==
    format = "mbox" =>
        /\ \A n \in FileNames \ {StoreBox} : files[n] = before[n]
        /\ epc \in {"write", "finished"} =>
              /\ files[StoreBox].state = "written"
              /\ files[StoreBox].body \o Records(todo) = Records(Covered)
        /\ epc = "message" =>
              files[StoreBox].body \o (Stamps(KeptOf(msgs, Converting), Head(todo).path)
                                         \o Records(Tail(todo))) = Records(Covered)
        /\ files[StoreBox].state = "written" =>
              \E rest \in Seq(FileRecord) : files[StoreBox].body \o rest = Records(Covered)

(* One mbox for each folder. *)
Box(f) == [mbox |-> f]

FolderBoxesInv ==
    format = "folders" =>
        /\ \A n \in FileNames \ {IndexFile} : files[n] # before[n] =>
              \E v \in ToSet(ReadableFolders) : n = Box(v.folder)
        /\ \A f \in Folders : files[Box(f)].state = "written" =>
              \E rest \in Seq(FileRecord) : files[Box(f)].body \o rest = Plain(Good(f))
        /\ epc = "message" =>
              files[Box(Head(todo).folder)].body \o Plain(KeptOf(msgs, Converting))
                = Plain(Good(Head(todo).folder))
        /\ Writing => \A v \in ToSet(ReadableFolders) :
              \/ \E u \in Left : u.folder = v.folder
              \/ files[Box(v.folder)] = Written(Plain(Good(v.folder)))

(* One file for each message. *)
EmlOf(m) == [eml |-> m]

EmlFilesInv ==
    format = "eml" =>
        /\ \A n \in FileNames : files[n] # before[n] => \E m \in DueMessages : n = EmlOf(m)
        /\ \A m \in Messages : files[EmlOf(m)].state = "written" =>
              files[EmlOf(m)] = Written(<<[message |-> m]>>)
        /\ epc = "message" => ToSet(msgs) \subseteq ToSet(Named(Head(todo).folder))
        /\ epc = "message" => \A m \in ToSet(Good(Head(todo).folder)) :
              m \in ToSet(msgs) \/ files[EmlOf(m)].state = "written"
        /\ Writing => \A v \in ToSet(ReadableFolders) :
              \/ \E u \in Left : u.folder = v.folder
              \/ \A m \in ToSet(Good(v.folder)) : files[EmlOf(m)].state = "written"

ListInv == format = "list" => files = before

OutputInv == Schedule /\ StoreBoxInv /\ FolderBoxesInv /\ EmlFilesInv /\ ListInv

-----------------------------------------------------------------------------
(* What a definition reads of the call and the store never changes. *)
LEMMA JobStays ==
    ASSUME [ExportNext]_evars
    PROVE  UNCHANGED job /\ UNCHANGED <<cli, format, wanted, contents, message, before>>
  <1>1. UNCHANGED job
    BY DEF ExportNext, evars, exportvars, Generate, RefuseContents, Select, PassOver,
           RefuseSelection, List, OpenOutput, Take, SkipFolder, RaiseFirst, OpenFolder,
           WriteMessage, SkipMessage, RaiseMessage, Escape, FinishFolder, Finish, Raise
  <1>. QED  BY <1>1 DEF job

LEMMA JobReads ==
    ASSUME UNCHANGED job
    PROVE  /\ \A f : ContentsRefused(f)' <=> ContentsRefused(f)
           /\ \A f : Named(f)' = Named(f) /\ Good(f)' = Good(f)
           /\ Converting' = Converting /\ ReadableVisits' = ReadableVisits
           /\ \A path : Matches(path)' <=> Matches(path)
           /\ \A v : Stamped(v)' = Stamped(v)
  <1>1. UNCHANGED <<cli, format, wanted, contents, message, before>>
    BY DEF job
  <1>2. \A f : ContentsRefused(f)' <=> ContentsRefused(f)
    BY <1>1 DEF ContentsRefused, Rows
  <1>3. \A f : Named(f)' = Named(f)
    BY <1>1, <1>2 DEF Named
  <1>4. Converting' = Converting
    BY <1>1 DEF Converting, Converts
  <1>5. \A f : Good(f)' = Good(f)
    BY <1>3, <1>4 DEF Good, KeptOf, Converting
  <1>6. ReadableVisits' = ReadableVisits
    BY <1>2 DEF ReadableVisits
  <1>7. \A path : Matches(path)' <=> Matches(path)
    BY <1>1 DEF Matches
  <1>8. \A v : Stamped(v)' = Stamped(v)
    BY <1>5 DEF Stamped
  <1>. QED  BY <1>2, <1>3, <1>4, <1>5, <1>6, <1>7, <1>8

(* The folders covered change with the walk only, which hands out one more. *)
Chosen == {v \in VisitType : ~cli \/ Matches(v.path)}

LEMMA CoveredType ==
    ASSUME WalkTypeOK
    PROVE  /\ Covered \in Seq(VisitType) /\ ReadableFolders \in Seq(VisitType)
           /\ ToSet(Covered) = ToSet(yielded) \cap Chosen
           /\ ToSet(ReadableFolders) = {v \in ToSet(Covered) : ~ContentsRefused(v.folder)}
  <1>1. yielded \in Seq(VisitType)
    BY DEF WalkTypeOK
  <1>2. Covered = KeptOf(yielded, Chosen) /\ ReadableFolders = KeptOf(Covered, ReadableVisits)
    BY DEF Covered, Chosen, ReadableFolders, ReadableVisits
  <1>3. Covered \in Seq(VisitType) /\ ToSet(Covered) = ToSet(yielded) \cap Chosen
    BY <1>1, <1>2, KeptType, KeptMembers
  <1>4. /\ ReadableFolders \in Seq(VisitType)
        /\ ToSet(ReadableFolders) = ToSet(Covered) \cap ReadableVisits
    BY <1>2, <1>3, KeptType, KeptMembers
  <1>5. ToSet(Covered) \in SUBSET VisitType
    BY <1>3 DEF Chosen
  <1>. QED  BY <1>3, <1>4, <1>5 DEF ReadableVisits

LEMMA CoveredStays ==
    ASSUME UNCHANGED job, UNCHANGED yielded
    PROVE  Covered' = Covered /\ ReadableFolders' = ReadableFolders /\ DueMessages' = DueMessages
  <1>1. Chosen' = Chosen
    BY JobReads DEF Chosen, job
  <1>2. Covered' = Covered
    BY <1>1 DEF Covered, Chosen, KeptOf
  <1>3. ReadableFolders' = ReadableFolders
    BY <1>2, JobReads DEF ReadableFolders, ReadableVisits, KeptOf
  <1>4. DueMessages' = DueMessages
    BY <1>3, JobReads DEF DueMessages
  <1>. QED  BY <1>2, <1>3, <1>4

LEMMA GenerateKinds ==
    ASSUME WalkTypeOK, Generate
    PROVE  /\ epc = "walk" /\ UNCHANGED <<job, selected, todo, msgs, count, index, written, files>>
           /\ \/ /\ epc' = "folder" /\ current' \in VisitType
                 /\ yielded' = Append(yielded, current')
              \/ epc' \in {"walk", "walked", "refused"} /\ UNCHANGED yielded
  <1>1. /\ epc = "walk" /\ UNCHANGED <<job, selected, todo, msgs, count, index, written, files>>
        /\ WalkNext
        /\ epc' = CASE gpc' = "expand" -> "folder" [] gpc' = "next" -> "walk"
                    [] gpc' = "done" -> "walked" [] gpc' = "refused" -> "refused"
    BY DEF Generate
  <1>2. CASE YieldFolder
    <2>1. gpc' = "expand" /\ current' = Head(pending) /\ yielded' = Append(yielded, Head(pending))
          /\ pending # <<>>
      BY <1>2 DEF YieldFolder
    <2>2. Head(pending) \in VisitType
      BY <2>1, PopProperties DEF WalkTypeOK
    <2>. QED  BY <1>1, <2>1, <2>2
  <1>3. CASE RefuseFolder \/ Expand \/ SkipChildren \/ RaiseChildren \/ FinishWalk
    <2>1. gpc' \in {"next", "done", "refused"} /\ UNCHANGED yielded
      BY <1>3 DEF RefuseFolder, RaiseChildren, RefuseWalk, Expand, SkipChildren, FinishWalk
    <2>. QED  BY <1>1, <2>1
  <1>. QED  BY <1>1, <1>2, <1>3 DEF WalkNext

LEMMA CoveredGrows ==
    ASSUME WalkTypeOK, UNCHANGED job, NEW v \in VisitType, yielded' = Append(yielded, v)
    PROVE  /\ Covered' = IF ~cli \/ Matches(v.path) THEN Append(Covered, v) ELSE Covered
           /\ ToSet(Covered) \subseteq ToSet(Covered')
           /\ ToSet(ReadableFolders) \subseteq ToSet(ReadableFolders')
           /\ ToSet(ReadableFolders') \subseteq ToSet(ReadableFolders) \cup {v}
           /\ DueMessages \subseteq DueMessages'
  <1>1. yielded \in Seq(VisitType)
    BY DEF WalkTypeOK
  <1>2. Chosen' = Chosen
    BY JobReads DEF Chosen, job
  <1>3. Covered' = IF v \in Chosen THEN Append(Covered, v) ELSE Covered
    <2>1. Covered' = KeptOf(Append(yielded, v), Chosen)
      BY <1>2 DEF Covered, Chosen, KeptOf
    <2>. QED  BY <1>1, <2>1, KeptAppend DEF Covered, Chosen
  <1>4. Covered \in Seq(VisitType)
    BY CoveredType
  <1>5. /\ ReadableFolders' = KeptOf(Covered', ReadableVisits)
        /\ ReadableFolders = KeptOf(Covered, ReadableVisits)
    BY JobReads DEF ReadableFolders, ReadableVisits, KeptOf
  <1>6. ReadableFolders \in Seq(VisitType)
    BY CoveredType
  <1>7. \/ ReadableFolders' = ReadableFolders
        \/ ReadableFolders' = Append(ReadableFolders, v)
    BY <1>3, <1>4, <1>5, KeptAppend
  <1>8. /\ ToSet(ReadableFolders) \subseteq ToSet(ReadableFolders')
        /\ ToSet(ReadableFolders') \subseteq ToSet(ReadableFolders) \cup {v}
    <2>1. ToSet(Append(ReadableFolders, v)) = ToSet(ReadableFolders) \cup {v}
      BY <1>6, AppendMembers
    <2>2. CASE ReadableFolders' = ReadableFolders
      <3>1. ToSet(ReadableFolders') = ToSet(ReadableFolders)
        BY <2>2
      <3>. QED  BY <3>1
    <2>3. CASE ReadableFolders' = Append(ReadableFolders, v)
      <3>1. ToSet(ReadableFolders') = ToSet(ReadableFolders) \cup {v}
        BY <2>1, <2>3
      <3>. QED  BY <3>1
    <2>. QED  BY <1>7, <2>2, <2>3
  <1>9. ToSet(Covered) \subseteq ToSet(Covered')
    BY <1>3, <1>4, AppendMembers
  <1>10. DueMessages \subseteq DueMessages'
    BY <1>8, JobReads DEF DueMessages
  <1>. QED  BY <1>3, <1>8, <1>9, <1>10 DEF Chosen

-----------------------------------------------------------------------------
(* The records of a file: what stands in one for a message. *)
LEMMA PlainType ==
    ASSUME NEW ms \in Seq(Messages)
    PROVE  Plain(ms) \in Seq(FileRecord)
  <1> DEFINE w == [m \in Messages |-> [message |-> m]]
  <1>1. w \in [Messages -> FileRecord]
    BY DEF FileRecord
  <1>2. Plain(ms) = Mapped(ms, w)
    BY LenProperties, ElementOfSeq DEF Plain, Mapped
  <1> HIDE DEF w
  <1>. QED  BY <1>1, <1>2, MappedType

LEMMA PlainEmpty == Plain(<<>>) = <<>>
  BY DEF Plain

LEMMA PlainHead ==
    ASSUME NEW ms \in Seq(Messages), ms # <<>>
    PROVE  Plain(ms) = <<[message |-> Head(ms)]>> \o Plain(Tail(ms))
  <1> DEFINE w == [m \in Messages |-> [message |-> m]]
  <1>1. w \in [Messages -> FileRecord]
    BY DEF FileRecord
  <1>2. Head(ms) \in Messages /\ Tail(ms) \in Seq(Messages)
    BY PopProperties
  <1>3. ASSUME NEW r \in Seq(Messages) PROVE Plain(r) = Mapped(r, w)
    BY LenProperties, ElementOfSeq DEF Plain, Mapped
  <1>4. w[Head(ms)] = [message |-> Head(ms)]
    BY <1>2
  <1> HIDE DEF w
  <1>5. Mapped(ms, w) = <<w[Head(ms)]>> \o Mapped(Tail(ms), w)
    BY <1>1, MappedHead
  <1>. QED  BY <1>2, <1>3, <1>4, <1>5

LEMMA StampsType ==
    ASSUME NEW ms \in Seq(Messages), NEW path \in Seq(Piece)
    PROVE  Stamps(ms, path) \in Seq(FileRecord)
  <1> DEFINE w == [m \in Messages |-> [message |-> m, folder |-> path]]
  <1>1. w \in [Messages -> FileRecord]
    BY DEF FileRecord
  <1>2. Stamps(ms, path) = Mapped(ms, w)
    BY LenProperties, ElementOfSeq DEF Stamps, Mapped
  <1> HIDE DEF w
  <1>. QED  BY <1>1, <1>2, MappedType

LEMMA StampsEmpty == ASSUME NEW path PROVE Stamps(<<>>, path) = <<>>
  BY DEF Stamps

LEMMA StampsHead ==
    ASSUME NEW ms \in Seq(Messages), ms # <<>>, NEW path \in Seq(Piece)
    PROVE  Stamps(ms, path) = <<[message |-> Head(ms), folder |-> path]>> \o Stamps(Tail(ms), path)
  <1> DEFINE w == [m \in Messages |-> [message |-> m, folder |-> path]]
  <1>1. w \in [Messages -> FileRecord]
    BY DEF FileRecord
  <1>2. Head(ms) \in Messages /\ Tail(ms) \in Seq(Messages)
    BY PopProperties
  <1>3. ASSUME NEW r \in Seq(Messages) PROVE Stamps(r, path) = Mapped(r, w)
    BY LenProperties, ElementOfSeq DEF Stamps, Mapped
  <1>4. w[Head(ms)] = [message |-> Head(ms), folder |-> path]
    BY <1>2
  <1> HIDE DEF w
  <1>5. Mapped(ms, w) = <<w[Head(ms)]>> \o Mapped(Tail(ms), w)
    BY <1>1, MappedHead
  <1>. QED  BY <1>2, <1>3, <1>4, <1>5

LEMMA GoodType ==
    ASSUME JobTypes, NEW f \in Folders
    PROVE  /\ Good(f) \in Seq(Messages) /\ Good(f) = KeptOf(Named(f), Converting)
           /\ ToSet(Good(f)) = ToSet(Named(f)) \cap Converting
  <1>1. Named(f) \in Seq(Messages)
    BY NamedType DEF JobTypes
  <1>2. Good(f) = KeptOf(Named(f), Converting)
    BY DEF Good, Converting
  <1>. QED  BY <1>1, <1>2, KeptType, KeptMembers

LEMMA StampedType ==
    ASSUME JobTypes, NEW v \in VisitType
    PROVE  Stamped(v) = Stamps(Good(v.folder), v.path) /\ Stamped(v) \in Seq(FileRecord)
  <1>1. v.folder \in Folders /\ v.path \in Seq(Piece)
    BY DEF VisitType
  <1>2. Stamped(v) = Stamps(Good(v.folder), v.path)
    BY DEF Stamped, Stamps
  <1>. QED  BY <1>1, <1>2, GoodType, StampsType

LEMMA StampedMapped ==
    ASSUME JobTypes
    PROVE  \E w \in [VisitType -> Seq(FileRecord)] :
              /\ \A v \in VisitType : w[v] = Stamped(v)
              /\ \A vs \in Seq(VisitType) : AllStamped(vs) = FlattenSeq(Mapped(vs, w))
  <1> DEFINE w == [v \in VisitType |-> Stamped(v)]
  <1>1. w \in [VisitType -> Seq(FileRecord)] /\ \A v \in VisitType : w[v] = Stamped(v)
    BY StampedType
  <1>2. ASSUME NEW vs \in Seq(VisitType) PROVE AllStamped(vs) = FlattenSeq(Mapped(vs, w))
    <2>1. Mapped(vs, w) = [i \in DOMAIN vs |-> Stamped(vs[i])]
      BY LenProperties, ElementOfSeq DEF Mapped
    <2>. QED  BY <2>1 DEF AllStamped
  <1> HIDE DEF w
  <1>. QED  BY <1>1, <1>2

LEMMA RecordsType ==
    ASSUME JobTypes, NEW vs \in Seq(VisitType)
    PROVE  Records(vs) \in Seq(FileRecord)
  <1>1. PICK w \in [VisitType -> Seq(FileRecord)] :
              \A us \in Seq(VisitType) : AllStamped(us) = FlattenSeq(Mapped(us, w))
    BY StampedMapped
  <1>2. PICK us \in Seq(VisitType) : us = KeptOf(vs, ReadableVisits)
    BY KeptType
  <1>3. Mapped(us, w) \in Seq(Seq(FileRecord))
    BY <1>1, MappedType
  <1>. QED  BY <1>1, <1>2, <1>3, FlatType DEF Records

LEMMA RecordsEmpty == Records(<<>>) = <<>>
  <1>1. KeptOf(<<>>, ReadableVisits) = <<>>
    BY KeptEmpty
  <1>2. AllStamped(<<>>) = FlattenSeq(<<>>)
    BY DEF AllStamped
  <1>. QED  BY <1>1, <1>2, FlatEmpty DEF Records

LEMMA RecordsHead ==
    ASSUME JobTypes, NEW vs \in Seq(VisitType), vs # <<>>
    PROVE  /\ ContentsRefused(Head(vs).folder) => Records(vs) = Records(Tail(vs))
           /\ ~ContentsRefused(Head(vs).folder) =>
                Records(vs) = Stamps(Good(Head(vs).folder), Head(vs).path) \o Records(Tail(vs))
  <1>1. PICK v \in VisitType, r \in Seq(VisitType) : v = Head(vs) /\ r = Tail(vs)
    BY PopProperties
  <1>2. v \in ReadableVisits <=> ~ContentsRefused(v.folder)
    BY DEF ReadableVisits
  <1>3. CASE ContentsRefused(v.folder)
    <2>1. KeptOf(vs, ReadableVisits) = KeptOf(r, ReadableVisits)
      BY <1>1, <1>2, <1>3, KeptHead
    <2>. QED  BY <1>1, <1>3, <2>1 DEF Records
  <1>4. CASE ~ContentsRefused(v.folder)
    <2>1. PICK us \in Seq(VisitType) : us = KeptOf(r, ReadableVisits)
      BY KeptType
    <2>2. KeptOf(vs, ReadableVisits) = <<v>> \o us
      BY <1>1, <1>2, <1>4, <2>1, KeptHead
    <2>3. PICK w \in [VisitType -> Seq(FileRecord)] :
              /\ \A u \in VisitType : w[u] = Stamped(u)
              /\ \A ts \in Seq(VisitType) : AllStamped(ts) = FlattenSeq(Mapped(ts, w))
      BY StampedMapped
    <2>4. PICK ts \in Seq(VisitType) : ts = <<v>> \o us
      BY ConsIs
    <2>5. ts # <<>> /\ Head(ts) = v /\ Tail(ts) = us
      BY <2>4, ConsIs
    <2>6. Mapped(ts, w) = <<w[v]>> \o Mapped(us, w)
      BY <2>5, MappedHead
    <2>7. PICK x \in Seq(FileRecord) : x = w[v] /\ x = Stamps(Good(v.folder), v.path)
      BY <2>3, StampedType
    <2>8. PICK rest \in Seq(Seq(FileRecord)) : rest = Mapped(us, w)
      BY <2>3, MappedType
    <2>9. PICK one \in Seq(Seq(FileRecord)) : one = <<x>> /\ Append(<<>>, x) = one
      <3>1. <<>> \in Seq(Seq(FileRecord)) /\ <<x>> \in Seq(Seq(FileRecord))
        BY EmptySeq
      <3>2. Append(<<>>, x) = <<>> \o <<x>>
        BY <3>1, AppendIsConcat
      <3>3. <<>> \o <<x>> = <<x>>
        BY <3>1, ConcatEmptySeq
      <3>. QED  BY <3>1, <3>2, <3>3
    <2>10. FlattenSeq(one \o rest) = FlattenSeq(one) \o FlattenSeq(rest)
      BY FlatConcat
    <2>11. FlattenSeq(one) = x
      <3>1. <<>> \in Seq(Seq(FileRecord))
        BY EmptySeq
      <3>2. FlattenSeq(Append(<<>>, x)) = FlattenSeq(<<>>) \o x
        BY <3>1, FlatAppend
      <3>. QED  BY <2>9, <3>2, FlatEmpty, ConcatEmptySeq
    <2>12. AllStamped(ts) = x \o AllStamped(us)
      BY <2>3, <2>6, <2>7, <2>8, <2>9, <2>10, <2>11
    <2>. QED  BY <1>1, <1>4, <2>1, <2>2, <2>4, <2>7, <2>12 DEF Records
  <1>. QED  BY <1>1, <1>3, <1>4

(* The messages _write_one passes over before it opens the mbox would not  *)
(* have been written.                                                      *)
LEMMA NothingKept ==
    ASSUME NEW T, NEW s \in Seq(T), NEW C, ToSet(s) \cap C = {}
    PROVE  KeptOf(s, C) = <<>>
  <1>1. PICK k \in Seq(T) : k = KeptOf(s, C)
    BY KeptType
  <1>2. ToSet(k) = {}
    BY <1>1, KeptMembers
  <1>3. k = <<>>
    <2> SUFFICES ASSUME k # <<>> PROVE FALSE
      OBVIOUS
    <2>1. ToSet(k) = {Head(k)} \cup ToSet(Tail(k))
      BY PopMembers
    <2>. QED  BY <1>2, <2>1
  <1>. QED  BY <1>1, <1>3

LEMMA FromFirstKeeps ==
    ASSUME NEW ids \in Seq(Messages)
    PROVE  KeptOf(FromFirstOpened(ids), Converting) = KeptOf(ids, Converting)
  <1> DEFINE opened == {i \in DOMAIN ids : message[ids[i]] # "unopenable"}
  <1>1. /\ DOMAIN ids = 1..Len(ids) /\ Len(ids) \in Nat
        /\ \A i \in 1..Len(ids) : ids[i] \in Messages
    BY LenProperties, ElementOfSeq
  <1>2. FromFirstOpened(ids) = IF opened = {} THEN <<>> ELSE SubSeq(ids, Min(opened), Len(ids))
    BY DEF FromFirstOpened
  <1>3. CASE opened = {}
    <2>1. ToSet(ids) \cap Converting = {}
      BY <1>1, <1>3 DEF ToSet, Converting, Converts
    <2>2. KeptOf(ids, Converting) = <<>>
      BY <2>1, NothingKept
    <2>. QED  BY <1>2, <1>3, <2>2, KeptEmpty
  <1>4. CASE opened # {}
    <2>1. opened \in SUBSET Nat
      BY <1>1
    <2>2. Min(opened) \in opened /\ \A k \in opened : Min(opened) <= k
      BY <1>4, <2>1, MinProperties
    <2>3. PICK n \in 1..Len(ids) : n = Min(opened)
      BY <1>1, <2>2
    <2>4. \A i \in 1..(n - 1) : ids[i] \in Messages /\ ids[i] \notin Converting
      <3> SUFFICES ASSUME NEW i \in 1..(n - 1)
                   PROVE  ids[i] \in Messages /\ ids[i] \notin Converting
        OBVIOUS
      <3>1. i \in 1..Len(ids) /\ i < n
        BY <1>1
      <3>2. i \notin opened
        <4>1. n <= i => FALSE
          BY <3>1
        <4>. QED  BY <2>2, <2>3, <4>1
      <3>3. message[ids[i]] = "unopenable"
        BY <1>1, <3>1, <3>2
      <3>. QED  BY <1>1, <3>1, <3>3 DEF Converting, Converts
    <2> HIDE DEF opened
    <2>5. \A i \in n..Len(ids) : ids[i] \in Messages
      BY <1>1
    <2>6. /\ SubSeq(ids, 1, n - 1) \in Seq(Messages)
          /\ Len(SubSeq(ids, 1, n - 1)) = IF 1 <= n - 1 THEN (n - 1) - 1 + 1 ELSE 0
          /\ \A i \in 1..((n - 1) - 1 + 1) : SubSeq(ids, 1, n - 1)[i] = ids[1 + i - 1]
      BY <2>4, SubSeqProperties
    <2>7. SubSeq(ids, n, Len(ids)) \in Seq(Messages)
      BY <1>1, <2>5, SubSeqProperties
    <2>8. PICK a \in Seq(Messages) : a = SubSeq(ids, 1, n - 1)
      BY <2>6
    <2>9. PICK b \in Seq(Messages) : b = SubSeq(ids, n, Len(ids))
      BY <2>7
    <2>10. ids = a \o b
      <3>1. 1 \in 1..(Len(ids) + 1) /\ n - 1 \in 0..Len(ids) /\ Len(ids) \in (n - 1)..Len(ids)
        BY <1>1
      <3>2. SubSeq(ids, 1, n - 1) \o SubSeq(ids, (n - 1) + 1, Len(ids)) = SubSeq(ids, 1, Len(ids))
        <4>1. PICK one \in 1..(Len(ids) + 1) : one = 1
          BY <3>1
        <4>2. PICK k \in (one - 1)..Len(ids) : k = n - 1
          BY <3>1, <4>1
        <4>3. PICK l \in k..Len(ids) : l = Len(ids)
          BY <3>1, <4>2
        <4>4. SubSeq(ids, one, k) \o SubSeq(ids, k + 1, l) = SubSeq(ids, one, l)
          BY ConcatAdjacentSubSeq
        <4>. QED  BY <4>1, <4>2, <4>3, <4>4
      <3>3. (n - 1) + 1 = n
        BY <1>1
      <3>4. SubSeq(ids, 1, Len(ids)) = ids
        BY SubSeqFull
      <3>. QED  BY <2>8, <2>9, <3>2, <3>3, <3>4
    <2>11. ToSet(a) \cap Converting = {}
      <3>1. Len(a) = n - 1 /\ DOMAIN a = 1..Len(a) /\ \A i \in 1..(n - 1) : a[i] = ids[i]
        BY <2>6, <2>8, LenProperties
      <3>. QED  BY <2>4, <3>1 DEF ToSet
    <2>12. KeptOf(a, Converting) = <<>>
      BY <2>11, NothingKept
    <2>13. KeptOf(a \o b, Converting) = KeptOf(a, Converting) \o KeptOf(b, Converting)
      BY KeptConcat
    <2>14. KeptOf(b, Converting) \in Seq(Messages)
      BY KeptType
    <2>15. KeptOf(ids, Converting) = KeptOf(b, Converting)
      BY <2>10, <2>12, <2>13, <2>14, ConcatEmptySeq
    <2>. QED  BY <1>2, <1>4, <2>3, <2>9, <2>15 DEF opened
  <1>. QED  BY <1>3, <1>4

-----------------------------------------------------------------------------
(* Steps. *)
LEMMA WalkWaits ==
    ASSUME [ExportNext]_evars, ~Generate
    PROVE  /\ UNCHANGED job /\ UNCHANGED <<yielded, current>>
           /\ Covered' = Covered /\ ReadableFolders' = ReadableFolders /\ DueMessages' = DueMessages
  <1>1. UNCHANGED job /\ UNCHANGED <<yielded, current>>
    BY DEF ExportNext, evars, exportvars, walkvars, RefuseContents, Select, PassOver,
           RefuseSelection, List, OpenOutput, Take, SkipFolder, RaiseFirst, OpenFolder,
           WriteMessage, SkipMessage, RaiseMessage, Escape, FinishFolder, Finish, Raise
  <1>. QED  BY <1>1, CoveredStays

LEMMA ScheduleStep ==
    ASSUME WalkTypeOK, ExportTypes, Schedule, [ExportNext]_evars
    PROVE  Schedule'
  <1>1. UNCHANGED job /\ UNCHANGED <<cli, format, wanted, contents, message, before>>
    BY JobStays
  <1>2. /\ \A f : ContentsRefused(f)' <=> ContentsRefused(f)
        /\ \A path : Matches(path)' <=> Matches(path)
    BY <1>1, JobReads
  <1>3. /\ yielded \in Seq(VisitType) /\ current \in VisitType
        /\ selected \in Seq(VisitType) /\ todo \in Seq(VisitType)
        /\ Covered \in Seq(VisitType)
    BY CoveredType DEF WalkTypeOK, ExportTypes, ProgressTypes
  <1>4. \A n \in FileNames : before'[n].state # "written"
    BY <1>1 DEF Schedule
  <1>5. ASSUME todo # <<>> PROVE ToSet(Tail(todo)) \subseteq ToSet(Covered)
    BY <1>3, <1>5, PopMembers DEF Schedule
  <1>6. CASE Generate
    <2>1. /\ epc = "walk" /\ UNCHANGED <<selected, todo>>
          /\ \/ /\ epc' = "folder" /\ current' \in VisitType
                /\ yielded' = Append(yielded, current')
             \/ epc' \in {"walk", "walked", "refused"} /\ UNCHANGED yielded
      BY <1>6, GenerateKinds
    <2>2. /\ cli => selected = Covered
          /\ ~cli => Covered = yielded
          /\ todo = <<>> /\ ToSet(todo) = {}
      BY <2>1 DEF Schedule, Ended, Selecting, ToSet
    <2>3. CASE epc' = "folder" /\ current' \in VisitType /\ yielded' = Append(yielded, current')
      <3>1. Covered' = IF ~cli \/ Matches(current'.path) THEN Append(Covered, current') ELSE Covered
        BY <1>1, <2>3, CoveredGrows
      <3>2. current' \in ToSet(yielded')
        BY <1>3, <2>3, AppendMembers
      <3>. QED  BY <1>1, <1>2, <1>4, <2>1, <2>2, <2>3, <3>1, <3>2 DEF Schedule, Ended, Selecting
    <2>4. CASE epc' \in {"walk", "walked", "refused"} /\ UNCHANGED yielded
      <3>1. Covered' = Covered
        BY <1>1, <2>4, CoveredStays
      <3>. QED  BY <1>1, <1>2, <1>4, <2>1, <2>2, <2>4, <3>1 DEF Schedule, Ended, Selecting
    <2>. QED  BY <2>1, <2>3, <2>4
  <1>7. ASSUME ~Generate
        PROVE  UNCHANGED <<yielded, current>> /\ Covered' = Covered
    BY <1>7, WalkWaits
  <1>8. CASE RefuseContents \/ RefuseSelection \/ RaiseFirst \/ RaiseMessage \/ Escape
    <2>1. epc' \in {"refused", "escaped"} /\ UNCHANGED <<selected, todo>> /\ epc # "walk"
      BY <1>8 DEF RefuseContents, RefuseSelection, RaiseFirst, RaiseMessage, Escape, Raise
    <2>2. ~Generate
      BY <2>1 DEF Generate
    <2>. QED  BY <1>1, <1>2, <1>4, <1>7, <2>1, <2>2 DEF Schedule, Ended, Selecting
  <1>9. CASE Select \/ PassOver
    <2>1. /\ epc = "folder" /\ epc' = "walk" /\ cli /\ UNCHANGED todo
          /\ selected' = IF Matches(current.path) THEN Append(selected, current) ELSE selected
      BY <1>9 DEF Select, PassOver
    <2>2. ~Generate
      BY <2>1 DEF Generate
    <2>. QED  BY <1>1, <1>2, <1>4, <1>7, <2>1, <2>2 DEF Schedule, Ended, Selecting
  <1>10. CASE List \/ OpenOutput
    <2>1. /\ epc = "walked" /\ cli /\ UNCHANGED selected
          /\ \/ epc' = "finished" /\ UNCHANGED todo
             \/ epc' = "write" /\ todo' = selected
      BY <1>10 DEF List, OpenOutput
    <2>2. ~Generate
      BY <2>1 DEF Generate
    <2>. QED  BY <1>1, <1>2, <1>4, <1>7, <2>1, <2>2 DEF Schedule, Ended, Selecting
  <1>11. CASE Take
    <2>1. epc = "folder" /\ epc' = "write" /\ ~cli /\ todo' = <<current>> /\ UNCHANGED selected
      BY <1>11 DEF Take
    <2>2. ~Generate
      BY <2>1 DEF Generate
    <2>3. ToSet(<<current>>) = {current} /\ Tail(<<current>>) = <<>>
      BY DEF ToSet
    <2>. QED  BY <1>1, <1>2, <1>4, <1>7, <2>1, <2>2, <2>3 DEF Schedule, Ended, Selecting
  <1>12. CASE SkipFolder \/ FinishFolder
    <2>1. /\ epc \in {"write", "message"} /\ todo # <<>> /\ todo' = Tail(todo)
          /\ epc' = AfterFolder /\ UNCHANGED selected
      BY <1>12 DEF SkipFolder, FinishFolder, ExportTypes, ProgressTypes
    <2>2. ~Generate
      BY <2>1 DEF Generate
    <2>. QED  BY <1>1, <1>2, <1>4, <1>5, <1>7, <2>1, <2>2
              DEF Schedule, Ended, Selecting, AfterFolder
  <1>13. CASE OpenFolder
    <2>1. /\ epc = "write" /\ epc' = "message" /\ UNCHANGED <<todo, selected>>
          /\ ~ContentsRefused(Head(todo).folder)
      BY <1>13 DEF OpenFolder
    <2>2. ~Generate
      BY <2>1 DEF Generate
    <2>. QED  BY <1>1, <1>2, <1>4, <1>7, <2>1, <2>2 DEF Schedule, Ended, Selecting
  <1>14. CASE WriteMessage \/ SkipMessage
    <2>1. epc = "message" /\ epc' = "message" /\ UNCHANGED <<todo, selected>>
      BY <1>14 DEF WriteMessage, SkipMessage
    <2>2. ~Generate
      BY <2>1 DEF Generate
    <2>. QED  BY <1>1, <1>2, <1>4, <1>7, <2>1, <2>2 DEF Schedule, Ended, Selecting
  <1>15. CASE Finish
    <2>1. /\ epc' = "finished" /\ UNCHANGED <<todo, selected>> /\ epc \in {"write", "walked"}
          /\ epc = "write" => cli /\ todo = <<>>
      BY <1>15 DEF Finish
    <2>2. ~Generate
      BY <2>1 DEF Generate
    <2>. QED  BY <1>1, <1>2, <1>4, <1>7, <2>1, <2>2 DEF Schedule, Ended, Selecting
  <1>16. CASE UNCHANGED evars
    <2>1. UNCHANGED <<epc, todo, selected, current, yielded>>
      BY <1>16 DEF evars, exportvars, walkvars
    <2>2. Covered' = Covered
      BY <1>1, <2>1, CoveredStays
    <2>. QED  BY <1>1, <1>2, <1>4, <2>1, <2>2 DEF Schedule, Ended, Selecting
  <1>. QED  BY <1>6, <1>8, <1>9, <1>10, <1>11, <1>12, <1>13, <1>14, <1>15, <1>16 DEF ExportNext

LEMMA ScheduleStarts ==
    ASSUME ExportInit
    PROVE  Schedule
  <1>1. /\ epc = "walk" /\ selected = <<>> /\ todo = <<>> /\ yielded = <<>>
        /\ \E c \in Calls : before = Fresh(c.before)
    BY DEF ExportInit, WalkStarts
  <1>2. \A n \in FileNames : before[n].state # "written"
    BY <1>1, ExportCallsAssumption DEF Fresh
  <1>3. Covered = <<>>
    BY <1>1, KeptEmpty DEF Covered
  <1>4. ToSet(todo) = {}
    BY <1>1 DEF ToSet
  <1>. QED  BY <1>1, <1>2, <1>3, <1>4 DEF Schedule, Ended, Selecting

(* The single mbox. *)
LEMMA RecordsReads ==
    ASSUME UNCHANGED job
    PROVE  /\ Records(todo)' = Records(todo')
           /\ Records(Tail(todo))' = Records(Tail(todo'))
           /\ Records(Covered)' = Records(Covered')
           /\ Stamps(KeptOf(msgs, Converting), Head(todo).path)'
                = Stamps(KeptOf(msgs', Converting), Head(todo').path)
  <1>1. \A v : Stamped(v)' = Stamped(v)
    BY JobReads
  <1>2. ReadableVisits' = ReadableVisits /\ Converting' = Converting
    BY JobReads
  <1>3. Records(todo)' = Records(todo')
    BY <1>1, <1>2 DEF Records, AllStamped, KeptOf
  <1>4. Records(Tail(todo))' = Records(Tail(todo'))
    <2>1. KeptOf(Tail(todo), ReadableVisits)' = KeptOf(Tail(todo'), ReadableVisits)
      BY <1>2 DEF KeptOf
    <2>2. AllStamped(KeptOf(Tail(todo), ReadableVisits))'
            = AllStamped(KeptOf(Tail(todo'), ReadableVisits))
      BY <1>1, <2>1 DEF AllStamped
    <2>. QED  BY <2>2 DEF Records
  <1>5. Records(Covered)' = Records(Covered')
    <2>1. KeptOf(Covered, ReadableVisits)' = KeptOf(Covered', ReadableVisits)
      BY <1>2 DEF KeptOf
    <2>2. AllStamped(KeptOf(Covered, ReadableVisits))' = AllStamped(KeptOf(Covered', ReadableVisits))
      BY <1>1, <2>1 DEF AllStamped
    <2>. QED  BY <2>2 DEF Records
  <1>6. Stamps(KeptOf(msgs, Converting), Head(todo).path)'
          = Stamps(KeptOf(msgs', Converting), Head(todo').path)
    BY <1>2 DEF Stamps, KeptOf
  <1>. QED  BY <1>3, <1>4, <1>5, <1>6

LEMMA StoreBoxStep ==
    ASSUME WalkTypeOK, ExportTypes, SelectionInv, Schedule, StoreBoxInv, [ExportNext]_evars
    PROVE  StoreBoxInv'
  <1>1. UNCHANGED job /\ UNCHANGED <<cli, format, wanted, contents, message, before>>
    BY JobStays
  <1>2. SUFFICES ASSUME format = "mbox" PROVE StoreBoxInv'
    BY <1>1 DEF StoreBoxInv
  <1> DEFINE body == files[StoreBox].body
             due == Records(Covered)
             Holds(rest) == body \o rest = due
  <1>3. JobTypes /\ cli
    BY <1>2 DEF ExportTypes, JobTypes
  <1>4. /\ todo \in Seq(VisitType) /\ msgs \in Seq(Messages)
        /\ Covered \in Seq(VisitType)
        /\ due \in Seq(FileRecord)
        /\ \A r \in Seq(VisitType) : Records(r) \in Seq(FileRecord)
        /\ epc = "message" => todo # <<>>
    BY <1>3, CoveredType, RecordsType DEF ExportTypes, ProgressTypes
  <1>5. /\ files \in [FileNames -> File] /\ StoreBox \in FileNames
        /\ files[StoreBox].state = "written" => body \in Seq(FileRecord)
        /\ epc \in {"write", "message"} => files[StoreBox].state = "written"
    BY <1>2, FileNamesDiffer DEF ExportTypes, FileTypes, BeingWritten
  <1>6. /\ \A n \in FileNames \ {StoreBox} : files[n] = before[n]
        /\ epc \in {"write", "finished"} => files[StoreBox].state = "written" /\ Holds(Records(todo))
        /\ epc = "message" => Holds(Stamps(KeptOf(msgs, Converting), Head(todo).path)
                                      \o Records(Tail(todo)))
        /\ files[StoreBox].state = "written" => \E rest \in Seq(FileRecord) : Holds(rest)
    BY <1>2 DEF StoreBoxInv
  <1>7. Selecting => files = before /\ files[StoreBox].state # "written"
    BY <1>3, <1>5 DEF SelectionInv, Schedule
  <1>8. ASSUME todo # <<>>
        PROVE  /\ Head(todo) \in VisitType /\ Tail(todo) \in Seq(VisitType)
               /\ Head(todo).folder \in Folders /\ Head(todo).path \in Seq(Piece)
    <2>1. Head(todo) \in VisitType /\ Tail(todo) \in Seq(VisitType)
      BY <1>4, <1>8, PopProperties
    <2>. QED  BY <2>1 DEF VisitType
  <1>9. /\ Records(todo)' = Records(todo') /\ Records(Tail(todo))' = Records(Tail(todo'))
        /\ Records(Covered)' = Records(Covered')
        /\ Stamps(KeptOf(msgs, Converting), Head(todo).path)'
             = Stamps(KeptOf(msgs', Converting), Head(todo').path)
    BY <1>1, RecordsReads
  <1>10. SUFFICES
           /\ \A n \in FileNames \ {StoreBox} : files'[n] = before[n]
           /\ epc' \in {"write", "finished"} =>
                 /\ files'[StoreBox].state = "written"
                 /\ files'[StoreBox].body \o Records(todo') = Records(Covered')
           /\ epc' = "message" =>
                 files'[StoreBox].body \o (Stamps(KeptOf(msgs', Converting), Head(todo').path)
                                             \o Records(Tail(todo'))) = Records(Covered')
           /\ files'[StoreBox].state = "written" =>
                 \E rest \in Seq(FileRecord) : files'[StoreBox].body \o rest = Records(Covered')
    BY <1>1, <1>9 DEF StoreBoxInv
  <1> HIDE DEF body, due, Holds
  <1>11. ASSUME ~Generate PROVE Covered' = Covered
    BY <1>11, WalkWaits
  <1>12. CASE Selecting /\ ~OpenOutput /\ ~Take
    <2>1. /\ epc' \notin {"write", "message", "finished"} /\ files' = files
      <3>1. CASE Generate
        BY <3>1, GenerateKinds
      <3>2. CASE RefuseContents \/ RefuseSelection \/ Select \/ PassOver
        BY <3>2 DEF RefuseContents, RefuseSelection, Raise, Select, PassOver
      <3>3. CASE List
        BY <1>2, <3>3 DEF List
      <3>4. CASE SkipFolder \/ RaiseFirst \/ OpenFolder \/ WriteMessage \/ SkipMessage
                 \/ RaiseMessage \/ Escape \/ FinishFolder \/ Finish
        BY <1>3, <1>12, <3>4
        DEF Selecting, SkipFolder, RaiseFirst, OpenFolder, WriteMessage, SkipMessage,
            RaiseMessage, Escape, FinishFolder, Finish
      <3>5. CASE UNCHANGED evars
        BY <1>12, <3>5 DEF evars, exportvars, Selecting
      <3>. QED  BY <1>12, <3>1, <3>2, <3>3, <3>4, <3>5 DEF ExportNext
    <2>. QED  BY <1>6, <1>7, <1>12, <2>1
  <1>13. CASE OpenOutput
    <2>1. /\ epc = "walked" /\ epc' = "write" /\ todo' = selected
          /\ files' = [files EXCEPT ![StoreBox] = Written(<<>>)]
      BY <1>2, <1>13 DEF OpenOutput
    <2>2. selected = Covered /\ Covered' = Covered
      BY <1>3, <1>11, <2>1 DEF Schedule, Ended, Generate
    <2>3. files'[StoreBox].state = "written" /\ files'[StoreBox].body = <<>>
      BY <1>5, <2>1 DEF Written
    <2>4. <<>> \o due = due
      BY <1>4, ConcatEmptySeq
    <2>5. \A n \in FileNames \ {StoreBox} : files'[n] = before[n]
      BY <1>5, <1>6, <2>1
    <2>. QED  BY <1>4, <2>1, <2>2, <2>3, <2>4, <2>5 DEF due
  <1>14. CASE Take
    BY <1>3, <1>14 DEF Take
  <1>15. CASE ~Selecting /\ ~Generate
    <2>1. Covered' = Covered
      BY <1>11, <1>15
    <2>2. CASE RefuseContents \/ RefuseSelection \/ Select \/ PassOver \/ List \/ OpenOutput \/ Take
      BY <1>15, <2>2 DEF Selecting, RefuseContents, RefuseSelection, Select, PassOver, List,
                         OpenOutput, Take
    <2>3. CASE RaiseFirst \/ RaiseMessage \/ Escape
      <3>1. epc' \in {"refused", "escaped"} /\ files' = files
        BY <2>3 DEF RaiseFirst, RaiseMessage, Escape, Raise
      <3>. QED  BY <1>6, <2>1, <3>1 DEF Holds, body, due
    <2>4. CASE SkipFolder
      <3>1. /\ epc = "write" /\ todo # <<>> /\ ContentsRefused(Head(todo).folder)
            /\ todo' = Tail(todo) /\ epc' = "write" /\ files' = files
        BY <1>3, <2>4 DEF SkipFolder, AfterFolder
      <3>2. Records(todo') = Records(todo)
        BY <1>3, <1>4, <3>1, RecordsHead
      <3>. QED  BY <1>6, <2>1, <3>1, <3>2 DEF Holds, body, due
    <2>5. CASE OpenFolder
      <3>1. /\ epc = "write" /\ todo # <<>> /\ ~ContentsRefused(Head(todo).folder)
            /\ todo' = todo /\ epc' = "message" /\ files' = files
            /\ msgs' = Named(Head(todo).folder)
        BY <1>2, <2>5 DEF OpenFolder
      <3>2. KeptOf(msgs', Converting) = Good(Head(todo).folder)
        BY <1>3, <1>8, <3>1, GoodType
      <3>3. Stamps(KeptOf(msgs', Converting), Head(todo').path) \o Records(Tail(todo')) = Records(todo)
        BY <1>3, <1>4, <3>1, <3>2, RecordsHead
      <3>. QED  BY <1>6, <2>1, <3>1, <3>3 DEF Holds, body, due
    <2>6. ASSUME msgs # <<>>
          PROVE  /\ Head(msgs) \in Messages /\ Tail(msgs) \in Seq(Messages)
                 /\ KeptOf(Tail(msgs), Converting) \in Seq(Messages)
                 /\ Head(msgs) \in Converting =>
                      KeptOf(msgs, Converting) = <<Head(msgs)>> \o KeptOf(Tail(msgs), Converting)
                 /\ Head(msgs) \notin Converting =>
                      KeptOf(msgs, Converting) = KeptOf(Tail(msgs), Converting)
      <3>1. Head(msgs) \in Messages /\ Tail(msgs) \in Seq(Messages)
        BY <1>4, <2>6, PopProperties
      <3>2. KeptOf(Tail(msgs), Converting) \in Seq(Messages)
        BY <3>1, KeptType
      <3>. QED  BY <1>4, <2>6, <3>1, <3>2, KeptHead
    <2>7. CASE WriteMessage
      <3>1. /\ epc = "message" /\ epc' = "message" /\ todo' = todo /\ msgs # <<>>
            /\ msgs' = Tail(msgs) /\ Converts(Head(msgs)) /\ todo # <<>>
            /\ files' = [files EXCEPT ![StoreBox] =
                 Written(Append(@.body, [message |-> Head(msgs), folder |-> Head(todo).path]))]
        BY <1>2, <1>4, <2>7 DEF WriteMessage, Record
      <3>2. PICK m \in Messages, path \in Seq(Piece), ts \in Seq(VisitType) :
               m = Head(msgs) /\ path = Head(todo).path /\ ts = Tail(todo)
        BY <1>8, <2>6, <3>1
      <3>3. PICK later \in Seq(Messages) : later = KeptOf(Tail(msgs), Converting)
        BY <2>6, <3>1
      <3>4. PICK r \in FileRecord : r = [message |-> m, folder |-> path]
        BY DEF FileRecord
      <3>5. KeptOf(msgs, Converting) = <<m>> \o later
        BY <2>6, <3>1, <3>2, <3>3 DEF Converting
      <3>6. PICK kept \in Seq(Messages) :
               kept = KeptOf(msgs, Converting) /\ kept # <<>> /\ Head(kept) = m /\ Tail(kept) = later
        BY <1>4, <3>2, <3>3, <3>5, KeptType, ConsIs, ZenonT(60)
      <3>7. Stamps(kept, path) = <<r>> \o Stamps(later, path)
        BY <3>4, <3>6, StampsHead
      <3>8. PICK b \in Seq(FileRecord), s \in Seq(FileRecord), t \in Seq(FileRecord) :
               b = body /\ s = Stamps(later, path) /\ t = Records(ts)
        BY <1>4, <1>5, <3>1, StampsType
      <3>9. b \o ((<<r>> \o s) \o t) = due
        BY <1>6, <3>1, <3>2, <3>6, <3>7, <3>8 DEF Holds
      <3>10. Append(b, r) \o (s \o t) = due /\ s \o t \in Seq(FileRecord)
        <4>1. <<r>> \in Seq(FileRecord) /\ s \o t \in Seq(FileRecord)
          BY ConcatProperties
        <4>2. (<<r>> \o s) \o t = <<r>> \o (s \o t)
          BY <4>1, ConcatAssociative
        <4>3. Append(b, r) \o (s \o t) = b \o (<<r>> \o (s \o t))
          BY <4>1, AppendThenRest, SMTT(30)
        <4>. QED  BY <3>9, <4>1, <4>2, <4>3
      <3>11. /\ files'[StoreBox].state = "written" /\ files'[StoreBox].body = Append(b, r)
             /\ \A n \in FileNames \ {StoreBox} : files'[n] = before[n]
        BY <1>5, <1>6, <3>1, <3>2, <3>4, <3>8 DEF Written, body
      <3>12. Stamps(KeptOf(msgs', Converting), Head(todo').path) \o Records(Tail(todo')) = s \o t
        BY <3>1, <3>2, <3>3, <3>8
      <3>. QED  BY <2>1, <3>1, <3>10, <3>11, <3>12 DEF due
    <2>8. CASE SkipMessage
      <3>1. /\ epc = "message" /\ epc' = "message" /\ todo' = todo /\ msgs # <<>>
            /\ msgs' = Tail(msgs) /\ Head(msgs) \notin Converting /\ files' = files
        BY <2>8 DEF SkipMessage, Refuses, Converting, Converts
      <3>2. KeptOf(msgs', Converting) = KeptOf(msgs, Converting)
        BY <2>6, <3>1
      <3>. QED  BY <1>6, <2>1, <3>1, <3>2 DEF Holds, body, due
    <2>9. CASE FinishFolder
      <3>1. /\ epc = "message" /\ epc' = "write" /\ todo' = Tail(todo) /\ msgs = <<>>
            /\ files' = files /\ todo # <<>>
        BY <1>2, <1>3, <1>4, <2>9 DEF FinishFolder, AfterFolder
      <3>2. Stamps(KeptOf(msgs, Converting), Head(todo).path) = <<>>
        BY <3>1, KeptEmpty, StampsEmpty
      <3>3. <<>> \o Records(Tail(todo)) = Records(todo')
        BY <1>4, <1>8, <3>1, ConcatEmptySeq
      <3>. QED  BY <1>5, <1>6, <2>1, <3>1, <3>2, <3>3 DEF Holds, body, due
    <2>10. CASE Finish
      <3>1. epc = "write" /\ epc' = "finished" /\ todo' = todo /\ files' = files
        BY <1>2, <1>3, <2>10 DEF Finish
      <3>. QED  BY <1>6, <2>1, <3>1 DEF Holds, body, due
    <2>11. CASE UNCHANGED evars
      <3>1. UNCHANGED <<epc, todo, msgs, files>>
        BY <2>11 DEF evars, exportvars
      <3>. QED  BY <1>6, <2>1, <3>1 DEF Holds, body, due
    <2>. QED  BY <1>15, <2>2, <2>3, <2>4, <2>5, <2>7, <2>8, <2>9, <2>10, <2>11 DEF ExportNext
  <1>16. Generate => Selecting
    BY DEF Generate, Selecting
  <1>. QED  BY <1>12, <1>13, <1>14, <1>15, <1>16

-----------------------------------------------------------------------------
(* One mbox for each folder. *)
LEMMA FolderReads ==
    ASSUME UNCHANGED job
    PROVE  /\ Plain(KeptOf(msgs, Converting))' = Plain(KeptOf(msgs', Converting))
           /\ Named(Head(todo).folder)' = Named(Head(todo').folder)
           /\ Good(Head(todo).folder)' = Good(Head(todo').folder)
           /\ Plain(Good(Head(todo).folder))' = Plain(Good(Head(todo').folder))
           /\ \A f : Plain(Good(f))' = Plain(Good(f))
  <1>1. Converting' = Converting /\ \A f : Named(f)' = Named(f) /\ Good(f)' = Good(f)
    BY JobReads
  <1>2. contents' = contents
    BY DEF job
  <1>3. Plain(KeptOf(msgs, Converting))' = Plain(KeptOf(msgs', Converting))
    BY <1>1 DEF Plain, KeptOf
  <1>4. Named(Head(todo).folder)' = Named(Head(todo').folder)
    BY <1>2 DEF Named, ContentsRefused, Rows
  <1>5. Good(Head(todo).folder)' = Good(Head(todo').folder)
    <2>1. {m \in Messages : Converts(m)}' = {m \in Messages : Converts(m)}
      BY DEF job, Converts
    <2>. QED  BY <1>4, <2>1 DEF Good, KeptOf
  <1>6. Plain(Good(Head(todo).folder))' = Plain(Good(Head(todo').folder))
    BY <1>5 DEF Plain
  <1>7. \A f : Plain(Good(f))' = Plain(Good(f))
    BY <1>1 DEF Plain
  <1>. QED  BY <1>1, <1>3, <1>4, <1>5, <1>6, <1>7

LEMMA WrittenFile ==
    ASSUME NEW file \in File, file.state = "written"
    PROVE  file = Written(file.body)
  BY DEF File, Written

LEMMA BoxesDiffer ==
    ASSUME NEW f, NEW g, Box(f) = Box(g)
    PROVE  f = g
  <1>1. Box(f).mbox = f /\ Box(g).mbox = g
    BY DEF Box
  <1>. QED  BY <1>1

LEMMA FolderBoxesStep ==
    ASSUME WalkTypeOK, ExportTypes, SelectionInv, Schedule, FolderBoxesInv, [ExportNext]_evars
    PROVE  FolderBoxesInv'
  <1>1. UNCHANGED job /\ UNCHANGED <<cli, format, wanted, contents, message, before>>
    BY JobStays
  <1>2. SUFFICES ASSUME format = "folders" PROVE FolderBoxesInv'
    BY <1>1 DEF FolderBoxesInv
  <1> DEFINE Due(f) == Plain(Good(f))
             Readable == ToSet(ReadableFolders)
             Later == KeptOf(msgs, Converting)
             Part(body, f) == \E rest \in Seq(FileRecord) : body \o rest = Due(f)
  <1>3. JobTypes
    BY DEF ExportTypes
  <1>4. /\ todo \in Seq(VisitType) /\ msgs \in Seq(Messages)
        /\ Covered \in Seq(VisitType) /\ ReadableFolders \in Seq(VisitType)
        /\ Readable = {v \in ToSet(Covered) : ~ContentsRefused(v.folder)}
        /\ Readable \in SUBSET VisitType
        /\ epc = "message" => todo # <<>>
    BY CoveredType, ToSetType DEF ExportTypes, ProgressTypes
  <1>5. /\ files \in [FileNames -> File]
        /\ \A f \in Folders : /\ Box(f) \in FileNames /\ Box(f) # IndexFile
                              /\ files[Box(f)].state = "written" =>
                                    /\ files[Box(f)].body \in Seq(FileRecord)
                                    /\ files[Box(f)] = Written(files[Box(f)].body)
        /\ epc = "message" => files[Box(Head(todo).folder)].state = "written"
    BY <1>2, FileNamesDiffer, WrittenFile DEF ExportTypes, FileTypes, BeingWritten, Box
  <1>6. /\ \A n \in FileNames \ {IndexFile} : files[n] # before[n] =>
              \E v \in Readable : n = Box(v.folder)
        /\ \A f \in Folders : files[Box(f)].state = "written" => Part(files[Box(f)].body, f)
        /\ epc = "message" => files[Box(Head(todo).folder)].body \o Plain(Later)
                                = Due(Head(todo).folder)
        /\ Writing => \A v \in Readable :
              (\E u \in Left : u.folder = v.folder) \/ files[Box(v.folder)] = Written(Due(v.folder))
    BY <1>2 DEF FolderBoxesInv
  <1>7. \A f \in Folders : Good(f) \in Seq(Messages) /\ Due(f) \in Seq(FileRecord)
    BY <1>3, GoodType, PlainType
  <1>8. ASSUME todo # <<>>
        PROVE  /\ Head(todo) \in VisitType /\ Tail(todo) \in Seq(VisitType)
               /\ Head(todo).folder \in Folders
               /\ ToSet(todo) = {Head(todo)} \cup ToSet(Tail(todo))
    <2>1. Head(todo) \in VisitType /\ Tail(todo) \in Seq(VisitType)
      BY <1>4, <1>8, PopProperties
    <2>2. ToSet(todo) = {Head(todo)} \cup ToSet(Tail(todo))
      BY <1>4, <1>8, PopMembers
    <2>. QED  BY <2>1, <2>2 DEF VisitType
  <1>9. /\ Plain(KeptOf(msgs, Converting))' = Plain(KeptOf(msgs', Converting))
        /\ Good(Head(todo).folder)' = Good(Head(todo').folder)
        /\ Plain(Good(Head(todo).folder))' = Plain(Good(Head(todo').folder))
        /\ \A f : Plain(Good(f))' = Plain(Good(f))
    BY <1>1, FolderReads
  <1>10. SUFFICES
           /\ \A n \in FileNames \ {IndexFile} : files'[n] # before[n] =>
                 \E v \in ToSet(ReadableFolders') : n = Box(v.folder)
           /\ \A f \in Folders : files'[Box(f)].state = "written" => Part(files'[Box(f)].body, f)
           /\ epc' = "message" =>
                 files'[Box(Head(todo').folder)].body \o Plain(KeptOf(msgs', Converting))
                   = Due(Head(todo').folder)
           /\ Writing' => \A v \in ToSet(ReadableFolders') :
                 (\E u \in Left' : u.folder = v.folder) \/ files'[Box(v.folder)] = Written(Due(v.folder))
    BY <1>1, <1>9 DEF FolderBoxesInv, Box
  <1> HIDE DEF Due, Later, Part
  <1>11. ASSUME ~Generate
         PROVE  ToSet(ReadableFolders') = Readable /\ UNCHANGED current
    BY <1>11, WalkWaits
  <1>12. CASE Generate
    <2>1. /\ epc = "walk" /\ UNCHANGED <<todo, files>> /\ todo = <<>>
          /\ \/ /\ epc' = "folder" /\ current' \in VisitType
                /\ yielded' = Append(yielded, current')
             \/ epc' \in {"walk", "walked", "refused"} /\ UNCHANGED yielded
      BY <1>12, GenerateKinds DEF Schedule, Selecting
    <2>2. Left = {}
      BY <2>1 DEF Left, ToSet
    <2>3. ASSUME Writing' PROVE \A v \in Readable : files[Box(v.folder)] = Written(Due(v.folder))
      <3>1. ~cli /\ Writing
        BY <1>1, <2>1, <2>3 DEF Writing, Ended, Selecting
      <3>. QED  BY <1>6, <2>2, <3>1
    <2>4. CASE epc' = "folder" /\ current' \in VisitType /\ yielded' = Append(yielded, current')
      <3>1. /\ Readable \subseteq ToSet(ReadableFolders')
            /\ ToSet(ReadableFolders') \subseteq Readable \cup {current'}
        BY <1>1, <2>4, CoveredGrows
      <3>2. Left' = {current'}
        BY <2>4 DEF Left
      <3>. QED  BY <1>6, <2>1, <2>3, <2>4, <3>1, <3>2
    <2>5. CASE epc' \in {"walk", "walked", "refused"} /\ UNCHANGED yielded
      <3>1. ToSet(ReadableFolders') = Readable
        BY <1>1, <2>5, CoveredStays
      <3>. QED  BY <1>6, <2>1, <2>3, <2>5, <3>1
    <2>. QED  BY <2>1, <2>4, <2>5
  <1>13. CASE RefuseContents \/ RefuseSelection \/ RaiseFirst \/ RaiseMessage \/ Escape
    <2>1. epc' \in {"refused", "escaped"} /\ files' = files /\ ~Generate
      BY <1>13 DEF RefuseContents, RefuseSelection, RaiseFirst, RaiseMessage, Escape, Raise, Generate
    <2>2. ~Writing'
      BY <2>1 DEF Writing, Ended
    <2>. QED  BY <1>6, <1>11, <2>1, <2>2
  <1>14. CASE Select \/ PassOver
    <2>1. epc' = "walk" /\ files' = files /\ ~Generate /\ cli
      BY <1>14 DEF Select, PassOver, Generate
    <2>2. ~Writing'
      BY <1>1, <2>1 DEF Writing, Ended, Selecting
    <2>. QED  BY <1>6, <1>11, <2>1, <2>2
  <1>15. CASE List
    BY <1>2, <1>15 DEF List
  <1>16. CASE OpenOutput
    <2>1. epc = "walked" /\ epc' = "write" /\ todo' = selected /\ cli /\ files' = files /\ ~Generate
      BY <1>2, <1>16 DEF OpenOutput, Generate
    <2>2. Left' = ToSet(Covered)
      BY <2>1 DEF Left, Schedule, Ended
    <2>3. \A v \in Readable : \E u \in Left' : u.folder = v.folder
      BY <1>4, <2>2
    <2>. QED  BY <1>6, <1>11, <2>1, <2>3
  <1>17. CASE Take
    <2>1. /\ epc = "folder" /\ epc' = "write" /\ todo' = <<current>> /\ ~cli /\ files' = files
          /\ ~Generate
      BY <1>17 DEF Take, Generate
    <2>2. Left = {current} /\ Left' = {current}
      BY <2>1 DEF Left, ToSet
    <2>3. Writing
      BY <2>1 DEF Writing, Ended
    <2>. QED  BY <1>6, <1>11, <2>1, <2>2, <2>3
  <1>18. CASE SkipFolder
    <2>1. /\ epc = "write" /\ todo # <<>> /\ ContentsRefused(Head(todo).folder)
          /\ todo' = Tail(todo) /\ epc' \in {"write", "walk"} /\ files' = files /\ ~Generate
      BY <1>18 DEF SkipFolder, AfterFolder, Generate
    <2>2. Left = ToSet(todo) /\ Left' = ToSet(Tail(todo)) /\ Writing
      BY <2>1 DEF Left, Writing, Ended, Selecting
    <2>3. ASSUME NEW v \in Readable, NEW u \in Left, u.folder = v.folder
          PROVE  u \in Left'
      BY <1>4, <1>8, <2>1, <2>2, <2>3
    <2>. QED  BY <1>6, <1>11, <2>1, <2>2, <2>3
  <1>19. CASE OpenFolder
    <2>1. /\ epc = "write" /\ todo # <<>> /\ ~ContentsRefused(Head(todo).folder)
          /\ todo' = todo /\ epc' = "message" /\ ~Generate
          /\ msgs' = FromFirstOpened(Named(Head(todo).folder))
          /\ files' = [files EXCEPT ![Box(Head(todo).folder)] = Written(<<>>)]
      BY <1>2, <1>19 DEF OpenFolder, Generate, Box
    <2>2. PICK f \in Folders : f = Head(todo).folder
      BY <1>8, <2>1
    <2>3. Head(todo) \in ToSet(todo) /\ Head(todo) \in Readable
      BY <1>4, <1>8, <2>1 DEF Schedule
    <2>4. files'[Box(f)] = Written(<<>>) /\ \A n \in FileNames : n # Box(f) => files'[n] = files[n]
      BY <1>5, <2>1, <2>2
    <2>5. Written(<<>>).body = <<>> /\ Written(<<>>).state = "written"
      BY DEF Written
    <2>6. \A n \in FileNames \ {IndexFile} : files'[n] # before[n] =>
              \E v \in Readable : n = Box(v.folder)
      BY <1>6, <2>2, <2>3, <2>4
    <2>7. <<>> \o Due(f) = Due(f)
      BY <1>7, ConcatEmptySeq
    <2>8. ASSUME NEW g \in Folders, files'[Box(g)].state = "written"
          PROVE  Part(files'[Box(g)].body, g)
      <3>1. CASE g = f
        BY <1>7, <2>4, <2>5, <2>7, <3>1 DEF Part
      <3>2. CASE g # f
        <4>1. files'[Box(g)] = files[Box(g)]
          BY <1>5, <2>4, <3>2, BoxesDiffer
        <4>. QED  BY <1>6, <2>8, <4>1
      <3>. QED  BY <3>1, <3>2
    <2>9. files'[Box(f)].body \o Plain(KeptOf(msgs', Converting)) = Due(f)
      <3>1. Named(f) \in Seq(Messages)
        BY <1>3, NamedType DEF JobTypes
      <3>2. KeptOf(msgs', Converting) = Good(f)
        BY <1>3, <2>1, <2>2, <3>1, FromFirstKeeps, GoodType
      <3>. QED  BY <2>4, <2>5, <2>7, <3>2 DEF Due
    <2>10. Left = ToSet(todo) /\ Left' = Left /\ Writing
      BY <2>1 DEF Left, Writing, Ended, Selecting
    <2>11. ASSUME NEW v \in Readable
           PROVE  (\E u \in Left' : u.folder = v.folder) \/ files'[Box(v.folder)] = Written(Due(v.folder))
      <3>1. CASE v.folder = f
        BY <2>2, <2>3, <2>10, <3>1
      <3>2. CASE v.folder # f
        <4>1. v.folder \in Folders
          BY <1>4 DEF VisitType
        <4>2. files'[Box(v.folder)] = files[Box(v.folder)]
          BY <1>5, <2>4, <3>2, <4>1, BoxesDiffer
        <4>. QED  BY <1>6, <2>10, <4>2
      <3>. QED  BY <3>1, <3>2
    <2>. QED  BY <1>11, <2>1, <2>2, <2>6, <2>8, <2>9, <2>11
  <1>20. ASSUME msgs # <<>>
         PROVE  /\ Head(msgs) \in Messages /\ Tail(msgs) \in Seq(Messages)
                /\ KeptOf(Tail(msgs), Converting) \in Seq(Messages)
                /\ Head(msgs) \in Converting => Later = <<Head(msgs)>> \o KeptOf(Tail(msgs), Converting)
                /\ Head(msgs) \notin Converting => Later = KeptOf(Tail(msgs), Converting)
    <2>1. Head(msgs) \in Messages /\ Tail(msgs) \in Seq(Messages)
      BY <1>4, <1>20, PopProperties
    <2>2. KeptOf(Tail(msgs), Converting) \in Seq(Messages)
      BY <2>1, KeptType
    <2>. QED  BY <1>4, <1>20, <2>1, <2>2, KeptHead DEF Later
  <1>21. CASE WriteMessage
    <2>1. /\ epc = "message" /\ epc' = "message" /\ todo' = todo /\ msgs # <<>> /\ ~Generate
          /\ msgs' = Tail(msgs) /\ Converts(Head(msgs)) /\ todo # <<>>
          /\ files' = [files EXCEPT ![Box(Head(todo).folder)] =
                          Written(Append(@.body, [message |-> Head(msgs)]))]
      BY <1>2, <1>4, <1>21 DEF WriteMessage, Record, Box, Generate
    <2>2. PICK f \in Folders, m \in Messages : f = Head(todo).folder /\ m = Head(msgs)
      BY <1>8, <1>20, <2>1
    <2>3. PICK r \in FileRecord : r = [message |-> m]
      BY DEF FileRecord
    <2>4. PICK later \in Seq(Messages) : later = KeptOf(Tail(msgs), Converting)
      BY <1>20, <2>1
    <2>5. Later = <<m>> \o later
      BY <1>20, <2>1, <2>2, <2>4 DEF Converting
    <2>6. PICK kept \in Seq(Messages) :
             kept = Later /\ kept # <<>> /\ Head(kept) = m /\ Tail(kept) = later
      BY <2>5, ConsIs
    <2>7. Plain(kept) = <<r>> \o Plain(later)
      BY <2>3, <2>6, PlainHead
    <2>8. PICK b \in Seq(FileRecord), s \in Seq(FileRecord) :
             b = files[Box(f)].body /\ s = Plain(later)
      BY <1>5, <2>1, <2>2, PlainType
    <2>9. b \o (<<r>> \o s) = Due(f)
      BY <1>6, <2>1, <2>2, <2>6, <2>7, <2>8
    <2>10. Append(b, r) \o s = Due(f)
      BY <2>9, AppendThenRest, ZenonT(60)
    <2>11. /\ files'[Box(f)] = Written(Append(b, r))
           /\ \A n \in FileNames : n # Box(f) => files'[n] = files[n]
      BY <1>5, <2>1, <2>2, <2>3, <2>8
    <2>12. Written(Append(b, r)).body = Append(b, r)
      BY DEF Written
    <2>13. Head(todo) \in ToSet(todo) /\ Head(todo) \in Readable
      BY <1>4, <1>8, <2>1 DEF Schedule
    <2>14. \A n \in FileNames \ {IndexFile} : files'[n] # before[n] =>
              \E v \in Readable : n = Box(v.folder)
      BY <1>6, <2>2, <2>11, <2>13
    <2>15. ASSUME NEW g \in Folders, files'[Box(g)].state = "written"
           PROVE  Part(files'[Box(g)].body, g)
      <3>1. CASE g = f
        BY <2>8, <2>10, <2>11, <2>12, <3>1 DEF Part
      <3>2. CASE g # f
        <4>1. files'[Box(g)] = files[Box(g)]
          BY <1>5, <2>11, <3>2, BoxesDiffer
        <4>. QED  BY <1>6, <2>15, <4>1
      <3>. QED  BY <3>1, <3>2
    <2>16. files'[Box(f)].body \o Plain(KeptOf(msgs', Converting)) = Due(f)
      BY <2>1, <2>4, <2>8, <2>10, <2>11, <2>12
    <2>17. Left = ToSet(todo) /\ Left' = Left /\ Writing
      BY <2>1 DEF Left, Writing, Ended, Selecting
    <2>18. ASSUME NEW v \in Readable
           PROVE  (\E u \in Left' : u.folder = v.folder) \/ files'[Box(v.folder)] = Written(Due(v.folder))
      <3>1. CASE v.folder = f
        BY <2>2, <2>13, <2>17, <3>1
      <3>2. CASE v.folder # f
        <4>1. v.folder \in Folders
          BY <1>4 DEF VisitType
        <4>2. files'[Box(v.folder)] = files[Box(v.folder)]
          BY <1>5, <2>11, <3>2, <4>1, BoxesDiffer
        <4>. QED  BY <1>6, <2>17, <4>2
      <3>. QED  BY <3>1, <3>2
    <2>. QED  BY <1>11, <2>1, <2>2, <2>14, <2>15, <2>16, <2>18
  <1>22. CASE SkipMessage
    <2>1. /\ epc = "message" /\ epc' = "message" /\ todo' = todo /\ msgs # <<>> /\ ~Generate
          /\ msgs' = Tail(msgs) /\ Head(msgs) \notin Converting /\ files' = files
      BY <1>22 DEF SkipMessage, Refuses, Converting, Converts, Generate
    <2>2. KeptOf(msgs', Converting) = Later
      BY <1>20, <2>1
    <2>3. Left = ToSet(todo) /\ Left' = Left /\ Writing
      BY <2>1 DEF Left, Writing, Ended, Selecting
    <2>. QED  BY <1>6, <1>11, <2>1, <2>2, <2>3
  <1>23. CASE FinishFolder
    <2>1. /\ epc = "message" /\ epc' \in {"write", "walk"} /\ todo' = Tail(todo) /\ msgs = <<>>
          /\ todo # <<>> /\ ~Generate
          /\ \E body : files' = IF cli THEN [files EXCEPT ![IndexFile] = body] ELSE files
      BY <1>2, <1>4, <1>23 DEF FinishFolder, AfterFolder, Generate
    <2>2. PICK f \in Folders : f = Head(todo).folder
      BY <1>8, <2>1
    <2>3. \A n \in FileNames \ {IndexFile} : files'[n] = files[n]
      BY <1>5, <2>1
    <2>4. Plain(Later) = <<>>
      BY <2>1, KeptEmpty, PlainEmpty DEF Later
    <2>5. files[Box(f)] = Written(Due(f))
      <3>1. files[Box(f)].body \o <<>> = Due(f)
        BY <1>6, <2>1, <2>2, <2>4
      <3>2. files[Box(f)].body \in Seq(FileRecord) /\ files[Box(f)] = Written(files[Box(f)].body)
        BY <1>5, <2>1, <2>2
      <3>. QED  BY <3>1, <3>2, ConcatEmptySeq
    <2>6. Left = ToSet(todo) /\ Left' = ToSet(Tail(todo)) /\ Writing
      BY <2>1 DEF Left, Writing, Ended, Selecting
    <2>7. ASSUME NEW v \in Readable
          PROVE  (\E u \in Left' : u.folder = v.folder) \/ files[Box(v.folder)] = Written(Due(v.folder))
      <3>1. CASE v.folder = f
        BY <2>5, <3>1
      <3>2. CASE v.folder # f
        BY <1>6, <1>8, <2>1, <2>2, <2>6, <3>2
      <3>. QED  BY <3>1, <3>2
    <2>8. \A g \in Folders : files'[Box(g)] = files[Box(g)]
      BY <1>5, <2>3
    <2>9. \A v \in Readable : v.folder \in Folders
      BY <1>4 DEF VisitType
    <2>. QED  BY <1>6, <1>11, <2>1, <2>3, <2>7, <2>8, <2>9
  <1>24. CASE Finish
    <2>1. /\ epc \in {"write", "walked"} /\ epc' = "finished" /\ todo' = todo /\ ~Generate
          /\ epc = "walked" => ~cli
          /\ files' = [files EXCEPT ![IndexFile] = Written(index)]
      BY <1>2, <1>24 DEF Finish, Generate
    <2>2. \A n \in FileNames \ {IndexFile} : files'[n] = files[n]
      BY <1>5, <2>1
    <2>3. Left = ToSet(todo) /\ Left' = Left /\ Writing
      BY <2>1 DEF Left, Writing, Ended, Selecting
    <2>4. \A f \in Folders : files'[Box(f)] = files[Box(f)]
      BY <1>5, <2>2
    <2>5. \A v \in Readable : v.folder \in Folders
      BY <1>4 DEF VisitType
    <2>. QED  BY <1>6, <1>11, <2>1, <2>2, <2>3, <2>4, <2>5
  <1>25. CASE UNCHANGED evars
    <2>1. UNCHANGED <<epc, todo, msgs, files, current, yielded>>
      BY <1>25 DEF evars, exportvars, walkvars
    <2>2. ToSet(ReadableFolders') = Readable
      BY <1>1, <2>1, CoveredStays
    <2>3. Left' = Left /\ (Writing' <=> Writing)
      BY <1>1, <2>1 DEF Left, Writing, Ended, Selecting
    <2>. QED  BY <1>6, <2>1, <2>2, <2>3 DEF Later
  <1>. QED  BY <1>12, <1>13, <1>14, <1>15, <1>16, <1>17, <1>18, <1>19, <1>21, <1>22, <1>23,
               <1>24, <1>25 DEF ExportNext

-----------------------------------------------------------------------------
(* One file for each message. *)
LEMMA EmlDiffer ==
    ASSUME NEW m, NEW k, EmlOf(m) = EmlOf(k)
    PROVE  m = k
  <1>1. EmlOf(m).eml = m /\ EmlOf(k).eml = k
    BY DEF EmlOf
  <1>. QED  BY <1>1

LEMMA EmlFilesStep ==
    ASSUME WalkTypeOK, ExportTypes, Schedule, EmlFilesInv, [ExportNext]_evars
    PROVE  EmlFilesInv'
  <1>1. UNCHANGED job /\ UNCHANGED <<cli, format, wanted, contents, message, before>>
    BY JobStays
  <1>2. SUFFICES ASSUME format = "eml" PROVE EmlFilesInv'
    BY <1>1 DEF EmlFilesInv
  <1> DEFINE Readable == ToSet(ReadableFolders)
             Done(m) == files[EmlOf(m)].state = "written"
             AllDone(f) == \A m \in ToSet(Good(f)) : Done(m)
  <1>3. JobTypes
    BY DEF ExportTypes
  <1>4. /\ todo \in Seq(VisitType) /\ msgs \in Seq(Messages)
        /\ Covered \in Seq(VisitType) /\ ReadableFolders \in Seq(VisitType)
        /\ Readable = {v \in ToSet(Covered) : ~ContentsRefused(v.folder)}
        /\ Readable \in SUBSET VisitType
        /\ epc = "message" => todo # <<>>
    BY CoveredType, ToSetType DEF ExportTypes, ProgressTypes
  <1>5. /\ files \in [FileNames -> File]
        /\ \A m \in Messages : EmlOf(m) \in FileNames
    BY FileNamesDiffer DEF ExportTypes, FileTypes, EmlOf
  <1>6. /\ \A n \in FileNames : files[n] # before[n] => \E m \in DueMessages : n = EmlOf(m)
        /\ \A m \in Messages : Done(m) => files[EmlOf(m)] = Written(<<[message |-> m]>>)
        /\ epc = "message" => ToSet(msgs) \subseteq ToSet(Named(Head(todo).folder))
        /\ epc = "message" => \A m \in ToSet(Good(Head(todo).folder)) : m \in ToSet(msgs) \/ Done(m)
        /\ Writing => \A v \in Readable : (\E u \in Left : u.folder = v.folder) \/ AllDone(v.folder)
    BY <1>2 DEF EmlFilesInv
  <1>7. \A f \in Folders : /\ Good(f) \in Seq(Messages) /\ Named(f) \in Seq(Messages)
                           /\ ToSet(Good(f)) = ToSet(Named(f)) \cap Converting
                           /\ ToSet(Good(f)) \in SUBSET Messages
    BY <1>3, GoodType, NamedType, ToSetType DEF JobTypes
  <1>8. ASSUME todo # <<>>
        PROVE  /\ Head(todo) \in VisitType /\ Tail(todo) \in Seq(VisitType)
               /\ Head(todo).folder \in Folders
               /\ ToSet(todo) = {Head(todo)} \cup ToSet(Tail(todo))
    <2>1. Head(todo) \in VisitType /\ Tail(todo) \in Seq(VisitType)
      BY <1>4, <1>8, PopProperties
    <2>2. ToSet(todo) = {Head(todo)} \cup ToSet(Tail(todo))
      BY <1>4, <1>8, PopMembers
    <2>. QED  BY <2>1, <2>2 DEF VisitType
  <1>9. /\ Named(Head(todo).folder)' = Named(Head(todo').folder)
        /\ Good(Head(todo).folder)' = Good(Head(todo').folder)
        /\ \A f : Good(f)' = Good(f)
    BY <1>1, FolderReads, JobReads
  <1>10. SUFFICES
           /\ \A n \in FileNames : files'[n] # before[n] => \E m \in DueMessages' : n = EmlOf(m)
           /\ \A m \in Messages : files'[EmlOf(m)].state = "written" =>
                 files'[EmlOf(m)] = Written(<<[message |-> m]>>)
           /\ epc' = "message" => ToSet(msgs') \subseteq ToSet(Named(Head(todo').folder))
           /\ epc' = "message" => \A m \in ToSet(Good(Head(todo').folder)) :
                 m \in ToSet(msgs') \/ files'[EmlOf(m)].state = "written"
           /\ Writing' => \A v \in ToSet(ReadableFolders') :
                 \/ \E u \in Left' : u.folder = v.folder
                 \/ \A m \in ToSet(Good(v.folder)) : files'[EmlOf(m)].state = "written"
    BY <1>1, <1>9 DEF EmlFilesInv, EmlOf
  <1>11. ASSUME ~Generate
         PROVE  ToSet(ReadableFolders') = Readable /\ DueMessages' = DueMessages /\ UNCHANGED current
    BY <1>11, WalkWaits
  <1>12. CASE Generate
    <2>1. /\ epc = "walk" /\ UNCHANGED <<todo, files>> /\ todo = <<>>
          /\ \/ /\ epc' = "folder" /\ current' \in VisitType
                /\ yielded' = Append(yielded, current')
             \/ epc' \in {"walk", "walked", "refused"} /\ UNCHANGED yielded
      BY <1>12, GenerateKinds DEF Schedule, Selecting
    <2>2. Left = {}
      BY <2>1 DEF Left, ToSet
    <2>3. ASSUME Writing' PROVE \A v \in Readable : AllDone(v.folder)
      <3>1. ~cli /\ Writing
        BY <1>1, <2>1, <2>3 DEF Writing, Ended, Selecting
      <3>. QED  BY <1>6, <2>2, <3>1
    <2>4. CASE epc' = "folder" /\ current' \in VisitType /\ yielded' = Append(yielded, current')
      <3>1. /\ ToSet(ReadableFolders') \subseteq Readable \cup {current'}
            /\ DueMessages \subseteq DueMessages'
        BY <1>1, <2>4, CoveredGrows
      <3>2. Left' = {current'}
        BY <2>4 DEF Left
      <3>. QED  BY <1>6, <2>1, <2>3, <2>4, <3>1, <3>2
    <2>5. CASE epc' \in {"walk", "walked", "refused"} /\ UNCHANGED yielded
      <3>1. ToSet(ReadableFolders') = Readable /\ DueMessages' = DueMessages
        BY <1>1, <2>5, CoveredStays
      <3>. QED  BY <1>6, <2>1, <2>3, <2>5, <3>1
    <2>. QED  BY <2>1, <2>4, <2>5
  <1>13. CASE RefuseContents \/ RefuseSelection \/ RaiseFirst \/ RaiseMessage \/ Escape
    <2>1. epc' \in {"refused", "escaped"} /\ files' = files /\ ~Generate
      BY <1>13 DEF RefuseContents, RefuseSelection, RaiseFirst, RaiseMessage, Escape, Raise, Generate
    <2>2. ~Writing'
      BY <2>1 DEF Writing, Ended
    <2>. QED  BY <1>6, <1>11, <2>1, <2>2
  <1>14. CASE Select \/ PassOver
    <2>1. epc' = "walk" /\ files' = files /\ ~Generate /\ cli
      BY <1>14 DEF Select, PassOver, Generate
    <2>2. ~Writing'
      BY <1>1, <2>1 DEF Writing, Ended, Selecting
    <2>. QED  BY <1>6, <1>11, <2>1, <2>2
  <1>15. CASE List
    BY <1>2, <1>15 DEF List
  <1>16. CASE OpenOutput
    <2>1. epc = "walked" /\ epc' = "write" /\ todo' = selected /\ cli /\ files' = files /\ ~Generate
      BY <1>2, <1>16 DEF OpenOutput, Generate
    <2>2. Left' = ToSet(Covered)
      BY <2>1 DEF Left, Schedule, Ended
    <2>3. \A v \in Readable : \E u \in Left' : u.folder = v.folder
      BY <1>4, <2>2
    <2>. QED  BY <1>6, <1>11, <2>1, <2>3
  <1>17. CASE Take
    <2>1. /\ epc = "folder" /\ epc' = "write" /\ todo' = <<current>> /\ ~cli /\ files' = files
          /\ ~Generate
      BY <1>17 DEF Take, Generate
    <2>2. Left = {current} /\ Left' = {current}
      BY <2>1 DEF Left, ToSet
    <2>3. Writing
      BY <2>1 DEF Writing, Ended
    <2>. QED  BY <1>6, <1>11, <2>1, <2>2, <2>3
  <1>18. CASE SkipFolder
    <2>1. /\ epc = "write" /\ todo # <<>> /\ ContentsRefused(Head(todo).folder)
          /\ todo' = Tail(todo) /\ epc' \in {"write", "walk"} /\ files' = files /\ ~Generate
      BY <1>18 DEF SkipFolder, AfterFolder, Generate
    <2>2. Left = ToSet(todo) /\ Left' = ToSet(Tail(todo)) /\ Writing
      BY <2>1 DEF Left, Writing, Ended, Selecting
    <2>3. ASSUME NEW v \in Readable, NEW u \in Left, u.folder = v.folder
          PROVE  u \in Left'
      BY <1>4, <1>8, <2>1, <2>2, <2>3
    <2>. QED  BY <1>6, <1>11, <2>1, <2>2, <2>3
  <1>19. CASE OpenFolder
    <2>1. /\ epc = "write" /\ todo # <<>> /\ ~ContentsRefused(Head(todo).folder)
          /\ todo' = todo /\ epc' = "message" /\ ~Generate /\ files' = files
          /\ msgs' = Named(Head(todo).folder)
      BY <1>2, <1>19 DEF OpenFolder, Generate
    <2>2. \A m \in ToSet(Good(Head(todo).folder)) : m \in ToSet(msgs')
      BY <1>7, <1>8, <2>1
    <2>3. Left = ToSet(todo) /\ Left' = Left /\ Writing
      BY <2>1 DEF Left, Writing, Ended, Selecting
    <2>. QED  BY <1>6, <1>11, <2>1, <2>2, <2>3
  <1>20. ASSUME msgs # <<>>
         PROVE  /\ Head(msgs) \in Messages
                /\ ToSet(msgs) = {Head(msgs)} \cup ToSet(Tail(msgs))
    BY <1>4, <1>20, PopProperties, PopMembers
  <1>21. CASE WriteMessage
    <2>1. /\ epc = "message" /\ epc' = "message" /\ todo' = todo /\ msgs # <<>> /\ ~Generate
          /\ msgs' = Tail(msgs) /\ Converts(Head(msgs)) /\ todo # <<>>
          /\ files' = [files EXCEPT ![EmlOf(Head(msgs))] = Written(<<[message |-> Head(msgs)]>>)]
      BY <1>2, <1>4, <1>21 DEF WriteMessage, Record, EmlOf, Generate
    <2>2. PICK f \in Folders, m \in Messages : f = Head(todo).folder /\ m = Head(msgs)
      BY <1>8, <1>20, <2>1
    <2>3. /\ files'[EmlOf(m)] = Written(<<[message |-> m]>>)
          /\ \A n \in FileNames : n # EmlOf(m) => files'[n] = files[n]
      BY <1>5, <2>1, <2>2
    <2>4. m \in DueMessages
      <3>1. m \in ToSet(Good(f))
        BY <1>6, <1>7, <1>20, <2>1, <2>2 DEF Converting
      <3>2. Head(todo) \in Readable
        BY <1>4, <1>8, <2>1 DEF Schedule
      <3>. QED  BY <2>2, <3>1, <3>2 DEF DueMessages
    <2>5. files'[EmlOf(m)].state = "written"
      BY <2>3 DEF Written
    <2>6. \A k \in Messages : k # m => files'[EmlOf(k)] = files[EmlOf(k)]
      BY <1>5, <2>3, EmlDiffer
    <2>7. \A k \in Messages : Done(k) => files'[EmlOf(k)].state = "written"
      BY <2>5, <2>6
    <2>8. \A n \in FileNames : files'[n] # before[n] => \E k \in DueMessages : n = EmlOf(k)
      BY <1>6, <2>3, <2>4
    <2>9. \A k \in Messages : files'[EmlOf(k)].state = "written" =>
             files'[EmlOf(k)] = Written(<<[message |-> k]>>)
      BY <1>6, <2>3, <2>6
    <2>10. \A k \in ToSet(Good(f)) : k \in ToSet(msgs') \/ files'[EmlOf(k)].state = "written"
      BY <1>6, <1>7, <1>20, <2>1, <2>2, <2>5, <2>7
    <2>11. Left = ToSet(todo) /\ Left' = Left /\ Writing
      BY <2>1 DEF Left, Writing, Ended, Selecting
    <2>12. ASSUME NEW v \in Readable
           PROVE  \/ \E u \in Left' : u.folder = v.folder
                  \/ \A k \in ToSet(Good(v.folder)) : files'[EmlOf(k)].state = "written"
      <3>1. v.folder \in Folders
        BY <1>4 DEF VisitType
      <3>. QED  BY <1>6, <1>7, <2>7, <2>11, <3>1
    <2>13. ToSet(msgs') \subseteq ToSet(Named(f))
      BY <1>6, <1>20, <2>1, <2>2
    <2>. QED  BY <1>11, <2>1, <2>2, <2>8, <2>9, <2>10, <2>12, <2>13
  <1>22. CASE SkipMessage
    <2>1. /\ epc = "message" /\ epc' = "message" /\ todo' = todo /\ msgs # <<>> /\ ~Generate
          /\ msgs' = Tail(msgs) /\ Head(msgs) \notin Converting /\ files' = files /\ todo # <<>>
      BY <1>4, <1>22 DEF SkipMessage, Refuses, Converting, Converts, Generate
    <2>2. \A m \in ToSet(Good(Head(todo).folder)) : m # Head(msgs)
      BY <1>7, <1>8, <2>1
    <2>3. Left = ToSet(todo) /\ Left' = Left /\ Writing
      BY <2>1 DEF Left, Writing, Ended, Selecting
    <2>. QED  BY <1>6, <1>11, <1>20, <2>1, <2>2, <2>3
  <1>23. CASE FinishFolder
    <2>1. /\ epc = "message" /\ epc' \in {"write", "walk"} /\ todo' = Tail(todo) /\ msgs = <<>>
          /\ todo # <<>> /\ ~Generate /\ files' = files
      BY <1>2, <1>4, <1>23 DEF FinishFolder, AfterFolder, Generate
    <2>2. ToSet(msgs) = {}
      BY <2>1 DEF ToSet
    <2>3. Left = ToSet(todo) /\ Left' = ToSet(Tail(todo)) /\ Writing
      BY <2>1 DEF Left, Writing, Ended, Selecting
    <2>4. AllDone(Head(todo).folder)
      BY <1>6, <2>1, <2>2
    <2>5. ASSUME NEW v \in Readable
          PROVE  (\E u \in Left' : u.folder = v.folder) \/ AllDone(v.folder)
      <3>1. CASE v.folder = Head(todo).folder
        BY <2>4, <3>1
      <3>2. CASE v.folder # Head(todo).folder
        BY <1>6, <1>8, <2>1, <2>3, <3>2
      <3>. QED  BY <3>1, <3>2
    <2>. QED  BY <1>6, <1>11, <2>1, <2>5
  <1>24. CASE Finish
    <2>1. /\ epc \in {"write", "walked"} /\ epc' = "finished" /\ todo' = todo /\ ~Generate
          /\ epc = "walked" => ~cli
          /\ files' = files
      BY <1>2, <1>24 DEF Finish, Generate
    <2>2. Left = ToSet(todo) /\ Left' = Left /\ Writing
      BY <2>1 DEF Left, Writing, Ended, Selecting
    <2>. QED  BY <1>6, <1>11, <2>1, <2>2
  <1>25. CASE UNCHANGED evars
    <2>1. UNCHANGED <<epc, todo, msgs, files, current, yielded>>
      BY <1>25 DEF evars, exportvars, walkvars
    <2>2. ToSet(ReadableFolders') = Readable /\ DueMessages' = DueMessages
      BY <1>1, <2>1, CoveredStays
    <2>3. Left' = Left /\ (Writing' <=> Writing)
      BY <1>1, <2>1 DEF Left, Writing, Ended, Selecting
    <2>. QED  BY <1>6, <2>1, <2>2, <2>3
  <1>. QED  BY <1>12, <1>13, <1>14, <1>15, <1>16, <1>17, <1>18, <1>19, <1>21, <1>22, <1>23,
               <1>24, <1>25 DEF ExportNext

-----------------------------------------------------------------------------
(* All of them together. *)
LEMMA ListStep ==
    ASSUME ExportTypes, ListInv, [ExportNext]_evars
    PROVE  ListInv'
  <1>1. UNCHANGED <<cli, format, wanted, contents, message, before>>
    BY JobStays
  <1>2. SUFFICES ASSUME format = "list" PROVE files' = files
    BY <1>1 DEF ListInv
  <1>3. epc \notin {"write", "message"}
    BY <1>2 DEF ExportTypes, ProgressTypes
  <1>. QED  BY <1>2, <1>3
            DEF ExportNext, evars, exportvars, Generate, RefuseContents, Select, PassOver,
                RefuseSelection, List, OpenOutput, Take, SkipFolder, RaiseFirst, OpenFolder,
                WriteMessage, SkipMessage, RaiseMessage, Escape, FinishFolder, Finish, Raise

LEMMA OutputStarts ==
    ASSUME ExportInit
    PROVE  OutputInv
  <1>1. Schedule
    BY ScheduleStarts
  <1>2. /\ epc = "walk" /\ yielded = <<>> /\ files = before
        /\ \E c \in Calls : files = Fresh(c.before)
    BY DEF ExportInit, WalkStarts
  <1>3. \A n \in FileNames : files[n].state # "written"
    BY <1>2, ExportCallsAssumption DEF Fresh
  <1>4. ToSet(ReadableFolders) = {}
    <2>1. Covered = <<>>
      BY <1>2, KeptEmpty DEF Covered
    <2>2. ReadableFolders = <<>>
      BY <2>1, KeptEmpty DEF ReadableFolders
    <2>. QED  BY <2>2 DEF ToSet
  <1>5. /\ StoreBox \in FileNames /\ \A f \in Folders : Box(f) \in FileNames
        /\ \A m \in Messages : EmlOf(m) \in FileNames
    BY FileNamesDiffer DEF Box, EmlOf
  <1>. QED  BY <1>1, <1>2, <1>3, <1>4, <1>5
            DEF OutputInv, StoreBoxInv, FolderBoxesInv, EmlFilesInv, ListInv

LEMMA OutputHolds == ExportSafety => []OutputInv
  <1>1. ExportInit => OutputInv
    BY OutputStarts
  <1>2. WalkTypeOK /\ ExportTypes /\ SelectionInv /\ OutputInv /\ [ExportNext]_evars => OutputInv'
    <2> SUFFICES ASSUME WalkTypeOK, ExportTypes, SelectionInv, OutputInv, [ExportNext]_evars
                 PROVE  OutputInv'
      OBVIOUS
    <2>1. Schedule /\ StoreBoxInv /\ FolderBoxesInv /\ EmlFilesInv /\ ListInv
      BY DEF OutputInv
    <2>2. Schedule'
      BY <2>1, ScheduleStep
    <2>3. StoreBoxInv'
      BY <2>1, StoreBoxStep
    <2>4. FolderBoxesInv'
      BY <2>1, FolderBoxesStep
    <2>5. EmlFilesInv'
      BY <2>1, EmlFilesStep
    <2>6. ListInv'
      BY <2>1, ListStep
    <2>. QED  BY <2>2, <2>3, <2>4, <2>5, <2>6 DEF OutputInv
  <1>. QED  BY <1>1, <1>2, ExportTypesHold, SelectionInvariant, ConsumerWalks, WalkInvariant, PTL
            DEF ExportSafety

LEMMA OutputFollows ==
    ASSUME WalkTypeOK, ExportTypes, OutputInv
    PROVE  OutputIsDue
  <1> DEFINE Readable == ToSet(ReadableFolders)
  <1>1. Schedule /\ StoreBoxInv /\ FolderBoxesInv /\ EmlFilesInv /\ ListInv /\ JobTypes
    BY DEF OutputInv, ExportTypes
  <1>2. /\ files \in [FileNames -> File]
        /\ \A n \in FileNames \ {IndexFile} : files[n].state = "written" =>
              files[n].body \in Seq(FileRecord) /\ files[n] = Written(files[n].body)
    BY WrittenFile DEF ExportTypes, FileTypes
  <1>3. /\ Covered \in Seq(VisitType) /\ ReadableFolders \in Seq(VisitType)
        /\ Readable \in SUBSET VisitType
    BY CoveredType, ToSetType
  <1>4. epc = "finished" => todo = <<>> /\ Writing /\ Left = {}
    BY <1>1 DEF Schedule, Writing, Ended, Selecting, Left, ToSet
  <1>5. CASE format = "list"
    BY <1>1, <1>5 DEF OutputIsDue, ListInv, DueNames
  <1>6. CASE format = "mbox"
    <2>1. DueNames = {StoreBox} /\ StoreBox \in FileNames /\ StoreBox # IndexFile
      BY <1>6, FileNamesDiffer DEF DueNames
    <2>2. PICK due \in Seq(FileRecord) : due = Records(Covered)
      BY <1>1, <1>3, RecordsType
    <2>3. DueBody(StoreBox) = due
      <3>1. ReadableFolders = KeptOf(Covered, ReadableVisits)
        BY DEF ReadableFolders, ReadableVisits
      <3>. QED  BY <1>6, <2>2, <3>1 DEF DueBody, Records, AllStamped
    <2>4. ASSUME files[StoreBox].state = "written"
          PROVE  IsPrefix(files[StoreBox].body, due)
      <3>1. PICK body \in Seq(FileRecord), rest \in Seq(FileRecord) :
               body = files[StoreBox].body /\ body \o rest = due
        BY <1>1, <1>2, <1>6, <2>1, <2>2, <2>4 DEF StoreBoxInv
      <3>. QED  BY <3>1, BeginsWith
    <2>5. ASSUME epc = "finished"
          PROVE  files[StoreBox] = Written(due)
      <3>1. files[StoreBox].state = "written" /\ files[StoreBox].body \o Records(todo) = due
        BY <1>1, <1>6, <2>2, <2>5 DEF StoreBoxInv
      <3>2. Records(todo) = <<>>
        BY <1>4, <2>5, RecordsEmpty
      <3>3. /\ files[StoreBox].body \in Seq(FileRecord)
            /\ files[StoreBox] = Written(files[StoreBox].body)
        BY <1>2, <2>1, <3>1
      <3>. QED  BY <3>1, <3>2, <3>3, ConcatEmptySeq
    <2>6. \A n \in FileNames : files[n] # before[n] => n = StoreBox
      BY <1>1, <1>6 DEF StoreBoxInv
    <2>. QED  BY <2>1, <2>3, <2>4, <2>5, <2>6 DEF OutputIsDue
  <1>7. CASE format = "folders"
    <2>1. DueNames = {Box(v.folder) : v \in Readable} \cup {IndexFile}
      BY <1>7 DEF DueNames, DueBoxes, Box
    <2>2. \A n \in FileNames : files[n] # before[n] => n \in DueNames
      BY <1>1, <1>7, <2>1 DEF FolderBoxesInv
    <2>3. ASSUME NEW n \in DueNames \ {IndexFile}
          PROVE  /\ files[n].state = "written" => IsPrefix(files[n].body, DueBody(n))
                 /\ epc = "finished" => files[n] = Written(DueBody(n))
      <3>1. PICK v \in Readable : n = Box(v.folder)
        BY <2>1, <2>3
      <3>2. PICK f \in Folders : f = v.folder
        BY <1>3 DEF VisitType
      <3>3. n = Box(f) /\ n \in FileNames /\ n # IndexFile
        BY <3>1, <3>2, FileNamesDiffer DEF Box
      <3>4. PICK due \in Seq(FileRecord) : due = Plain(Good(f))
        BY <1>1, GoodType, PlainType
      <3>5. DueBody(n) = due
        <4>1. n.mbox = f
          BY <3>3 DEF Box
        <4>. QED  BY <1>7, <3>4, <4>1 DEF DueBody
      <3>6. ASSUME files[n].state = "written" PROVE IsPrefix(files[n].body, due)
        <4>1. PICK body \in Seq(FileRecord), rest \in Seq(FileRecord) :
                 body = files[n].body /\ body \o rest = due
          BY <1>1, <1>2, <1>7, <3>3, <3>4, <3>6 DEF FolderBoxesInv
        <4>. QED  BY <4>1, BeginsWith
      <3>7. ASSUME epc = "finished" PROVE files[n] = Written(due)
        BY <1>1, <1>4, <1>7, <3>1, <3>2, <3>4, <3>7 DEF FolderBoxesInv
      <3>. QED  BY <3>5, <3>6, <3>7
    <2>. QED  BY <2>2, <2>3 DEF OutputIsDue
  <1>8. CASE format = "eml"
    <2>1. DueNames = {EmlOf(m) : m \in DueMessages}
      BY <1>8 DEF DueNames, EmlOf
    <2>2. \A n \in FileNames : files[n] # before[n] => n \in DueNames
      BY <1>1, <1>8, <2>1 DEF EmlFilesInv
    <2>3. ASSUME NEW n \in DueNames
          PROVE  /\ files[n].state = "written" => IsPrefix(files[n].body, DueBody(n))
                 /\ epc = "finished" => files[n] = Written(DueBody(n))
      <3>1. PICK m \in DueMessages : n = EmlOf(m)
        BY <2>1, <2>3
      <3>2. PICK v \in Readable : m \in ToSet(Good(v.folder))
        BY <3>1 DEF DueMessages
      <3>3. m \in Messages
        <4>1. v.folder \in Folders
          BY <1>3 DEF VisitType
        <4>2. Good(v.folder) \in Seq(Messages)
          BY <1>1, <4>1, GoodType
        <4>. QED  BY <3>2, <4>2, ToSetType
      <3>4. PICK due \in Seq(FileRecord) : due = <<[message |-> m]>>
        <4>1. [message |-> m] \in FileRecord
          BY <3>3 DEF FileRecord
        <4>2. <<[message |-> m]>> \in Seq(FileRecord)
          BY <4>1
        <4>. QED  BY <4>2
      <3>5. DueBody(n) = due
        <4>1. n.eml = m
          BY <3>1 DEF EmlOf
        <4>. QED  BY <1>8, <3>4, <4>1 DEF DueBody
      <3>6. files[n].state = "written" => files[n] = Written(due)
        BY <1>1, <1>8, <3>1, <3>3, <3>4 DEF EmlFilesInv
      <3>7. IsPrefix(due, due)
        <4>1. PICK rest \in Seq(FileRecord) : rest = <<>>
          BY EmptySeq
        <4>2. IsPrefix(due, due \o rest)
          BY BeginsWith
        <4>. QED  BY <4>1, <4>2, ConcatEmptySeq
      <3>8. Written(due).body = due
        BY DEF Written
      <3>9. epc = "finished" => files[n].state = "written"
        BY <1>1, <1>4, <1>8, <3>1, <3>2 DEF EmlFilesInv
      <3>. QED  BY <3>5, <3>6, <3>7, <3>8, <3>9
    <2>. QED  BY <2>2, <2>3 DEF OutputIsDue
  <1>. QED  BY <1>1, <1>5, <1>6, <1>7, <1>8 DEF JobTypes, Format

(* For every store, call and destination, and wherever a run stops: no     *)
(* file is touched that is not due, a file that was written holds the      *)
(* first of the records it is due, in their order, and a run that ends     *)
(* well has written them all.                                              *)
THEOREM OutputCorrect == ExportSpec => []OutputIsDue
  <1>1. WalkTypeOK /\ ExportTypes /\ OutputInv => OutputIsDue
    BY OutputFollows
  <1>. QED  BY <1>1, OutputHolds, ExportTypesHold, ConsumerWalks, WalkInvariant, PTL
            DEF ExportSpec, ExportSafety

-----------------------------------------------------------------------------
(* What --folder selects.                                                  *)

(* A selection asks for paths of at least one name, and what has been      *)
(* selected when the first file is touched is all of it.                   *)
SettledInv ==
    /\ wanted \in SUBSET Seq(Piece) /\ <<>> \notin wanted
    /\ (cli /\ files # before) => selected = Covered

LEMMA SettledStarts == ASSUME ExportInit PROVE SettledInv
  <1>1. PICK c \in Calls : wanted = c.wanted /\ files = before
    BY DEF ExportInit
  <1>2. wanted \in SUBSET Seq([text : Seq(Pieces)] \cup [node : Folders]) /\ <<>> \notin wanted
    BY <1>1, ExportCallsAssumption
  <1>. QED  BY <1>1, <1>2 DEF SettledInv, Piece, DisplayName

LEMMA SettledStep ==
    ASSUME WalkTypeOK, SelectionInv, Schedule, SettledInv, [ExportNext]_evars
    PROVE  SettledInv'
  <1>1. UNCHANGED <<cli, wanted, before>>
    BY JobStays
  <1>2. CASE Generate
    <2>1. UNCHANGED files /\ epc = "walk"
      BY <1>2, GenerateKinds
    <2>. QED  BY <1>1, <2>1 DEF SettledInv, SelectionInv, Selecting
  <1>3. CASE Select
    <2>1. UNCHANGED files /\ epc = "folder"
      BY <1>3 DEF Select
    <2>. QED  BY <1>1, <2>1 DEF SettledInv, SelectionInv, Selecting
  <1>4. CASE ~Generate /\ ~Select
    <2>1. UNCHANGED selected /\ Covered' = Covered
      <3>1. Covered' = Covered
        BY <1>4, WalkWaits
      <3>2. UNCHANGED selected
        BY <1>4 DEF ExportNext, evars, exportvars, RefuseContents, PassOver, RefuseSelection,
                    List, OpenOutput, Take, SkipFolder, RaiseFirst, OpenFolder, WriteMessage,
                    SkipMessage, RaiseMessage, Escape, FinishFolder, Finish, Raise
      <3>. QED  BY <3>1, <3>2
    <2>2. files' = files \/ epc \in {"walked", "write", "message"} \/ ~cli
      BY <1>4 DEF ExportNext, evars, exportvars, RefuseContents, PassOver, RefuseSelection,
                  List, OpenOutput, Take, SkipFolder, RaiseFirst, OpenFolder, WriteMessage,
                  SkipMessage, RaiseMessage, Escape, FinishFolder, Finish, Raise
    <2>3. (cli /\ epc \in {"walked", "write", "message"}) => selected = Covered
      BY DEF Schedule, Ended
    <2>. QED  BY <1>1, <2>1, <2>2, <2>3 DEF SettledInv
  <1>. QED  BY <1>2, <1>3, <1>4

-----------------------------------------------------------------------------
(* Paths. *)
LEMMA PrefixOfItself ==
    ASSUME NEW T, NEW s \in Seq(T)
    PROVE  IsPrefix(s, s)
  BY LenProperties DEF IsPrefix

LEMMA PrefixExtends ==
    ASSUME NEW T, NEW w \in Seq(T), NEW s \in Seq(T), NEW r \in Seq(T), IsPrefix(w, s)
    PROVE  IsPrefix(w, s \o r)
  <1>1. PICK k \in Nat, m \in Nat, n \in Nat : k = Len(w) /\ m = Len(s) /\ n = Len(r)
    BY LenProperties
  <1>2. k <= m /\ SubSeq(w, 1, k) = SubSeq(s, 1, k)
    BY <1>1 DEF IsPrefix
  <1>3. Len(s \o r) = m + n
    BY <1>1, ConcatProperties
  <1>4. SubSeq(s \o r, 1, k) = SubSeq(s, 1, k)
    <2>1. CASE k = 0
      BY <2>1, SubSeqEmpty
    <2>2. CASE k # 0
      <3>1. 1 \in 1..Len(s) /\ k \in 1..Len(s)
        BY <1>1, <1>2, <2>2
      <3>. QED  BY <3>1, SubSeqOfConcat1
    <2>. QED  BY <2>1, <2>2
  <1>5. Len(w) <= Len(s \o r) /\ SubSeq(w, 1, Len(w)) = SubSeq(s \o r, 1, Len(w))
    BY <1>1, <1>2, <1>3, <1>4
  <1>. QED  BY <1>5 DEF IsPrefix

(* A prefix of a path is the path, or a prefix of the path above.          *)
LEMMA PrefixOfAppended ==
    ASSUME NEW T, NEW w \in Seq(T), NEW s \in Seq(T), NEW x \in T, IsPrefix(w, s \o <<x>>)
    PROVE  w = s \o <<x>> \/ IsPrefix(w, s)
  <1>1. PICK k \in Nat, m \in Nat : k = Len(w) /\ m = Len(s)
    BY LenProperties
  <1>2. PICK one \in Seq(T) : one = <<x>> /\ Len(one) = 1
    <2>1. <<x>> \in Seq(T) /\ Len(<<x>>) = 1
      OBVIOUS
    <2>. QED  BY <2>1
  <1>3. PICK t \in Seq(T) : t = s \o one /\ Len(t) = m + 1
    <2>1. s \o one \in Seq(T) /\ Len(s \o one) = Len(s) + Len(one)
      BY ConcatProperties
    <2>. QED  BY <1>1, <1>2, <2>1
  <1>4. k <= m + 1 /\ SubSeq(w, 1, k) = SubSeq(t, 1, k)
    BY <1>1, <1>2, <1>3 DEF IsPrefix
  <1>5. CASE k = m + 1
    <2>1. w = t
      BY <1>1, <1>3, <1>4, <1>5, SubSeqFull
    <2>. QED  BY <1>2, <1>3, <2>1
  <1>6. CASE k # m + 1
    <2>1. k <= m
      BY <1>4, <1>6
    <2>2. SubSeq(t, 1, k) = SubSeq(s, 1, k)
      <3>1. CASE k = 0
        BY <3>1, SubSeqEmpty
      <3>2. CASE k # 0
        <4>1. 1 \in 1..Len(s) /\ k \in 1..Len(s)
          BY <1>1, <2>1, <3>2
        <4>. QED  BY <1>3, <4>1, SubSeqOfConcat1
      <3>. QED  BY <3>1, <3>2
    <2>. QED  BY <1>1, <1>4, <2>1, <2>2 DEF IsPrefix
  <1>. QED  BY <1>5, <1>6

LEMMA PathIs ==
    ASSUME tree \in [Folders -> Folder], NEW f \in Folders
    PROVE  \E x \in Piece : DisplayPath(f) = <<x>>
  <1>1. tree[f].name \in DisplayName
    BY DEF Folder
  <1>2. [node |-> f] \in Piece /\ [text |-> tree[f].name] \in Piece
    BY <1>1 DEF Piece
  <1>. QED  BY <1>2 DEF DisplayPath

(* No folder is kept twice. *)
LEMMA KeptOnce ==
    ASSUME NEW T, NEW C, NEW u \in Seq(T), \A i, j \in 1..Len(u) : u[i] = u[j] => i = j
    PROVE  IsInjective(KeptOf(u, C))
  <1> DEFINE Once(t) == \A i, j \in 1..Len(t) : t[i] = t[j] => i = j
             bad == {n \in Nat : \E t \in Seq(T) : Len(t) = n /\ Once(t) /\ ~Once(KeptOf(t, C))}
  <1>1. bad = {}
    <2>1. SUFFICES ASSUME bad # {} PROVE FALSE
      OBVIOUS
    <2>2. PICK n \in bad : \A k \in bad : n <= k
      BY <2>1, LeastElement
    <2>3. PICK t \in Seq(T) : Len(t) = n /\ Once(t) /\ ~Once(KeptOf(t, C))
      BY <2>2
    <2>4. CASE t = <<>>
      <3>1. KeptOf(t, C) = <<>>
        BY <2>4, KeptEmpty
      <3>2. Once(<<>>)
        BY EmptySeq
      <3>. QED  BY <2>3, <3>1, <3>2
    <2>5. CASE t # <<>>
      <3>1. PICK r \in Seq(T), x \in T : t = Append(r, x)
        BY <2>5, SequenceEmptyOrAppend
      <3>2. PICK m \in Nat : /\ m = Len(r) /\ Len(t) = m + 1 /\ t[m + 1] = x
                             /\ \A i \in 1..m : t[i] = r[i]
        BY <3>1, AppendProperties, LenProperties
      <3>3. Once(r) /\ x \notin ToSet(r)
        <4>1. \A i \in 1..m : i \in 1..(m + 1) /\ i # m + 1
          OBVIOUS
        <4>2. Once(r)
          BY <2>3, <3>2, <4>1
        <4>3. \A i \in 1..m : r[i] # x
          <5>1. m + 1 \in 1..(m + 1)
            OBVIOUS
          <5>. QED  BY <2>3, <3>2, <4>1, <5>1
        <4>. QED  BY <3>2, <4>2, <4>3, LenProperties DEF ToSet
      <3>4. Once(KeptOf(r, C))
        <4>1. ~(n <= m)
          BY <2>3, <3>2
        <4>2. m \notin bad
          BY <2>2, <4>1
        <4>. QED  BY <3>2, <3>3, <4>2
      <3>5. PICK s \in Seq(T) : s = KeptOf(r, C) /\ x \notin ToSet(s)
        BY <3>3, KeptType, KeptMembers
      <3>6. KeptOf(t, C) = s \/ KeptOf(t, C) = Append(s, x)
        BY <3>1, <3>5, KeptAppend
      <3>7. Once(Append(s, x))
        <4>1. PICK p \in Nat : p = Len(s)
          BY LenProperties
        <4>2. /\ Len(Append(s, x)) = p + 1 /\ Append(s, x)[p + 1] = x
              /\ \A i \in 1..p : Append(s, x)[i] = s[i]
          BY <4>1, AppendProperties
        <4>3. \A i \in 1..p : s[i] # x
          BY <3>5, <4>1, LenProperties DEF ToSet
        <4>4. \A i, j \in 1..p : s[i] = s[j] => i = j
          BY <3>4, <3>5, <4>1
        <4>5. 1..(p + 1) = 1..p \cup {p + 1}
          OBVIOUS
        <4> HIDE DEF bad
        <4>. QED  BY <4>2, <4>3, <4>4, <4>5
      <3>. QED  BY <2>3, <3>4, <3>5, <3>6, <3>7
    <2>. QED  BY <2>4, <2>5
  <1>2. Len(u) \in Nat /\ Len(u) \notin bad
    BY <1>1, LenProperties
  <1>3. Once(KeptOf(u, C))
    BY <1>2
  <1>4. DOMAIN KeptOf(u, C) = 1..Len(KeptOf(u, C))
    BY KeptType, LenProperties
  <1>. QED  BY <1>3, <1>4 DEF IsInjective

-----------------------------------------------------------------------------
Parents(i) == {j \in 1..(i - 1) : Contains(WalkedChildren(yielded[j].folder), yielded[i].folder)}

LEMMA ParentsAre ==
    ASSUME WalkTypeOK, NEW i \in 1..Len(yielded)
    PROVE  /\ yielded[i] \in VisitType /\ yielded[i].folder \in Folders
           /\ yielded[i].path \in Seq(Piece)
           /\ Kids[yielded[i].folder] = WalkedChildren(yielded[i].folder)
           /\ \A j \in 1..(i - 1) : /\ j \in 1..Len(yielded)
                                   /\ j \in Parents(i) <=>
                                        yielded[i].folder \in ToSet(Kids[yielded[j].folder])
  <1>1. tree \in [Folders -> Folder] /\ yielded \in Seq(VisitType) /\ Len(yielded) \in Nat
    BY LenProperties DEF WalkTypeOK
  <1>2. \A j \in 1..Len(yielded) :
           yielded[j] \in VisitType /\ yielded[j].folder \in Folders /\ yielded[j].path \in Seq(Piece)
    <2>1. \A j \in 1..Len(yielded) : yielded[j] \in VisitType
      BY <1>1, ElementOfSeq
    <2>2. \A v \in VisitType : v.folder \in Folders /\ v.path \in Seq(Piece)
      BY DEF VisitType
    <2>. QED  BY <2>1, <2>2
  <1>3. \A f \in Folders : /\ Kids[f] = WalkedChildren(f)
                          /\ \A g : Contains(WalkedChildren(f), g) <=> g \in ToSet(Kids[f])
    <2>1. \A f \in Folders : DOMAIN WalkedChildren(f) = 1..Len(WalkedChildren(f))
      BY <1>1, WalkedType, LenProperties
    <2>. QED  BY <2>1 DEF Kids, ToSet, Contains
  <1>4. \A j \in 1..(i - 1) : j \in 1..Len(yielded)
    BY <1>1
  <1>. QED  BY <1>2, <1>3, <1>4 DEF Parents

(* A path is one that was asked for, or the folder above it is covered.    *)
LEMMA MatchedFromAbove ==
    ASSUME WalkTypeOK, WalkInv, SettledInv, NEW i \in 1..Len(yielded), wanted # {},
           Matches(yielded[i].path)
    PROVE  yielded[i].path \in wanted \/ \E j \in Parents(i) : Matches(yielded[j].path)
  <1>1. PICK w \in wanted : IsPrefix(w, yielded[i].path)
    BY DEF Matches
  <1>2. w \in Seq(Piece) /\ w # <<>> /\ tree \in [Folders -> Folder] /\ start \in Folders
    BY DEF SettledInv, WalkTypeOK
  <1>3. CASE i = 1
    <2>1. yielded # <<>>
      BY EmptySeq
    <2>2. yielded[i].path = DisplayPath(start)
      BY <1>3, <2>1 DEF WalkInv, PlaceInv, Visit
    <2>3. PICK x \in Piece : yielded[i].path = <<x>>
      BY <1>2, <2>2, PathIs
    <2>4. PICK none \in Seq(Piece) : none = <<>> /\ Len(none) = 0
      BY EmptySeq
    <2>5. yielded[i].path = none \o <<x>>
      <3>1. <<x>> \in Seq(Piece)
        OBVIOUS
      <3>. QED  BY <2>3, <2>4, <3>1, ConcatEmptySeq
    <2>6. w = yielded[i].path \/ IsPrefix(w, none)
      BY <1>1, <1>2, <2>5, PrefixOfAppended
    <2>7. ~IsPrefix(w, none)
      <3>1. Len(w) \in Nat /\ Len(w) # 0
        BY <1>2, EmptySeq, LenProperties
      <3>. QED  BY <2>4, <3>1 DEF IsPrefix
    <2>. QED  BY <2>6, <2>7
  <1>4. CASE i # 1
    <2>1. i \in 2..Len(yielded)
      BY <1>4, LenProperties DEF WalkTypeOK
    <2>2. PICK j \in 1..(i - 1) : Under(yielded[i], j)
      BY <2>1 DEF WalkInv, PlaceInv
    <2>3. /\ j \in 1..Len(yielded) /\ j \in Parents(i) /\ yielded[i].folder \in Folders
          /\ yielded[i].path = yielded[j].path \o DisplayPath(yielded[i].folder)
      BY <2>2, ParentsAre DEF Under, Called
    <2>4. yielded[j].path \in Seq(Piece)
      BY <2>3, ParentsAre
    <2>5. PICK x \in Piece : DisplayPath(yielded[i].folder) = <<x>>
      BY <1>2, <2>3, PathIs
    <2>6. w = yielded[i].path \/ IsPrefix(w, yielded[j].path)
      BY <1>1, <1>2, <2>3, <2>4, <2>5, PrefixOfAppended, SMTT(30)
    <2>. QED  BY <2>3, <2>6 DEF Matches
  <1>. QED  BY <1>3, <1>4

(* A folder in one that is covered is covered: once the walk has ended it  *)
(* has handed out every child it went on to, and under that folder's path. *)
LEMMA MatchedBelow ==
    ASSUME WalkTypeOK, WalkInv, SettledInv, gpc = "done", NEW i \in 1..Len(yielded),
           NEW j \in Parents(i), Matches(yielded[j].path)
    PROVE  Matches(yielded[i].path)
  <1>1. /\ j \in 1..Len(yielded) /\ yielded[i].folder \in ToSet(Kids[yielded[j].folder])
        /\ yielded[i].folder \in Folders
    BY ParentsAre DEF Parents
  <1>2. j \in Passed
    BY <1>1 DEF Passed
  <1>3. ToSet(pending) = {}
    BY DEF WalkInv, StackInv, ToSet
  <1>4. PICK v \in ToSet(yielded) : v.folder = yielded[i].folder /\ Under(v, j)
    BY <1>1, <1>2, <1>3 DEF WalkInv, PlaceInv
  <1>5. PICK k \in 1..Len(yielded) : v = yielded[k]
    BY LenProperties DEF WalkTypeOK, ToSet
  <1>6. k = i
    BY <1>4, <1>5 DEF WalkInv, OnceInv
  <1>7. yielded[i].path = yielded[j].path \o DisplayPath(yielded[i].folder)
    BY <1>1, <1>4, <1>5, <1>6 DEF Under, Called
  <1>8. /\ yielded[j].path \in Seq(Piece) /\ DisplayPath(yielded[i].folder) \in Seq(Piece)
        /\ wanted \in SUBSET Seq(Piece)
    BY <1>1, ParentsAre, DisplayPathType DEF WalkTypeOK, SettledInv
  <1>9. ASSUME NEW w \in wanted, IsPrefix(w, yielded[j].path) PROVE IsPrefix(w, yielded[i].path)
    BY <1>7, <1>8, <1>9, PrefixExtends
  <1>. QED  BY <1>9 DEF Matches

LEMMA SubtreeFollows ==
    ASSUME WalkTypeOK, WalkInv, ExportTypes, SelectionInv, Schedule, SettledInv
    PROVE  SelectionIsSubtree
  <1> SUFFICES ASSUME epc \in {"walked", "write", "message", "finished"}, cli
               PROVE  /\ \A i \in DOMAIN yielded :
                            Contains(selected, yielded[i]) <=>
                              \/ wanted = {} \/ yielded[i].path \in wanted
                              \/ \E j \in Parents(i) : Contains(selected, yielded[j])
                      /\ IsInjective(selected)
    BY DEF SelectionIsSubtree, Parents
  <1>1. gpc = "done" /\ selected = Covered
    BY DEF SelectionInv, Schedule, Selecting, Ended
  <1>2. yielded \in Seq(VisitType) /\ DOMAIN yielded = 1..Len(yielded)
    BY LenProperties DEF WalkTypeOK
  <1>3. ASSUME NEW i \in 1..Len(yielded)
        PROVE  Contains(selected, yielded[i]) <=> Matches(yielded[i].path)
    <2>1. yielded[i] \in ToSet(yielded) /\ yielded[i] \in VisitType
      BY <1>2, ParentsAre DEF ToSet
    <2>2. selected \in Seq(VisitType) /\ ToSet(selected) = ToSet(yielded) \cap Chosen
      BY <1>1, CoveredType
    <2>3. Contains(selected, yielded[i]) <=> yielded[i] \in ToSet(selected)
      BY <2>2, LenProperties DEF Contains, ToSet
    <2>. QED  BY <2>1, <2>2, <2>3 DEF Chosen
  <1>4. ASSUME NEW i \in 1..Len(yielded)
        PROVE  Contains(selected, yielded[i]) <=>
                 \/ wanted = {} \/ yielded[i].path \in wanted
                 \/ \E j \in Parents(i) : Contains(selected, yielded[j])
    <2>1. \A j \in Parents(i) : Contains(selected, yielded[j]) <=> Matches(yielded[j].path)
      BY <1>3, ParentsAre DEF Parents
    <2>2. yielded[i].path \in Seq(Piece)
      BY ParentsAre
    <2>3. (wanted = {} \/ yielded[i].path \in wanted) => Matches(yielded[i].path)
      BY <2>2, PrefixOfItself DEF Matches
    <2>4. (\E j \in Parents(i) : Matches(yielded[j].path)) => Matches(yielded[i].path)
      BY <1>1, MatchedBelow
    <2>5. Matches(yielded[i].path) =>
            \/ wanted = {} \/ yielded[i].path \in wanted
            \/ \E j \in Parents(i) : Matches(yielded[j].path)
      BY MatchedFromAbove
    <2>. QED  BY <1>3, <2>1, <2>3, <2>4, <2>5
  <1>5. IsInjective(selected)
    <2>1. \A i, j \in 1..Len(yielded) : yielded[i] = yielded[j] => i = j
      BY DEF WalkInv, OnceInv
    <2>2. selected = KeptOf(yielded, Chosen)
      BY <1>1 DEF Covered, Chosen
    <2>. QED  BY <1>2, <2>1, <2>2, KeptOnce
  <1>. QED  BY <1>2, <1>4, <1>5

LEMMA FailureFollows ==
    ASSUME WalkTypeOK, WalkInv, ExportTypes, SelectionInv, Schedule, SettledInv
    PROVE  FailedSelectionLeavesNoTrace
  <1> SUFFICES ASSUME cli, files # before PROVE ~SelectionFails
    BY DEF FailedSelectionLeavesNoTrace
  <1>1. gpc = "done" /\ SelectionSound /\ selected = Covered
    BY DEF SelectionInv, FilesAfterSelection, SettledInv
  <1>2. WithinLimits /\ (strict => AllListed)
    BY <1>1, VerdictFollows DEF WalkVerdict
  <1>. QED  BY <1>1, <1>2 DEF SelectionFails, SelectionSound

(* What the command selects is what --folder names, all of it and once:    *)
(* with a folder everything that the walk found in it, and nothing else;   *)
(* and a selection that fails, for whatever reason, has touched no file.   *)
THEOREM SelectionCorrect == ExportSpec => []SelectionIsSound
  <1>1. ExportInit => SettledInv
    BY SettledStarts
  <1>2. WalkTypeOK /\ SelectionInv /\ OutputInv /\ SettledInv /\ [ExportNext]_evars => SettledInv'
    BY SettledStep DEF OutputInv
  <1>3. WalkTypeOK /\ WalkInv /\ ExportTypes /\ SelectionInv /\ OutputInv /\ SettledInv
           => SelectionIsSound
    BY SubtreeFollows, FailureFollows DEF OutputInv, SelectionIsSound
  <1>. QED  BY <1>1, <1>2, <1>3, ConsumerWalks, WalkInvariant, WalkFacts, ExportTypesHold,
               SelectionInvariant, OutputHolds, PTL DEF ExportSpec, ExportSafety

-----------------------------------------------------------------------------
(* What a run says in the end.                                             *)

(* Fewer are kept exactly if some member of the sequence is not chosen.    *)
LEMMA KeptLength ==
    ASSUME NEW T, NEW C, NEW u \in Seq(T)
    PROVE  Len(KeptOf(u, C)) = Len(u) <=> ToSet(u) \subseteq C
  <1> DEFINE Full(t) == /\ Len(KeptOf(t, C)) <= Len(t)
                        /\ Len(KeptOf(t, C)) = Len(t) <=> ToSet(t) \subseteq C
             bad == {n \in Nat : \E t \in Seq(T) : Len(t) = n /\ ~Full(t)}
  <1>1. bad = {}
    <2>1. SUFFICES ASSUME bad # {} PROVE FALSE
      OBVIOUS
    <2>2. PICK n \in bad : \A k \in bad : n <= k
      BY <2>1, LeastElement
    <2>3. PICK t \in Seq(T) : Len(t) = n /\ ~Full(t)
      BY <2>2
    <2>4. CASE t = <<>>
      <3>1. KeptOf(t, C) = <<>> /\ Len(t) = 0 /\ ToSet(t) = {}
        BY <2>4, KeptEmpty, EmptySeq DEF ToSet
      <3>2. Len(KeptOf(t, C)) = 0
        BY <2>4, <3>1
      <3>. QED  BY <2>3, <3>1, <3>2
    <2>5. CASE t # <<>>
      <3>1. PICK r \in Seq(T), x \in T : t = Append(r, x)
        BY <2>5, SequenceEmptyOrAppend
      <3>2. PICK m \in Nat : m = Len(r) /\ Len(t) = m + 1
        BY <3>1, AppendProperties, LenProperties
      <3>3. Full(r)
        <4>1. ~(n <= m)
          BY <2>3, <3>2
        <4>2. m \notin bad
          BY <2>2, <4>1
        <4>. QED  BY <3>2, <4>2
      <3>4. PICK s \in Seq(T), k \in Nat : s = KeptOf(r, C) /\ k = Len(s)
        BY KeptType, LenProperties
      <3>5. k <= m /\ (k = m <=> ToSet(r) \subseteq C)
        BY <3>2, <3>3, <3>4
      <3>6. ToSet(t) = ToSet(r) \cup {x}
        BY <3>1, AppendMembers
      <3>7. KeptOf(t, C) = IF x \in C THEN Append(s, x) ELSE s
        BY <3>1, <3>4, KeptAppend
      <3>8. Len(Append(s, x)) = k + 1
        BY <3>4, AppendProperties
      <3>9. CASE x \in C
        <4>1. Len(KeptOf(t, C)) = k + 1
          BY <3>7, <3>8, <3>9
        <4>2. k + 1 <= m + 1 /\ (k + 1 = m + 1 <=> k = m)
          BY <3>5
        <4>3. ToSet(t) \subseteq C <=> ToSet(r) \subseteq C
          BY <3>6, <3>9
        <4>. QED  BY <2>3, <3>2, <3>5, <4>1, <4>2, <4>3
      <3>10. CASE x \notin C
        <4>1. Len(KeptOf(t, C)) = k
          BY <3>4, <3>7, <3>10
        <4>2. k <= m + 1 /\ k # m + 1
          BY <3>5
        <4>3. ~(ToSet(t) \subseteq C)
          BY <3>6, <3>10
        <4>. QED  BY <2>3, <3>2, <4>1, <4>2, <4>3
      <3>. QED  BY <3>9, <3>10
    <2>. QED  BY <2>4, <2>5
  <1>2. Len(u) \in Nat /\ Len(u) \notin bad
    BY <1>1, LenProperties
  <1>3. Full(u)
    BY <1>2
  <1>. QED  BY <1>3

(* Only messages that do not open come before the first that does.         *)
LEMMA FromFirstMembers ==
    ASSUME NEW ids \in Seq(Messages)
    PROVE  /\ ToSet(FromFirstOpened(ids)) \subseteq ToSet(ids)
           /\ \A m \in ToSet(ids) : \/ m \in ToSet(FromFirstOpened(ids))
                                    \/ message[m] = "unopenable" /\ message[ids[1]] = "unopenable"
  <1> DEFINE opened == {i \in DOMAIN ids : message[ids[i]] # "unopenable"}
  <1>1. PICK l \in Nat : /\ l = Len(ids) /\ DOMAIN ids = 1..l
                         /\ \A i \in 1..l : ids[i] \in Messages
    BY LenProperties, ElementOfSeq
  <1>2. FromFirstOpened(ids) = IF opened = {} THEN <<>> ELSE SubSeq(ids, Min(opened), l)
    BY <1>1 DEF FromFirstOpened
  <1>3. ToSet(ids) = {ids[i] : i \in 1..l}
    BY <1>1 DEF ToSet
  <1>4. CASE opened = {}
    <2>1. \A i \in 1..l : message[ids[i]] = "unopenable" /\ 1 \in 1..l
      BY <1>1, <1>4
    <2>2. ToSet(FromFirstOpened(ids)) = {}
      BY <1>2, <1>4 DEF ToSet
    <2>. QED  BY <1>3, <2>1, <2>2
  <1>5. CASE opened # {}
    <2>1. opened \in SUBSET Nat
      BY <1>1
    <2>2. Min(opened) \in opened /\ \A k \in opened : Min(opened) <= k
      BY <1>5, <2>1, MinProperties
    <2>3. PICK n \in 1..l : n = Min(opened)
      BY <1>1, <2>2
    <2>4. \A i \in 1..l : i < n => message[ids[i]] = "unopenable"
      <3> SUFFICES ASSUME NEW i \in 1..l, i < n PROVE message[ids[i]] = "unopenable"
        OBVIOUS
      <3>1. ~(n <= i)
        OBVIOUS
      <3>2. i \notin opened
        BY <2>2, <2>3, <3>1
      <3>. QED  BY <1>1, <3>2
    <2> HIDE DEF opened
    <2>5. PICK b : b = SubSeq(ids, n, l)
      OBVIOUS
    <2>6. /\ b \in Seq(Messages) /\ Len(b) = (l - n) + 1
          /\ \A i \in 1..((l - n) + 1) : b[i] = ids[n + i - 1]
      <3>1. \A i \in n..l : ids[i] \in Messages
        BY <1>1
      <3>2. /\ SubSeq(ids, n, l) \in Seq(Messages)
            /\ Len(SubSeq(ids, n, l)) = IF n <= l THEN l - n + 1 ELSE 0
            /\ \A i \in 1..(l - n + 1) : SubSeq(ids, n, l)[i] = ids[n + i - 1]
        BY <3>1, SubSeqProperties
      <3>. QED  BY <2>5, <3>2
    <2>7. ToSet(b) = {b[i] : i \in 1..((l - n) + 1)}
      BY <2>6, LenProperties DEF ToSet
    <2>8. ToSet(b) \subseteq ToSet(ids)
      <3>1. \A i \in 1..((l - n) + 1) : n + i - 1 \in 1..l
        OBVIOUS
      <3>. QED  BY <1>3, <2>6, <2>7, <3>1
    <2>9. ASSUME NEW j \in 1..l
          PROVE  \/ ids[j] \in ToSet(b)
                 \/ message[ids[j]] = "unopenable" /\ message[ids[1]] = "unopenable"
      <3>1. CASE j < n
        <4>1. 1 \in 1..l /\ 1 < n
          BY <3>1
        <4>. QED  BY <2>4, <3>1, <4>1
      <3>2. CASE ~(j < n)
        <4>1. (j - n) + 1 \in 1..((l - n) + 1) /\ n + ((j - n) + 1) - 1 = j
          BY <3>2
        <4>2. b[(j - n) + 1] = ids[j]
          BY <2>6, <4>1
        <4>. QED  BY <2>7, <4>1, <4>2
      <3>. QED  BY <3>1, <3>2
    <2>10. FromFirstOpened(ids) = b
      BY <1>2, <1>5, <2>3, <2>5
    <2>. QED  BY <1>3, <2>8, <2>9, <2>10
  <1>. QED  BY <1>4, <1>5

(* What the call and the store alone say of a message filed in a folder    *)
(* that is covered.                                                        *)
Filed == [f \in Folders |-> ToSet(Named(f))]
Escapers == {p \in VisitType \X Messages : Escapes(p[1], p[2])}
Handled == {p \in VisitType \X Messages : p \notin Escapers /\ (strict => p[2] \in Converting)}
HandledVisits == {v \in VisitType : \A m \in Filed[v.folder] : <<v, m>> \in Handled}

DropSeen ==
    \E v \in ToSet(Covered) :
        \/ ContentsRefused(v.folder)
        \/ format # "list" /\ \E m \in Filed[v.folder] : m \notin Converting

(* Of the folders left behind a run has handled every message: it converts *)
(* or, if the run is not strict, it was skipped, and nothing escaped.      *)
HandledInv ==
    /\ epc \in {"walked", "finished"} => gpc = "done"
    /\ (strict /\ ~Ended) =>
          \A v \in ToSet(Covered) : ~ContentsRefused(v.folder) \/ (epc = "folder" /\ v = current)
    /\ (Writing /\ format # "list") =>
          \A v \in ToSet(ReadableFolders) : v \in Left \/ v \in HandledVisits
    /\ epc = "message" =>
          /\ ToSet(msgs) \subseteq Filed[Head(todo).folder]
          /\ \A m \in Filed[Head(todo).folder] : m \in ToSet(msgs) \/ <<Head(todo), m>> \in Handled

(* How a run ends that does not end well. *)
EndInv ==
    /\ epc = "refused" => \/ gpc = "refused"
                          \/ strict /\ DropSeen
                          \/ cli /\ wanted # {} /\ Covered = <<>>
    /\ epc = "escaped" =>
          \E v \in ToSet(ReadableFolders) : \E m \in Filed[v.folder] : <<v, m>> \in Escapers

LEMMA VerdictStays ==
    ASSUME [ExportNext]_evars
    PROVE  /\ UNCHANGED strict /\ Filed' = Filed /\ Escapers' = Escapers /\ Handled' = Handled
           /\ HandledVisits' = HandledVisits /\ Converting' = Converting
  <1>1. UNCHANGED job /\ UNCHANGED <<cli, format, wanted, contents, message, before>>
    BY JobStays
  <1>2. UNCHANGED strict
    BY DEF ExportNext, evars, walkvars, call, Generate, WalkNext, YieldFolder, RefuseFolder,
           RefuseWalk, Expand, SkipChildren, RaiseChildren, FinishWalk, RefuseContents,
           Select, PassOver, RefuseSelection, List, OpenOutput, Take, SkipFolder, RaiseFirst,
           OpenFolder, WriteMessage, SkipMessage, RaiseMessage, Escape, FinishFolder, Finish, Raise
  <1>3. Filed' = Filed /\ Converting' = Converting
    BY <1>1, JobReads DEF Filed
  <1>4. Escapers' = Escapers
    BY <1>1 DEF Escapers, Escapes
  <1>5. Handled' = Handled
    BY <1>2, <1>3, <1>4 DEF Handled
  <1>6. HandledVisits' = HandledVisits
    BY <1>3, <1>5 DEF HandledVisits
  <1>. QED  BY <1>2, <1>3, <1>4, <1>5, <1>6

LEMMA FiledType ==
    ASSUME ExportTypes, NEW f \in Folders
    PROVE  /\ Named(f) \in Seq(Messages) /\ Filed[f] = ToSet(Named(f))
           /\ Filed[f] \subseteq Messages
  <1>1. Named(f) \in Seq(Messages)
    BY NamedType DEF ExportTypes, JobTypes
  <1>. QED  BY <1>1, ToSetType DEF Filed

LEMMA HandledStarts == ASSUME ExportInit PROVE HandledInv /\ EndInv
  <1>1. epc = "walk" /\ yielded = <<>>
    BY DEF ExportInit, WalkStarts
  <1>2. Covered = <<>> /\ ReadableFolders = <<>>
    <2>1. Covered = <<>>
      BY <1>1, KeptEmpty DEF Covered
    <2>. QED  BY <2>1, KeptEmpty DEF ReadableFolders
  <1>3. ToSet(Covered) = {} /\ ToSet(ReadableFolders) = {}
    BY <1>2 DEF ToSet
  <1>. QED  BY <1>1, <1>3 DEF HandledInv, EndInv

LEMMA EndStep ==
    ASSUME WalkTypeOK, ExportTypes, Schedule, HandledInv, EndInv, [ExportNext]_evars
    PROVE  EndInv'
  <1>1. /\ UNCHANGED strict /\ Filed' = Filed /\ Escapers' = Escapers
        /\ Converting' = Converting
        /\ UNCHANGED <<cli, format, wanted>>
    BY VerdictStays, JobStays
  <1>2. /\ todo \in Seq(VisitType) /\ msgs \in Seq(Messages) /\ Covered \in Seq(VisitType)
        /\ ToSet(ReadableFolders) = {v \in ToSet(Covered) : ~ContentsRefused(v.folder)}
        /\ epc = "message" => todo # <<>>
        /\ epc \in {"write", "message"} => format # "list"
        /\ ToSet(todo) \subseteq ToSet(Covered)
    BY CoveredType DEF ExportTypes, ProgressTypes, Schedule
  <1>3. ASSUME todo # <<>>
        PROVE  Head(todo) \in VisitType /\ Head(todo) \in ToSet(Covered) /\ Head(todo).folder \in Folders
    <2>1. Head(todo) \in VisitType /\ Head(todo) \in ToSet(todo)
      BY <1>2, <1>3, PopProperties, PopMembers
    <2>2. Head(todo).folder \in Folders
      BY <2>1 DEF VisitType
    <2>. QED  BY <1>2, <2>1, <2>2
  <1>4. ASSUME ~Generate, UNCHANGED gpc
        PROVE  /\ Covered' = Covered /\ ReadableFolders' = ReadableFolders
               /\ DropSeen' <=> DropSeen
    <2>1. Covered' = Covered /\ ReadableFolders' = ReadableFolders /\ UNCHANGED job
      BY <1>4, WalkWaits
    <2>2. \A f : ContentsRefused(f)' <=> ContentsRefused(f)
      BY <2>1, JobReads
    <2>3. DropSeen' <=> DropSeen
      BY <1>1, <2>1, <2>2 DEF DropSeen
    <2>. QED  BY <2>1, <2>3
  <1>5. CASE Generate
    <2>1. epc' # "escaped" /\ (epc' = "refused" => gpc' = "refused")
      <3>1. /\ epc' = CASE gpc' = "expand" -> "folder" [] gpc' = "next" -> "walk"
                    [] gpc' = "done" -> "walked" [] gpc' = "refused" -> "refused"
            /\ gpc' \in {"next", "expand", "done", "refused"}
        BY <1>5 DEF Generate, WalkNext, YieldFolder, RefuseFolder, RefuseWalk, Expand,
                    SkipChildren, RaiseChildren, FinishWalk
      <3>. QED  BY <3>1
    <2>. QED  BY <2>1 DEF EndInv
  <1>6. CASE RefuseContents
    <2>1. /\ epc = "folder" /\ strict /\ ContentsRefused(current.folder) /\ epc' = "refused"
          /\ cli => Matches(current.path)
          /\ UNCHANGED gpc /\ ~Generate
      BY <1>6 DEF RefuseContents, Raise, walkvars, Generate
    <2>2. current \in ToSet(Covered)
      <3>1. CASE cli
        <4>1. Covered = Append(selected, current) /\ selected \in Seq(VisitType)
              /\ current \in VisitType
          BY <2>1, <3>1 DEF Schedule, ExportTypes, ProgressTypes, WalkTypeOK
        <4>. QED  BY <4>1, AppendMembers
      <3>2. CASE ~cli
        BY <2>1, <3>2 DEF Schedule
      <3>. QED  BY <3>1, <3>2
    <2>3. DropSeen
      BY <2>1, <2>2 DEF DropSeen
    <2>. QED  BY <1>1, <1>4, <2>1, <2>3 DEF EndInv
  <1>7. CASE RefuseSelection
    <2>1. /\ epc = "walked" /\ cli /\ wanted # {} /\ selected = <<>> /\ epc' = "refused"
          /\ UNCHANGED gpc /\ ~Generate
      BY <1>7 DEF RefuseSelection, NothingMatches, Raise, walkvars, Generate
    <2>2. Covered = <<>>
      BY <2>1 DEF Schedule, Ended
    <2>. QED  BY <1>1, <1>4, <2>1, <2>2 DEF EndInv
  <1>8. CASE RaiseFirst
    <2>1. /\ epc = "write" /\ todo # <<>> /\ FirstRaises(Head(todo).folder) /\ epc' = "refused"
          /\ UNCHANGED gpc /\ ~Generate
      BY <1>8 DEF RaiseFirst, Raise, walkvars, Generate
    <2>2. PICK f \in Folders : f = Head(todo).folder
      BY <1>3, <2>1
    <2>3. strict /\ format # "list" /\ Named(f) # <<>> /\ message[Named(f)[1]] = "unopenable"
      BY <2>1, <2>2 DEF FirstRaises
    <2>4. Named(f) \in Seq(Messages) /\ Filed[f] = ToSet(Named(f))
      BY FiledType
    <2>5. Named(f)[1] \in Filed[f]
      <3>1. Len(Named(f)) \in Nat /\ Len(Named(f)) # 0 /\ DOMAIN Named(f) = 1..Len(Named(f))
        BY <2>3, <2>4, EmptySeq, LenProperties
      <3>2. 1 \in DOMAIN Named(f)
        BY <3>1
      <3>. QED  BY <2>4, <3>2 DEF ToSet
    <2>6. Named(f)[1] \notin Converting
      BY <2>3 DEF Converting, Converts
    <2>7. DropSeen
      BY <1>3, <2>1, <2>2, <2>3, <2>5, <2>6 DEF DropSeen
    <2>. QED  BY <1>1, <1>4, <2>1, <2>3, <2>7 DEF EndInv
  <1>9. ASSUME epc = "message", msgs # <<>>
        PROVE  /\ todo # <<>> /\ Head(msgs) \in Messages
               /\ Head(msgs) \in Filed[Head(todo).folder]
    <2>1. Head(msgs) \in Messages /\ Head(msgs) \in ToSet(msgs)
      BY <1>2, <1>9, PopProperties, PopMembers
    <2>. QED  BY <1>2, <1>9, <2>1 DEF HandledInv
  <1>10. CASE RaiseMessage
    <2>1. /\ epc = "message" /\ msgs # <<>> /\ Refuses(Head(msgs)) /\ strict /\ epc' = "refused"
          /\ UNCHANGED gpc /\ ~Generate
      BY <1>10 DEF RaiseMessage, Raise, walkvars, Generate
    <2>2. Head(msgs) \notin Converting
      BY <2>1 DEF Refuses, Converting, Converts
    <2>3. DropSeen
      BY <1>2, <1>3, <1>9, <2>1, <2>2 DEF DropSeen
    <2>. QED  BY <1>1, <1>4, <2>1, <2>3 DEF EndInv
  <1>11. CASE Escape
    <2>1. /\ epc = "message" /\ msgs # <<>> /\ Escapes(Head(todo), Head(msgs)) /\ epc' = "escaped"
          /\ UNCHANGED gpc /\ ~Generate
      BY <1>11 DEF Escape, walkvars, Generate
    <2>2. <<Head(todo), Head(msgs)>> \in Escapers
      BY <1>3, <1>9, <2>1 DEF Escapers
    <2>3. Head(todo) \in ToSet(ReadableFolders)
      BY <1>2, <1>3, <1>9, <2>1 DEF Schedule
    <2>. QED  BY <1>1, <1>4, <1>9, <2>1, <2>2, <2>3 DEF EndInv
  <1>12. CASE \/ Select \/ PassOver \/ List \/ OpenOutput \/ Take \/ SkipFolder \/ OpenFolder
              \/ WriteMessage \/ SkipMessage \/ FinishFolder \/ Finish
    <2>1. epc' \notin {"refused", "escaped"}
      BY <1>12 DEF Select, PassOver, List, OpenOutput, Take, SkipFolder, OpenFolder, WriteMessage,
                   SkipMessage, FinishFolder, Finish, AfterFolder
    <2>. QED  BY <2>1 DEF EndInv
  <1>13. CASE UNCHANGED evars
    <2>1. UNCHANGED <<epc, gpc, yielded, job>>
      BY <1>13 DEF evars, exportvars, walkvars
    <2>2. Covered' = Covered /\ ReadableFolders' = ReadableFolders
      BY <2>1, CoveredStays
    <2>3. \A f : ContentsRefused(f)' <=> ContentsRefused(f)
      BY <2>1, JobReads
    <2>4. DropSeen' <=> DropSeen
      BY <1>1, <2>2, <2>3 DEF DropSeen
    <2>. QED  BY <1>1, <2>1, <2>2, <2>4 DEF EndInv
  <1>. QED  BY <1>5, <1>6, <1>7, <1>8, <1>10, <1>11, <1>12, <1>13 DEF ExportNext

LEMMA HandledStep ==
    ASSUME WalkTypeOK, ExportTypes, SelectionInv, Schedule, HandledInv, [ExportNext]_evars
    PROVE  HandledInv'
  <1> DEFINE Readable == ToSet(ReadableFolders)
  <1>1. /\ UNCHANGED strict /\ Filed' = Filed /\ Escapers' = Escapers /\ Handled' = Handled
        /\ HandledVisits' = HandledVisits
        /\ UNCHANGED job /\ UNCHANGED <<cli, format, wanted, contents, message>>
        /\ \A f : ContentsRefused(f)' <=> ContentsRefused(f)
    BY VerdictStays, JobStays, JobReads
  <1>2. /\ todo \in Seq(VisitType) /\ msgs \in Seq(Messages) /\ Covered \in Seq(VisitType)
        /\ ToSet(Covered) \subseteq VisitType
        /\ Readable = {v \in ToSet(Covered) : ~ContentsRefused(v.folder)}
        /\ epc = "message" => todo # <<>>
        /\ epc \in {"write", "message"} => format # "list"
        /\ ToSet(todo) \subseteq ToSet(Covered)
    BY CoveredType, ToSetType DEF ExportTypes, ProgressTypes, Schedule
  <1>3. ASSUME todo # <<>>
        PROVE  /\ Head(todo) \in VisitType /\ Head(todo) \in ToSet(Covered)
               /\ Head(todo).folder \in Folders
               /\ ToSet(todo) = {Head(todo)} \cup ToSet(Tail(todo))
    <2>1. Head(todo) \in VisitType /\ ToSet(todo) = {Head(todo)} \cup ToSet(Tail(todo))
      BY <1>2, <1>3, PopProperties, PopMembers
    <2>2. Head(todo).folder \in Folders
      BY <2>1 DEF VisitType
    <2>. QED  BY <1>2, <2>1, <2>2
  <1>4. /\ epc \in {"walked", "finished"} => gpc = "done"
        /\ (strict /\ ~Ended) => \A v \in ToSet(Covered) :
              ~ContentsRefused(v.folder) \/ (epc = "folder" /\ v = current)
        /\ (Writing /\ format # "list") => \A v \in Readable : v \in Left \/ v \in HandledVisits
        /\ epc = "message" =>
              /\ ToSet(msgs) \subseteq Filed[Head(todo).folder]
              /\ \A m \in Filed[Head(todo).folder] : m \in ToSet(msgs) \/ <<Head(todo), m>> \in Handled
    BY DEF HandledInv
  <1>5. SUFFICES
          /\ epc' \in {"walked", "finished"} => gpc' = "done"
          /\ (strict /\ ~Ended') => \A v \in ToSet(Covered') :
                ~ContentsRefused(v.folder) \/ (epc' = "folder" /\ v = current')
          /\ (Writing' /\ format # "list") =>
                \A v \in ToSet(ReadableFolders') : v \in Left' \/ v \in HandledVisits
          /\ epc' = "message" =>
                /\ ToSet(msgs') \subseteq Filed[Head(todo').folder]
                /\ \A m \in Filed[Head(todo').folder] :
                      m \in ToSet(msgs') \/ <<Head(todo'), m>> \in Handled
    BY <1>1 DEF HandledInv
  <1>6. ASSUME ~Generate
        PROVE  /\ UNCHANGED current /\ ToSet(Covered') = ToSet(Covered)
               /\ ToSet(ReadableFolders') = Readable
    <2>1. UNCHANGED current /\ Covered' = Covered /\ ReadableFolders' = ReadableFolders
      BY <1>6, WalkWaits
    <2>. QED  BY <2>1
  <1> HIDE DEF Readable
  <1>7. CASE Generate
    <2>1. /\ epc = "walk" /\ UNCHANGED todo
          /\ \/ /\ epc' = "folder" /\ current' \in VisitType
                /\ yielded' = Append(yielded, current')
             \/ epc' \in {"walk", "walked", "refused"} /\ UNCHANGED yielded
      BY <1>7, GenerateKinds
    <2>2. epc' = "walked" => gpc' = "done"
      <3>1. /\ epc' = CASE gpc' = "expand" -> "folder" [] gpc' = "next" -> "walk"
                    [] gpc' = "done" -> "walked" [] gpc' = "refused" -> "refused"
            /\ gpc' \in {"next", "expand", "done", "refused"}
        BY <1>7 DEF Generate, WalkNext, YieldFolder, RefuseFolder, RefuseWalk, Expand,
                    SkipChildren, RaiseChildren, FinishWalk
      <3>. QED  BY <3>1
    <2>3. /\ Left = ToSet(todo) /\ ToSet(todo) = {}
          /\ ~Ended /\ (Writing <=> ~cli) /\ (Writing' => ~cli)
      BY <1>1, <2>1 DEF Left, Schedule, Selecting, Writing, Ended, ToSet
    <2>4. CASE epc' = "folder" /\ current' \in VisitType /\ yielded' = Append(yielded, current')
      <3>1. /\ Covered' = IF ~cli \/ Matches(current'.path) THEN Append(Covered, current') ELSE Covered
            /\ ToSet(ReadableFolders') \subseteq ToSet(ReadableFolders) \cup {current'}
        BY <1>1, <2>4, CoveredGrows
      <3>2. ToSet(Covered') \subseteq ToSet(Covered) \cup {current'}
        <4>1. ToSet(Append(Covered, current')) = ToSet(Covered) \cup {current'}
          BY <1>2, <2>4, AppendMembers
        <4>2. CASE Covered' = Covered
          <5>1. ToSet(Covered') = ToSet(Covered)
            BY <4>2
          <5>. QED  BY <5>1
        <4>3. CASE Covered' = Append(Covered, current')
          <5>1. ToSet(Covered') = ToSet(Covered) \cup {current'}
            BY <4>1, <4>3
          <5>. QED  BY <5>1
        <4>. QED  BY <3>1, <4>2, <4>3
      <3>3. Left' = {current'}
        BY <2>4 DEF Left
      <3>. QED  BY <1>4, <2>1, <2>3, <2>4, <3>1, <3>2, <3>3 DEF Readable
    <2>5. CASE epc' \in {"walk", "walked", "refused"} /\ UNCHANGED yielded
      <3>1. ToSet(Covered') = ToSet(Covered) /\ ToSet(ReadableFolders') = Readable
        <4>1. Covered' = Covered /\ ReadableFolders' = ReadableFolders
          BY <1>1, <2>5, CoveredStays
        <4>. QED  BY <4>1 DEF Readable
      <3>2. Left' = ToSet(todo)
        BY <2>1, <2>5 DEF Left
      <3>. QED  BY <1>4, <2>1, <2>2, <2>3, <2>5, <3>1, <3>2
    <2>. QED  BY <2>1, <2>4, <2>5
  <1>8. CASE RefuseContents \/ RefuseSelection \/ RaiseFirst \/ RaiseMessage \/ Escape
    <2>1. epc' \in {"refused", "escaped"}
      BY <1>8 DEF RefuseContents, RefuseSelection, RaiseFirst, RaiseMessage, Escape, Raise
    <2>2. Ended' /\ ~Writing'
      BY <2>1 DEF Writing, Ended
    <2>. QED  BY <2>1, <2>2
  <1>9. CASE Select \/ PassOver
    <2>1. epc = "folder" /\ epc' = "walk" /\ ~Generate /\ cli
      BY <1>9 DEF Select, PassOver, Generate
    <2>2. ~Writing' /\ ~Ended
      BY <1>1, <2>1 DEF Writing, Ended, Selecting
    <2>3. ASSUME strict, NEW v \in ToSet(Covered) PROVE ~ContentsRefused(v.folder)
      <3>1. \A u \in ToSet(selected) : ~ContentsRefused(u.folder)
        BY <2>1, <2>3 DEF SelectionInv
      <3>2. CASE Matches(current.path)
        <4>1. ~ContentsRefused(current.folder)
          BY <1>9, <2>3, <3>2 DEF Select, PassOver
        <4>. QED  BY <1>4, <2>2, <2>3, <4>1
      <3>3. CASE ~Matches(current.path)
        <4>1. Covered = selected
          BY <2>1, <3>3 DEF Schedule
        <4>. QED  BY <2>3, <3>1, <4>1
      <3>. QED  BY <3>2, <3>3
    <2>. QED  BY <1>6, <2>1, <2>2, <2>3
  <1>10. CASE List
    <2>1. epc = "walked" /\ epc' = "finished" /\ format = "list" /\ ~Generate /\ UNCHANGED gpc
      BY <1>10 DEF List, Generate, walkvars
    <2>. QED  BY <1>4, <1>6, <2>1 DEF Ended
  <1>11. CASE OpenOutput
    <2>1. epc = "walked" /\ epc' = "write" /\ todo' = selected /\ cli /\ ~Generate
      BY <1>11 DEF OpenOutput, Generate
    <2>2. Left' = ToSet(Covered)
      BY <2>1 DEF Left, Schedule, Ended
    <2>. QED  BY <1>2, <1>4, <1>6, <2>1, <2>2 DEF Ended
  <1>12. CASE Take
    <2>1. /\ epc = "folder" /\ epc' = "write" /\ todo' = <<current>> /\ ~cli /\ ~Generate
          /\ ~(strict /\ ContentsRefused(current.folder))
          /\ format # "list"
      BY <1>12 DEF Take, Generate, ExportTypes, JobTypes
    <2>2. Left = {current} /\ Left' = {current} /\ Writing /\ ~Ended
      BY <2>1 DEF Left, ToSet, Writing, Ended
    <2>. QED  BY <1>4, <1>6, <2>1, <2>2
  <1>13. CASE SkipFolder
    <2>1. /\ epc = "write" /\ todo # <<>> /\ ContentsRefused(Head(todo).folder)
          /\ todo' = Tail(todo) /\ epc' \in {"write", "walk"} /\ ~Generate
      BY <1>13 DEF SkipFolder, AfterFolder, Generate
    <2>2. Left = ToSet(todo) /\ Left' = ToSet(Tail(todo)) /\ Writing /\ ~Ended
      BY <2>1 DEF Left, Writing, Ended, Selecting
    <2>3. ASSUME NEW v \in Readable, v \in Left PROVE v \in Left'
      BY <1>2, <1>3, <2>1, <2>2, <2>3
    <2>. QED  BY <1>4, <1>6, <2>1, <2>2, <2>3
  <1>14. CASE OpenFolder
    <2>1. /\ epc = "write" /\ epc' = "message" /\ todo # <<>> /\ todo' = todo /\ ~Generate
          /\ ~ContentsRefused(Head(todo).folder) /\ ~FirstRaises(Head(todo).folder)
          /\ msgs' = IF format = "folders" THEN FromFirstOpened(Named(Head(todo).folder))
                                           ELSE Named(Head(todo).folder)
      BY <1>14 DEF OpenFolder, Generate
    <2>2. Left = ToSet(todo) /\ Left' = Left /\ Writing /\ ~Ended
      BY <2>1 DEF Left, Writing, Ended, Selecting
    <2>3. PICK f \in Folders, v \in VisitType : f = Head(todo).folder /\ v = Head(todo)
      BY <1>3, <2>1
    <2>4. Named(f) \in Seq(Messages) /\ Filed[f] = ToSet(Named(f)) /\ Filed[f] \subseteq Messages
      BY FiledType
    <2>5. /\ ToSet(msgs') \subseteq Filed[f]
          /\ \A m \in Filed[f] : m \in ToSet(msgs') \/ <<v, m>> \in Handled
      <3>1. CASE format # "folders"
        <4>1. ToSet(msgs') = Filed[f]
          BY <2>1, <2>3, <2>4, <3>1
        <4>. QED  BY <4>1
      <3>2. CASE format = "folders"
        <4>1. msgs' = FromFirstOpened(Named(f))
          BY <2>1, <2>3, <3>2
        <4>2. /\ ToSet(FromFirstOpened(Named(f))) \subseteq ToSet(Named(f))
              /\ \A m \in ToSet(Named(f)) :
                    \/ m \in ToSet(FromFirstOpened(Named(f)))
                    \/ message[m] = "unopenable" /\ message[Named(f)[1]] = "unopenable"
          BY <2>4, FromFirstMembers
        <4>3. ASSUME NEW m \in Filed[f], message[m] = "unopenable",
                     message[Named(f)[1]] = "unopenable"
              PROVE  <<v, m>> \in Handled
          <5>1. ToSet(<<>>) = {}
            BY DEF ToSet
          <5>2. Named(f) # <<>>
            BY <2>4, <4>3, <5>1
          <5>3. ~strict
            BY <2>1, <2>3, <3>2, <4>3, <5>2 DEF FirstRaises
          <5>4. ~Escapes(v, m)
            BY <4>3 DEF Escapes
          <5>5. m \in Messages
            BY <2>4, <4>3
          <5>. QED  BY <5>3, <5>4, <5>5 DEF Handled, Escapers
        <4>4. ToSet(msgs') = ToSet(FromFirstOpened(Named(f)))
          BY <4>1
        <4>. QED  BY <2>4, <4>2, <4>3, <4>4
      <3>. QED  BY <3>1, <3>2
    <2>. QED  BY <1>4, <1>6, <2>1, <2>2, <2>3, <2>5
  <1>15. ASSUME epc = "message", msgs # <<>>
         PROVE  /\ todo # <<>> /\ Head(msgs) \in Messages /\ Head(todo) \in VisitType
                /\ ToSet(msgs) = {Head(msgs)} \cup ToSet(Tail(msgs))
    BY <1>2, <1>3, <1>15, PopProperties, PopMembers
  <1>16. CASE WriteMessage \/ SkipMessage
    <2>1. /\ epc = "message" /\ epc' = "message" /\ msgs # <<>> /\ todo' = todo /\ ~Generate
          /\ msgs' = Tail(msgs)
      BY <1>16 DEF WriteMessage, SkipMessage, Generate
    <2>2. <<Head(todo), Head(msgs)>> \in Handled
      <3>1. CASE WriteMessage
        <4>1. Converts(Head(msgs)) /\ ~Escapes(Head(todo), Head(msgs))
          BY <3>1 DEF WriteMessage
        <4>. QED  BY <1>15, <2>1, <4>1 DEF Handled, Escapers, Converting
      <3>2. CASE SkipMessage
        <4>1. Refuses(Head(msgs)) /\ ~strict
          BY <3>2 DEF SkipMessage
        <4>2. ~Escapes(Head(todo), Head(msgs))
          BY <4>1 DEF Refuses, Escapes
        <4>. QED  BY <1>15, <2>1, <4>1, <4>2 DEF Handled, Escapers
      <3>. QED  BY <1>16, <3>1, <3>2
    <2>3. Left = ToSet(todo) /\ Left' = Left /\ Writing /\ ~Ended
      BY <2>1 DEF Left, Writing, Ended, Selecting
    <2>. QED  BY <1>4, <1>6, <1>15, <2>1, <2>2, <2>3
  <1>17. CASE FinishFolder
    <2>1. /\ epc = "message" /\ epc' \in {"write", "walk"} /\ todo' = Tail(todo) /\ msgs = <<>>
          /\ todo # <<>> /\ ~Generate
      BY <1>2, <1>17 DEF FinishFolder, AfterFolder, Generate
    <2>2. ToSet(msgs) = {}
      BY <2>1 DEF ToSet
    <2>3. Left = ToSet(todo) /\ Left' = ToSet(Tail(todo)) /\ Writing /\ ~Ended
      BY <2>1 DEF Left, Writing, Ended, Selecting
    <2>4. Head(todo) \in HandledVisits
      BY <1>3, <1>4, <2>1, <2>2 DEF HandledVisits
    <2>. QED  BY <1>2, <1>3, <1>4, <1>6, <2>1, <2>3, <2>4
  <1>18. CASE Finish
    <2>1. /\ epc \in {"write", "walked"} /\ epc' = "finished" /\ todo' = todo /\ ~Generate
          /\ epc = "walked" => ~cli
          /\ epc = "write" => cli
          /\ UNCHANGED gpc
      BY <1>18 DEF Finish, Generate, walkvars
    <2>2. Left = ToSet(todo) /\ Left' = Left /\ Writing /\ ~Ended
      BY <2>1 DEF Left, Writing, Ended, Selecting
    <2>3. gpc = "done"
      BY <1>4, <2>1 DEF SelectionInv, Selecting
    <2>. QED  BY <1>4, <1>6, <2>1, <2>2, <2>3
  <1>19. CASE UNCHANGED evars
    <2>1. UNCHANGED <<epc, todo, msgs, current, yielded, gpc>>
      BY <1>19 DEF evars, exportvars, walkvars
    <2>2. ToSet(ReadableFolders') = Readable /\ ToSet(Covered') = ToSet(Covered)
      <3>1. Covered' = Covered /\ ReadableFolders' = ReadableFolders
        BY <1>1, <2>1, CoveredStays
      <3>. QED  BY <3>1 DEF Readable
    <2>3. Left' = Left /\ (Writing' <=> Writing) /\ (Ended' <=> Ended)
      BY <1>1, <2>1 DEF Left, Writing, Ended, Selecting
    <2>. QED  BY <1>4, <2>1, <2>2, <2>3
  <1>. QED  BY <1>7, <1>8, <1>9, <1>10, <1>11, <1>12, <1>13, <1>14, <1>16, <1>17, <1>18,
               <1>19 DEF ExportNext

-----------------------------------------------------------------------------
(* Everything named is written of the folders all of whose messages        *)
(* convert, and of no other.                                               *)
LEMMA GoodByNamed ==
    ASSUME ExportTypes, NEW v \in VisitType
    PROVE  GoodBy(v) = NamedBy(v) <=> Filed[v.folder] \subseteq Converting
  <1>1. v.folder \in Folders
    BY DEF VisitType
  <1>2. Named(v.folder) \in Seq(Messages) /\ Filed[v.folder] = ToSet(Named(v.folder))
    BY <1>1, FiledType
  <1>3. Good(v.folder) = KeptOf(Named(v.folder), Converting)
    BY DEF Good, Converting
  <1>. QED  BY <1>2, <1>3, KeptLength DEF GoodBy, NamedBy

LEMMA VerdictOfRun ==
    ASSUME WalkTypeOK, WalkInv, ExportTypes, SelectionInv, Schedule, HandledInv, EndInv
    PROVE  VerdictMatchesStore
  <1>1. /\ gpc = "done" => WithinLimits /\ (strict => AllListed)
        /\ gpc = "refused" => ~WithinLimits \/ (strict /\ ~AllListed)
    BY VerdictFollows DEF WalkVerdict
  <1>2. /\ ToSet(Covered) \subseteq VisitType
        /\ ToSet(ReadableFolders) = {v \in ToSet(Covered) : ~ContentsRefused(v.folder)}
    BY CoveredType, ToSetType
  <1>3. \A v \in ToSet(Covered) : /\ v.folder \in Folders
                                 /\ Filed[v.folder] = ToSet(Named(v.folder))
                                 /\ Filed[v.folder] \subseteq Messages
    <2> TAKE v \in ToSet(Covered)
    <2>1. v.folder \in Folders
      BY <1>2 DEF VisitType
    <2>. QED  BY <2>1, FiledType
  <1>4. ASSUME epc = "finished", format # "list"
        PROVE  \A v \in ToSet(ReadableFolders) : \A m \in Filed[v.folder] : <<v, m>> \in Handled
    <2>1. todo = <<>> /\ Writing
      BY <1>4 DEF Schedule, Writing, Ended, Selecting
    <2>2. Left = {}
      BY <1>4, <2>1 DEF Left, ToSet
    <2>. QED  BY <1>4, <2>1, <2>2 DEF HandledInv, HandledVisits
  <1>5. ASSUME epc = "finished", strict PROVE ~Dropped
    <2>1. AllListed
      BY <1>1, <1>5 DEF HandledInv
    <2>2. \A v \in ToSet(Covered) : ~ContentsRefused(v.folder)
      BY <1>5 DEF HandledInv, Ended
    <2>3. ASSUME format # "list", NEW v \in ToSet(Covered) PROVE GoodBy(v) = NamedBy(v)
      <3>1. v \in ToSet(ReadableFolders) /\ v \in VisitType
        BY <1>2, <2>2, <2>3
      <3>2. \A m \in Filed[v.folder] : <<v, m>> \in Handled
        BY <1>4, <1>5, <2>3, <3>1
      <3>3. Filed[v.folder] \subseteq Converting
        BY <1>5, <3>2 DEF Handled
      <3>. QED  BY <3>1, <3>3, GoodByNamed
    <2>. QED  BY <2>1, <2>2, <2>3 DEF Dropped
  <1>6. ASSUME DropSeen PROVE Dropped
    <2>1. PICK v \in ToSet(Covered) :
             \/ ContentsRefused(v.folder)
             \/ format # "list" /\ \E m \in Filed[v.folder] : m \notin Converting
      BY <1>6 DEF DropSeen
    <2>2. CASE ContentsRefused(v.folder)
      BY <2>2 DEF Dropped
    <2>3. CASE format # "list" /\ \E m \in Filed[v.folder] : m \notin Converting
      <3>1. GoodBy(v) # NamedBy(v)
        BY <1>2, <2>3, GoodByNamed
      <3>. QED  BY <2>3, <3>1 DEF Dropped
    <2>. QED  BY <2>1, <2>2, <2>3
  <1>7. epc = "refused" => \/ gpc = "refused"
                           \/ strict /\ Dropped
                           \/ cli /\ wanted # {} /\ Covered = <<>>
    BY <1>6 DEF EndInv
  <1>8. (gpc = "refused" /\ strict) => ~WithinLimits \/ Dropped
    BY <1>1 DEF Dropped
  <1>9. ASSUME epc = "escaped" PROVE Escaping
    <2>0. PICK v \in ToSet(ReadableFolders) : \E m \in Filed[v.folder] : <<v, m>> \in Escapers
      BY <1>9 DEF EndInv
    <2>1. PICK m \in Filed[v.folder] : <<v, m>> \in Escapers
      BY <2>0
    <2>2. Escapes(v, m) /\ m \in ToSet(Named(v.folder))
      BY <1>2, <1>3, <2>1 DEF Escapers
    <2>. QED  BY <2>2 DEF Escaping
  <1>10. ASSUME epc = "finished", format # "list" PROVE ~Escaping
    <2> SUFFICES ASSUME NEW v \in ToSet(ReadableFolders), NEW m \in ToSet(Named(v.folder)),
                        Escapes(v, m)
                 PROVE  FALSE
      BY DEF Escaping
    <2>1. m \in Filed[v.folder] /\ m \in Messages /\ v \in VisitType
      BY <1>2, <1>3
    <2>2. <<v, m>> \in Handled
      BY <1>4, <1>10, <2>1
    <2>. QED  BY <2>1, <2>2 DEF Handled, Escapers
  <1>. QED  BY <1>1, <1>5, <1>7, <1>8, <1>9, <1>10 DEF VerdictMatchesStore

(* A run says the truth about the store.  A strict run that ends well has  *)
(* dropped nothing, a run that is refused was refused for something that   *)
(* is in the store or in the call, and one that escapes met a message or a *)
(* name that no handler is prepared for.                                   *)
THEOREM VerdictCorrect == ExportSpec => []VerdictMatchesStore
  <1>1. ExportInit => HandledInv /\ EndInv
    BY HandledStarts
  <1>2. WalkTypeOK /\ ExportTypes /\ SelectionInv /\ OutputInv /\ (HandledInv /\ EndInv)
          /\ [ExportNext]_evars => (HandledInv /\ EndInv)'
    BY HandledStep, EndStep DEF OutputInv
  <1>3. WalkTypeOK /\ WalkInv /\ ExportTypes /\ SelectionInv /\ OutputInv /\ (HandledInv /\ EndInv)
          => VerdictMatchesStore
    BY VerdictOfRun DEF OutputInv
  <1>. QED  BY <1>1, <1>2, <1>3, ConsumerWalks, WalkInvariant, WalkFacts, ExportTypesHold,
               SelectionInvariant, OutputHolds, PTL DEF ExportSpec, ExportSafety

-----------------------------------------------------------------------------
(* What a run reports of itself.                                           *)

(* What is not kept weighs nothing, or is counted one by one.              *)
LEMMA KeptTotal ==
    ASSUME NEW T, NEW C, NEW w \in [T -> Nat], \A x \in T : x \notin C => w[x] = 0,
           NEW u \in Seq(T)
    PROVE  SumFunction(Mapped(KeptOf(u, C), w)) = SumFunction(Mapped(u, w))
  <1> DEFINE Same(t) == SumFunction(Mapped(KeptOf(t, C), w)) = SumFunction(Mapped(t, w))
             bad == {n \in Nat : \E t \in Seq(T) : Len(t) = n /\ ~Same(t)}
  <1>1. bad = {}
    <2>1. SUFFICES ASSUME bad # {} PROVE FALSE
      OBVIOUS
    <2>2. PICK n \in bad : \A k \in bad : n <= k
      BY <2>1, LeastElement
    <2>3. PICK t \in Seq(T) : Len(t) = n /\ ~Same(t)
      BY <2>2
    <2>4. CASE t = <<>>
      BY <2>3, <2>4, KeptEmpty
    <2>5. CASE t # <<>>
      <3>1. PICK r \in Seq(T), x \in T : t = Append(r, x)
        BY <2>5, SequenceEmptyOrAppend
      <3>2. PICK m \in Nat : m = Len(r) /\ Len(t) = m + 1
        BY <3>1, AppendProperties, LenProperties
      <3>3. Same(r)
        <4>1. ~(n <= m)
          BY <2>3, <3>2
        <4>2. m \notin bad
          BY <2>2, <4>1
        <4>. QED  BY <3>2, <4>2
      <3>4. PICK s \in Seq(T) : s = KeptOf(r, C)
        BY KeptType
      <3>5. KeptOf(t, C) = IF x \in C THEN Append(s, x) ELSE s
        BY <3>1, <3>4, KeptAppend
      <3>6. /\ SumFunction(Mapped(t, w)) = SumFunction(Mapped(r, w)) + w[x]
            /\ SumFunction(Mapped(Append(s, x), w)) = SumFunction(Mapped(s, w)) + w[x]
            /\ SumFunction(Mapped(r, w)) \in Nat
        BY <3>1, MappedTotal
      <3>7. CASE x \in C
        <4>1. SumFunction(Mapped(KeptOf(t, C), w)) = SumFunction(Mapped(s, w)) + w[x]
          BY <3>5, <3>6, <3>7
        <4>. QED  BY <2>3, <3>3, <3>4, <3>6, <4>1
      <3>8. CASE x \notin C
        <4>1. w[x] = 0 /\ KeptOf(t, C) = s
          BY <3>5, <3>8
        <4>. QED  BY <2>3, <3>3, <3>4, <3>6, <4>1
      <3>. QED  BY <3>7, <3>8
    <2>. QED  BY <2>4, <2>5
  <1>2. Len(u) \in Nat /\ Len(u) \notin bad
    BY <1>1, LenProperties
  <1>3. Same(u)
    BY <1>2
  <1>. QED  BY <1>3

LEMMA KeptCount ==
    ASSUME NEW T, NEW C, NEW w \in [T -> Nat],
           \A x \in T : w[x] = IF x \in C THEN 0 ELSE 1,
           NEW u \in Seq(T)
    PROVE  SumFunction(Mapped(u, w)) = Len(u) - Len(KeptOf(u, C))
  <1> DEFINE Same(t) == SumFunction(Mapped(t, w)) = Len(t) - Len(KeptOf(t, C))
             bad == {n \in Nat : \E t \in Seq(T) : Len(t) = n /\ ~Same(t)}
  <1>1. bad = {}
    <2>1. SUFFICES ASSUME bad # {} PROVE FALSE
      OBVIOUS
    <2>2. PICK n \in bad : \A k \in bad : n <= k
      BY <2>1, LeastElement
    <2>3. PICK t \in Seq(T) : Len(t) = n /\ ~Same(t)
      BY <2>2
    <2>4. CASE t = <<>>
      <3>1. KeptOf(t, C) = <<>> /\ Len(t) = 0 /\ Mapped(t, w) = <<>>
        BY <2>4, KeptEmpty, MappedEmpty, EmptySeq
      <3>2. SumFunction(Mapped(t, w)) = 0 /\ Len(KeptOf(t, C)) = 0
        BY <2>4, <3>1, TotalEmpty
      <3>. QED  BY <2>3, <3>1, <3>2
    <2>5. CASE t # <<>>
      <3>1. PICK r \in Seq(T), x \in T : t = Append(r, x)
        BY <2>5, SequenceEmptyOrAppend
      <3>2. PICK m \in Nat : m = Len(r) /\ Len(t) = m + 1
        BY <3>1, AppendProperties, LenProperties
      <3>3. Same(r)
        <4>1. ~(n <= m)
          BY <2>3, <3>2
        <4>2. m \notin bad
          BY <2>2, <4>1
        <4>. QED  BY <3>2, <4>2
      <3>4. PICK s \in Seq(T), k \in Nat : s = KeptOf(r, C) /\ k = Len(s)
        BY KeptType, LenProperties
      <3>5. KeptOf(t, C) = IF x \in C THEN Append(s, x) ELSE s
        BY <3>1, <3>4, KeptAppend
      <3>6. Len(Append(s, x)) = k + 1
        BY <3>4, AppendProperties
      <3>7. PICK a \in Nat : /\ a = SumFunction(Mapped(r, w)) /\ a = m - k
                             /\ SumFunction(Mapped(t, w)) = a + w[x]
        BY <3>1, <3>2, <3>3, <3>4, MappedTotal, ZenonT(60)
      <3>8. CASE x \in C
        <4>1. Len(KeptOf(t, C)) = k + 1 /\ w[x] = 0
          BY <3>5, <3>6, <3>8
        <4>2. SumFunction(Mapped(t, w)) = m - k
          BY <3>7, <4>1
        <4>. QED  BY <2>3, <3>2, <4>1, <4>2
      <3>9. CASE x \notin C
        <4>1. Len(KeptOf(t, C)) = k /\ w[x] = 1
          BY <3>4, <3>5, <3>9
        <4>2. SumFunction(Mapped(t, w)) = (m - k) + 1
          BY <3>7, <4>1
        <4>. QED  BY <2>3, <3>2, <4>1, <4>2
      <3>. QED  BY <3>8, <3>9
    <2>. QED  BY <2>4, <2>5
  <1>2. Len(u) \in Nat /\ Len(u) \notin bad
    BY <1>1, LenProperties
  <1>3. Same(u)
    BY <1>2
  <1>. QED  BY <1>3

-----------------------------------------------------------------------------
Goods == [v \in VisitType |-> GoodBy(v)]
Lines == [v \in VisitType |-> IF ContentsRefused(v.folder) THEN SkippedLine(v)
                                                          ELSE IndexLine(v, GoodBy(v))]

(* What has been counted of the folder in hand and what is still to come   *)
(* of it is what is due of it.                                             *)
CountInv == epc = "message" => count + Len(KeptOf(msgs, Converting)) = Goods[Head(todo)]

(* The folders a run has left behind are in its index and in its count.    *)
Behind(done) ==
    /\ Covered = done \o (IF epc = "folder" THEN <<current>> ELSE todo)
    /\ written = SumFunction(Mapped(done, Goods))
    /\ format = "folders" => index = Mapped(done, Lines)

LedgerInv ==
    /\ (cli /\ Selecting) => written = 0 /\ index = <<>>
    /\ (Writing /\ format # "list") => \E done \in Seq(VisitType) : Behind(done)

(* Every record of the single mbox, and at least every .eml file, has been *)
(* counted.                                                                *)
Counted == written + (IF epc = "message" THEN count ELSE 0)
WrittenNames == {n \in FileNames : files[n].state = "written"}

FilesCounted ==
    /\ (format = "mbox" /\ ~Ended /\ ~Selecting) =>
          files[StoreBox].state = "written" /\ Len(files[StoreBox].body) = Counted
    /\ (format = "eml" /\ ~Ended) =>
          IsFiniteSet(WrittenNames) /\ Cardinality(WrittenNames) <= Counted
    /\ (format = "folders" /\ epc = "finished") => files[IndexFile] = Written(index)

LEMMA GoodsAre ==
    ASSUME ExportTypes
    PROVE  /\ Goods \in [VisitType -> Nat]
           /\ \A v \in VisitType :
                /\ v.folder \in Folders /\ v.path \in Seq(Piece)
                /\ Named(v.folder) \in Seq(Messages) /\ Good(v.folder) \in Seq(Messages)
                /\ Goods[v] = GoodBy(v)
                /\ Goods[v] = Len(KeptOf(Named(v.folder), Converting))
                /\ ContentsRefused(v.folder) => Goods[v] = 0
  <1>1. ASSUME NEW v \in VisitType
        PROVE  /\ v.folder \in Folders /\ v.path \in Seq(Piece)
               /\ Named(v.folder) \in Seq(Messages) /\ Good(v.folder) \in Seq(Messages)
               /\ GoodBy(v) = Len(KeptOf(Named(v.folder), Converting)) /\ GoodBy(v) \in Nat
               /\ ContentsRefused(v.folder) => GoodBy(v) = 0
    <2>1. v.folder \in Folders /\ v.path \in Seq(Piece)
      BY DEF VisitType
    <2>2. Named(v.folder) \in Seq(Messages)
      BY <2>1, FiledType
    <2>3. Good(v.folder) = KeptOf(Named(v.folder), Converting)
      BY DEF Good, Converting
    <2>4. Good(v.folder) \in Seq(Messages)
      BY <2>2, <2>3, KeptType
    <2>5. GoodBy(v) = Len(Good(v.folder)) /\ Len(Good(v.folder)) \in Nat
      BY <2>4, LenProperties DEF GoodBy
    <2>6. ASSUME ContentsRefused(v.folder) PROVE GoodBy(v) = 0
      <3>1. Good(v.folder) = <<>>
        BY <2>3, <2>6, KeptEmpty DEF Named
      <3>2. Len(Good(v.folder)) = 0
        BY <2>4, <3>1, EmptySeq
      <3>. QED  BY <2>5, <3>2
    <2>. QED  BY <2>1, <2>2, <2>3, <2>4, <2>5, <2>6
  <1>. QED  BY <1>1 DEF Goods

LEMMA LinesAre ==
    ASSUME ExportTypes
    PROVE  /\ Lines \in [VisitType -> Line]
           /\ \A v \in VisitType :
                 Lines[v] = IF ContentsRefused(v.folder) THEN SkippedLine(v)
                                                         ELSE IndexLine(v, Goods[v])
  <1>1. ASSUME NEW v \in VisitType
        PROVE  SkippedLine(v) \in Line /\ IndexLine(v, GoodBy(v)) \in Line /\ GoodBy(v) = Goods[v]
    <2>1. v.folder \in Folders /\ v.path \in Seq(Piece) /\ GoodBy(v) \in Nat /\ GoodBy(v) = Goods[v]
      BY GoodsAre
    <2>2. SkippedLine(v) \in [folder : Folders, path : Seq(Piece), skipped : {TRUE}]
      BY <2>1 DEF SkippedLine
    <2>3. IndexLine(v, GoodBy(v)) \in [folder : Folders, path : Seq(Piece), count : Nat]
      BY <2>1 DEF IndexLine
    <2>. QED  BY <2>1, <2>2, <2>3 DEF Line
  <1>. QED  BY <1>1 DEF Lines

LEMMA LedgerReads ==
    ASSUME UNCHANGED job
    PROVE  /\ Goods' = Goods /\ Lines' = Lines
           /\ KeptOf(msgs, Converting)' = KeptOf(msgs', Converting)
  <1>1. /\ Converting' = Converting /\ \A f : Good(f)' = Good(f)
        /\ \A f : ContentsRefused(f)' <=> ContentsRefused(f)
    BY JobReads
  <1>2. Goods' = Goods
    BY <1>1 DEF Goods, GoodBy
  <1>3. Lines' = Lines
    BY <1>1 DEF Lines, GoodBy, SkippedLine, IndexLine
  <1>4. KeptOf(msgs, Converting)' = KeptOf(msgs', Converting)
    BY <1>1 DEF KeptOf
  <1>. QED  BY <1>2, <1>3, <1>4

LEMMA CountStep ==
    ASSUME ExportTypes, CountInv, [ExportNext]_evars
    PROVE  CountInv'
  <1>1. UNCHANGED job /\ UNCHANGED <<cli, format, wanted, contents, message, before>>
    BY JobStays
  <1>2. Goods' = Goods /\ KeptOf(msgs, Converting)' = KeptOf(msgs', Converting)
    BY <1>1, LedgerReads
  <1>3. /\ todo \in Seq(VisitType) /\ msgs \in Seq(Messages) /\ count \in Nat
        /\ epc = "message" => todo # <<>>
    BY DEF ExportTypes, ProgressTypes
  <1>4. todo # <<>> => Head(todo) \in VisitType
    BY <1>3, PopProperties
  <1>5. SUFFICES ASSUME epc' = "message"
                 PROVE  count' + Len(KeptOf(msgs', Converting)) = Goods[Head(todo')]
    BY <1>2 DEF CountInv
  <1>6. CASE OpenFolder
    <2>1. /\ todo # <<>> /\ todo' = todo /\ count' = 0
          /\ msgs' = IF format = "folders" THEN FromFirstOpened(Named(Head(todo).folder))
                                           ELSE Named(Head(todo).folder)
      BY <1>6 DEF OpenFolder
    <2>2. /\ Named(Head(todo).folder) \in Seq(Messages)
          /\ Goods[Head(todo)] = Len(KeptOf(Named(Head(todo).folder), Converting))
          /\ Goods[Head(todo)] \in Nat
      BY <1>4, <2>1, GoodsAre
    <2>3. KeptOf(msgs', Converting) = KeptOf(Named(Head(todo).folder), Converting)
      BY <2>1, <2>2, FromFirstKeeps
    <2>. QED  BY <2>1, <2>2, <2>3
  <1>7. ASSUME msgs # <<>>
        PROVE  /\ Len(KeptOf(Tail(msgs), Converting)) \in Nat
               /\ Len(KeptOf(msgs, Converting)) =
                    Len(KeptOf(Tail(msgs), Converting)) + (IF Head(msgs) \in Converting THEN 1 ELSE 0)
    <2>1. PICK rest \in Seq(Messages) : rest = KeptOf(Tail(msgs), Converting)
      BY <1>3, <1>7, PopProperties, KeptType
    <2>2. Len(rest) \in Nat
      BY LenProperties
    <2>3. PICK x \in Messages : x = Head(msgs)
      BY <1>3, <1>7, PopProperties
    <2>4. KeptOf(msgs, Converting) = IF x \in Converting THEN <<x>> \o rest ELSE rest
      BY <1>3, <1>7, <2>1, <2>3, KeptHead
    <2>5. Len(<<x>> \o rest) = 1 + Len(rest)
      <3>1. PICK one \in Seq(Messages) : one = <<x>> /\ Len(one) = 1
        <4>1. <<x>> \in Seq(Messages) /\ Len(<<x>>) = 1
          OBVIOUS
        <4>. QED  BY <4>1
      <3>. QED  BY <3>1, ConcatProperties
    <2>. QED  BY <2>1, <2>2, <2>3, <2>4, <2>5
  <1>8. CASE WriteMessage
    <2>1. /\ epc = "message" /\ msgs # <<>> /\ Converts(Head(msgs)) /\ todo' = todo
          /\ msgs' = Tail(msgs) /\ count' = count + 1
      BY <1>8 DEF WriteMessage
    <2>2. Head(msgs) \in Converting
      BY <1>3, <2>1, PopProperties DEF Converting
    <2>3. count + Len(KeptOf(msgs, Converting)) = Goods[Head(todo)]
      BY <2>1 DEF CountInv
    <2>. QED  BY <1>3, <1>7, <2>1, <2>2, <2>3, SMTT(30)
  <1>9. CASE SkipMessage
    <2>1. /\ epc = "message" /\ msgs # <<>> /\ Refuses(Head(msgs)) /\ todo' = todo
          /\ msgs' = Tail(msgs) /\ count' = count
      BY <1>9 DEF SkipMessage
    <2>2. Head(msgs) \notin Converting
      BY <2>1 DEF Converting, Converts, Refuses
    <2>3. count + Len(KeptOf(msgs, Converting)) = Goods[Head(todo)]
      BY <2>1 DEF CountInv
    <2>. QED  BY <1>3, <1>7, <2>1, <2>2, <2>3
  <1>10. CASE Generate
    <2>1. epc' # "message"
      <3>1. /\ epc' = CASE gpc' = "expand" -> "folder" [] gpc' = "next" -> "walk"
                    [] gpc' = "done" -> "walked" [] gpc' = "refused" -> "refused"
            /\ gpc' \in {"next", "expand", "done", "refused"}
        BY <1>10 DEF Generate, WalkNext, YieldFolder, RefuseFolder, RefuseWalk, Expand,
                     SkipChildren, RaiseChildren, FinishWalk
      <3>. QED  BY <3>1
    <2>. QED  BY <1>5, <2>1
  <1>11. CASE \/ RefuseContents \/ Select \/ PassOver \/ RefuseSelection \/ List \/ OpenOutput
              \/ Take \/ SkipFolder \/ RaiseFirst \/ RaiseMessage \/ Escape \/ FinishFolder \/ Finish
    <2>1. epc' # "message"
      BY <1>11 DEF RefuseContents, Select, PassOver, RefuseSelection, List, OpenOutput,
                   Take, SkipFolder, RaiseFirst, RaiseMessage, Escape, FinishFolder, Finish,
                   Raise, AfterFolder
    <2>. QED  BY <1>5, <2>1
  <1>12. CASE UNCHANGED evars
    <2>1. UNCHANGED <<epc, msgs, count, todo>>
      BY <1>12 DEF evars, exportvars
    <2>. QED  BY <1>5, <2>1 DEF CountInv
  <1>. QED  BY <1>6, <1>8, <1>9, <1>10, <1>11, <1>12 DEF ExportNext

LEMMA LedgerStep ==
    ASSUME WalkTypeOK, ExportTypes, SelectionInv, Schedule, CountInv, LedgerInv, [ExportNext]_evars
    PROVE  LedgerInv'
  <1>1. UNCHANGED job /\ UNCHANGED <<cli, format, wanted, contents, message, before>>
    BY JobStays
  <1>2. Goods' = Goods /\ Lines' = Lines
    BY <1>1, LedgerReads
  <1>3. /\ todo \in Seq(VisitType) /\ Covered \in Seq(VisitType) /\ index \in Seq(Line)
        /\ written \in Nat /\ count \in Nat
        /\ epc = "message" => todo # <<>>
        /\ Goods \in [VisitType -> Nat] /\ Lines \in [VisitType -> Line]
    BY CoveredType, GoodsAre, LinesAre DEF ExportTypes, ProgressTypes
  <1> DEFINE Made(done, vs) == /\ Covered = done \o vs
                               /\ written = SumFunction(Mapped(done, Goods))
                               /\ format = "folders" => index = Mapped(done, Lines)
             MadeNow(done, vs) == /\ Covered' = done \o vs
                                  /\ written' = SumFunction(Mapped(done, Goods))
                                  /\ format = "folders" => index' = Mapped(done, Lines)
  <1>4. ASSUME Writing, format # "list"
        PROVE  \E done \in Seq(VisitType) : Made(done, IF epc = "folder" THEN <<current>> ELSE todo)
    BY <1>4 DEF LedgerInv, Behind
  <1>5. SUFFICES /\ (cli /\ Selecting') => written' = 0 /\ index' = <<>>
                 /\ (Writing' /\ format # "list") =>
                       \E done \in Seq(VisitType) :
                          MadeNow(done, IF epc' = "folder" THEN <<current'>> ELSE todo')
    BY <1>1, <1>2 DEF LedgerInv, Behind
  <1>6. ASSUME ~Generate
        PROVE  Covered' = Covered /\ UNCHANGED current
    BY <1>6, WalkWaits
  <1>7. CASE Generate
    <2>1. /\ epc = "walk" /\ UNCHANGED <<todo, written, index>>
          /\ \/ /\ epc' = "folder" /\ current' \in VisitType
                /\ yielded' = Append(yielded, current')
             \/ epc' \in {"walk", "walked", "refused"} /\ UNCHANGED yielded
      BY <1>7, GenerateKinds
    <2>2. cli => written' = 0 /\ index' = <<>>
      BY <2>1 DEF LedgerInv, Selecting
    <2>3. ASSUME ~cli, format # "list", epc' # "refused"
          PROVE  \E done \in Seq(VisitType) :
                    MadeNow(done, IF epc' = "folder" THEN <<current'>> ELSE todo')
      <3>1. Writing /\ todo = <<>>
        BY <2>1, <2>3 DEF Writing, Ended, Schedule, Selecting
      <3>2. PICK done \in Seq(VisitType) : Made(done, todo)
        BY <1>4, <2>1, <2>3, <3>1
      <3>3. done = Covered
        BY <3>1, <3>2, ConcatEmptySeq
      <3>4. CASE epc' = "folder" /\ current' \in VisitType /\ yielded' = Append(yielded, current')
        <4>1. Covered' = Append(Covered, current')
          BY <1>1, <2>3, <3>4, CoveredGrows
        <4>2. Covered' = done \o <<current'>>
          BY <1>3, <3>3, <3>4, <4>1, AppendIsConcat
        <4>. QED  BY <2>1, <3>2, <3>4, <4>2
      <3>5. CASE epc' \in {"walk", "walked", "refused"} /\ UNCHANGED yielded
        <4>1. Covered' = Covered
          BY <1>1, <3>5, CoveredStays
        <4>. QED  BY <2>1, <3>2, <3>5, <4>1
      <3>. QED  BY <2>1, <3>4, <3>5
    <2>4. epc' \in {"folder", "walk", "walked", "refused"}
      BY <2>1
    <2>5. Writing' => ~cli /\ epc' # "refused"
      BY <1>1, <2>4 DEF Writing, Ended, Selecting
    <2> HIDE DEF MadeNow
    <2>. QED  BY <2>2, <2>3, <2>5
  <1>8. CASE RefuseContents \/ RefuseSelection \/ RaiseFirst \/ RaiseMessage \/ Escape
    <2>1. epc' \in {"refused", "escaped"}
      BY <1>8 DEF RefuseContents, RefuseSelection, RaiseFirst, RaiseMessage, Escape, Raise
    <2>. QED  BY <2>1 DEF Writing, Ended, Selecting
  <1>9. CASE Select \/ PassOver
    <2>1. epc = "folder" /\ epc' = "walk" /\ cli /\ UNCHANGED <<written, index>>
      BY <1>9 DEF Select, PassOver
    <2>. QED  BY <1>1, <2>1 DEF LedgerInv, Writing, Selecting
  <1>10. CASE List
    <2>1. format = "list" /\ epc' = "finished"
      BY <1>10 DEF List
    <2>. QED  BY <2>1 DEF Selecting
  <1>11. CASE OpenOutput
    <2>1. /\ epc = "walked" /\ epc' = "write" /\ todo' = selected /\ cli /\ ~Generate
          /\ UNCHANGED <<written, index>>
      BY <1>11 DEF OpenOutput, Generate
    <2>2. todo' = Covered /\ written = 0 /\ index = <<>>
      BY <2>1 DEF LedgerInv, Selecting, Schedule, Ended
    <2>3. PICK none \in Seq(VisitType) : none = <<>>
      BY EmptySeq
    <2>4. none \o Covered = Covered
      BY <1>3, <2>3, ConcatEmptySeq
    <2>5. Mapped(none, Goods) = <<>> /\ Mapped(none, Lines) = <<>> /\ SumFunction(<<>>) = 0
      BY <2>3, MappedEmpty, TotalEmpty
    <2>6. MadeNow(none, todo')
      BY <1>6, <2>1, <2>2, <2>4, <2>5
    <2>. QED  BY <2>1, <2>6 DEF Selecting
  <1>12. CASE Take
    <2>1. /\ epc = "folder" /\ epc' = "write" /\ todo' = <<current>> /\ ~cli /\ ~Generate
          /\ UNCHANGED <<written, index>>
      BY <1>12 DEF Take, Generate
    <2>2. Writing
      BY <2>1 DEF Writing, Ended
    <2>. QED  BY <1>4, <1>6, <2>1, <2>2
  <1>13. ASSUME NEW done \in Seq(VisitType), Made(done, todo), todo # <<>>, ~Generate,
                todo' = Tail(todo), written' = written + Goods[Head(todo)],
                index' = Indexed(Lines[Head(todo)])
         PROVE  \E more \in Seq(VisitType) : MadeNow(more, todo')
    <2>1. PICK v \in VisitType, rest \in Seq(VisitType) :
             v = Head(todo) /\ rest = Tail(todo) /\ todo = <<v>> \o rest
      BY <1>3, <1>13, HeadThenTail
    <2>2. PICK more \in Seq(VisitType) : more = Append(done, v)
      BY AppendProperties
    <2>3. Covered' = more \o rest
      BY <1>6, <1>13, <2>1, <2>2, AppendThenRest
    <2>4. written' = SumFunction(Mapped(more, Goods))
      BY <1>3, <1>13, <2>1, <2>2, MappedTotal
    <2>5. format = "folders" => index' = Mapped(more, Lines)
      BY <1>3, <1>13, <2>1, <2>2, MappedAppend, ZenonT(60) DEF Indexed
    <2>. QED  BY <1>13, <2>1, <2>3, <2>4, <2>5
  <1>14. todo # <<>> => Head(todo) \in VisitType
    BY <1>3, PopProperties
  <1>15. CASE SkipFolder
    <2>1. /\ epc = "write" /\ todo # <<>> /\ ContentsRefused(Head(todo).folder)
          /\ todo' = Tail(todo) /\ epc' = AfterFolder /\ ~Generate
          /\ index' = Indexed(SkippedLine(Head(todo))) /\ written' = written
      BY <1>15 DEF SkipFolder, Generate
    <2>2. Goods[Head(todo)] = 0 /\ Lines[Head(todo)] = SkippedLine(Head(todo))
      BY <1>14, <2>1, GoodsAre, LinesAre
    <2>3. Writing
      BY <2>1 DEF Writing, Ended, Selecting
    <2>4. format # "list"
      BY <2>1 DEF ExportTypes, ProgressTypes
    <2>5. PICK done \in Seq(VisitType) : Made(done, todo)
      BY <1>4, <2>1, <2>3, <2>4
    <2>6. \E more \in Seq(VisitType) : MadeNow(more, todo')
      <3>1. written' = written + Goods[Head(todo)] /\ index' = Indexed(Lines[Head(todo)])
        BY <1>3, <2>1, <2>2
      <3> HIDE DEF Made, MadeNow
      <3>. QED  BY <1>13, <2>1, <2>5, <3>1
    <2>7. epc' # "folder" /\ ~(cli /\ Selecting')
      BY <2>1 DEF AfterFolder, Selecting
    <2>. QED  BY <2>6, <2>7
  <1>16. CASE FinishFolder
    <2>1. /\ epc = "message" /\ todo # <<>> /\ msgs = <<>>
          /\ todo' = Tail(todo) /\ epc' = AfterFolder /\ ~Generate
          /\ index' = Indexed(IndexLine(Head(todo), count)) /\ written' = written + count
      BY <1>3, <1>16 DEF FinishFolder, Generate
    <2>2. count = Goods[Head(todo)]
      <3>1. KeptOf(msgs, Converting) = <<>> /\ Len(<<>>) = 0
        BY <2>1, KeptEmpty, EmptySeq
      <3>2. count + Len(KeptOf(msgs, Converting)) = Goods[Head(todo)]
        BY <2>1 DEF CountInv
      <3>. QED  BY <1>3, <3>1, <3>2
    <2>3. Lines[Head(todo)] = IndexLine(Head(todo), count)
      BY <1>14, <2>1, <2>2, LinesAre DEF Schedule
    <2>4. Writing
      BY <2>1 DEF Writing, Ended, Selecting
    <2>5. format # "list"
      BY <2>1 DEF ExportTypes, ProgressTypes
    <2>6. PICK done \in Seq(VisitType) : Made(done, todo)
      BY <1>4, <2>1, <2>4, <2>5
    <2>7. \E more \in Seq(VisitType) : MadeNow(more, todo')
      <3>1. written' = written + Goods[Head(todo)] /\ index' = Indexed(Lines[Head(todo)])
        BY <2>1, <2>2, <2>3
      <3> HIDE DEF Made, MadeNow
      <3>. QED  BY <1>13, <2>1, <2>6, <3>1
    <2>8. epc' # "folder" /\ ~(cli /\ Selecting')
      BY <2>1 DEF AfterFolder, Selecting
    <2>. QED  BY <2>7, <2>8
  <1>17. CASE OpenFolder \/ WriteMessage \/ SkipMessage
    <2>1. /\ epc \in {"write", "message"} /\ epc' = "message" /\ ~Generate
          /\ UNCHANGED <<todo, written, index>>
      BY <1>17 DEF OpenFolder, WriteMessage, SkipMessage, Generate
    <2>2. Writing /\ ~Selecting'
      BY <2>1 DEF Writing, Ended, Selecting
    <2>. QED  BY <1>4, <1>6, <2>1, <2>2
  <1>18. CASE Finish
    <2>1. /\ epc \in {"write", "walked"} /\ epc' = "finished" /\ ~Generate
          /\ epc = "walked" => ~cli
          /\ UNCHANGED <<todo, written, index>>
      BY <1>18 DEF Finish, Generate
    <2>2. Writing /\ ~Selecting'
      BY <2>1 DEF Writing, Ended, Selecting
    <2>. QED  BY <1>4, <1>6, <2>1, <2>2
  <1>19. CASE UNCHANGED evars
    <2>1. UNCHANGED <<epc, todo, current, yielded, written, index>>
      BY <1>19 DEF evars, exportvars, walkvars
    <2>2. Covered' = Covered
      BY <1>1, <2>1, CoveredStays
    <2>3. (Writing' <=> Writing) /\ (Selecting' <=> Selecting)
      BY <1>1, <2>1 DEF Writing, Ended, Selecting
    <2>4. (cli /\ Selecting') => written' = 0 /\ index' = <<>>
      BY <2>1, <2>3 DEF LedgerInv
    <2>. QED  BY <1>4, <2>1, <2>2, <2>3, <2>4
  <1>. QED  BY <1>7, <1>8, <1>9, <1>10, <1>11, <1>12, <1>15, <1>16, <1>17, <1>18, <1>19
            DEF ExportNext

LEMMA FilesCountedStep ==
    ASSUME ExportTypes, LedgerInv, FilesCounted, [ExportNext]_evars
    PROVE  FilesCounted'
  <1>1. UNCHANGED job /\ UNCHANGED <<cli, format, wanted, contents, message, before>>
    BY JobStays
  <1>2. /\ written \in Nat /\ count \in Nat /\ msgs \in Seq(Messages)
        /\ epc = "message" => todo # <<>>
        /\ format = "mbox" => cli
    BY DEF ExportTypes, ProgressTypes, JobTypes
  <1>3. files \in [FileNames -> File] /\ StoreBox \in FileNames /\ IndexFile \in FileNames
    BY FileNamesDiffer DEF ExportTypes, FileTypes
  <1>4. ASSUME files' = files
        PROVE  WrittenNames' = WrittenNames
    BY <1>4 DEF WrittenNames
  <1>5. ASSUME files' = files, Counted' = Counted, ~Ended,
               format = "mbox" /\ Selecting => Selecting',
               epc' = "finished" => format # "folders"
        PROVE  FilesCounted'
    BY <1>1, <1>4, <1>5 DEF FilesCounted
  <1>6. CASE Generate
    <2>1. /\ epc = "walk" /\ UNCHANGED <<files, written>>
          /\ epc' \in {"walk", "folder", "walked", "refused"}
      <3>1. /\ epc' = CASE gpc' = "expand" -> "folder" [] gpc' = "next" -> "walk"
                    [] gpc' = "done" -> "walked" [] gpc' = "refused" -> "refused"
            /\ gpc' \in {"next", "expand", "done", "refused"}
        BY <1>6 DEF Generate, WalkNext, YieldFolder, RefuseFolder, RefuseWalk, Expand,
                    SkipChildren, RaiseChildren, FinishWalk
      <3>. QED  BY <1>6, <3>1 DEF Generate
    <2>2. Counted' = Counted /\ ~Ended
      BY <2>1 DEF Counted, Ended
    <2>. QED  BY <1>1, <1>4, <2>1, <2>2 DEF FilesCounted, Ended, Selecting
  <1>7. CASE RefuseContents \/ RefuseSelection \/ RaiseFirst \/ RaiseMessage \/ Escape
    <2>1. epc' \in {"refused", "escaped"}
      BY <1>7 DEF RefuseContents, RefuseSelection, RaiseFirst, RaiseMessage, Escape, Raise
    <2>. QED  BY <2>1 DEF FilesCounted, Ended
  <1>8. CASE Select \/ PassOver
    <2>1. epc = "folder" /\ epc' = "walk" /\ UNCHANGED <<files, written>>
      BY <1>8 DEF Select, PassOver
    <2>2. Counted' = Counted /\ ~Ended
      BY <2>1 DEF Counted, Ended
    <2>. QED  BY <1>5, <2>1, <2>2 DEF Selecting
  <1>9. CASE List
    <2>1. format = "list"
      BY <1>9 DEF List
    <2>. QED  BY <1>1, <2>1 DEF FilesCounted
  <1>10. CASE OpenOutput
    <2>1. /\ epc = "walked" /\ epc' = "write" /\ cli /\ written' = written
          /\ files' = IF format = "mbox" THEN [files EXCEPT ![StoreBox] = Written(<<>>)] ELSE files
      BY <1>10 DEF OpenOutput
    <2>2. written = 0 /\ Counted = 0 /\ Counted' = 0 /\ ~Ended
      BY <2>1 DEF LedgerInv, Selecting, Counted, Ended
    <2>3. CASE format = "mbox"
      <3>1. files'[StoreBox] = Written(<<>>)
        BY <1>3, <2>1, <2>3
      <3>2. files'[StoreBox].state = "written" /\ files'[StoreBox].body = <<>>
        BY <3>1 DEF Written
      <3>3. Len(files'[StoreBox].body) = 0
        BY <3>2
      <3>. QED  BY <1>1, <2>2, <2>3, <3>2, <3>3 DEF FilesCounted
    <2>4. CASE format # "mbox"
      BY <1>5, <2>1, <2>2, <2>4
    <2>. QED  BY <2>3, <2>4
  <1>11. CASE Take
    <2>1. epc = "folder" /\ epc' = "write" /\ UNCHANGED <<files, written>> /\ ~cli
      BY <1>11 DEF Take
    <2>2. Counted' = Counted /\ ~Ended
      BY <2>1 DEF Counted, Ended
    <2>. QED  BY <1>2, <1>5, <2>1, <2>2
  <1>12. CASE SkipFolder
    <2>1. /\ epc = "write" /\ epc' \in {"write", "walk"} /\ UNCHANGED <<files, written>>
      BY <1>12 DEF SkipFolder, AfterFolder
    <2>2. Counted' = Counted /\ ~Ended
      BY <2>1 DEF Counted, Ended
    <2>. QED  BY <1>5, <2>1, <2>2 DEF Selecting
  <1>13. CASE OpenFolder
    <2>1. /\ epc = "write" /\ epc' = "message" /\ written' = written /\ count' = 0
          /\ format # "folders" => files' = files
      BY <1>13 DEF OpenFolder
    <2>2. Counted' = Counted /\ ~Ended
      BY <1>2, <2>1 DEF Counted, Ended
    <2>3. CASE format = "folders"
      BY <1>1, <2>1, <2>3 DEF FilesCounted
    <2>4. CASE format # "folders"
      BY <1>5, <2>1, <2>2, <2>4 DEF Selecting
    <2>. QED  BY <2>3, <2>4
  <1>14. CASE WriteMessage
    <2>1. /\ epc = "message" /\ epc' = "message" /\ msgs # <<>> /\ written' = written
          /\ count' = count + 1
          /\ format = "mbox" =>
                files' = [files EXCEPT ![StoreBox] =
                             Written(Append(@.body, Record(Head(msgs))))]
          /\ format = "eml" =>
                files' = [files EXCEPT ![EmlOf(Head(msgs))] = Written(<<Record(Head(msgs))>>)]
      BY <1>14 DEF WriteMessage, EmlOf
    <2>2. Counted' = Counted + 1 /\ Counted \in Nat /\ ~Ended /\ ~Selecting
      BY <1>2, <2>1 DEF Counted, Ended, Selecting
    <2>3. CASE format = "mbox"
      <3>1. /\ files[StoreBox].state = "written" /\ Len(files[StoreBox].body) = Counted
            /\ files[StoreBox].body \in Seq(FileRecord)
        BY <2>2, <2>3, FileNamesDiffer DEF FilesCounted, ExportTypes, FileTypes
      <3>2. PICK body \in Seq(FileRecord), r \in FileRecord :
               body = files[StoreBox].body /\ r = Record(Head(msgs))
        <4>1. Head(msgs) \in Messages /\ todo # <<>>
          BY <1>2, <2>1, PopProperties
        <4>2. Head(todo) \in VisitType
          BY <4>1, PopProperties DEF ExportTypes, ProgressTypes
        <4>3. Head(todo).path \in Seq(Piece)
          BY <4>2 DEF VisitType
        <4>4. Record(Head(msgs)) \in FileRecord
          BY <4>1, <4>3 DEF Record, FileRecord
        <4>. QED  BY <3>1, <4>4
      <3>3. files'[StoreBox] = Written(Append(body, r))
        BY <1>3, <2>1, <2>3, <3>2
      <3>4. files'[StoreBox].state = "written" /\ files'[StoreBox].body = Append(body, r)
        BY <3>3 DEF Written
      <3>5. Len(Append(body, r)) = Len(body) + 1
        BY AppendProperties
      <3>. QED  BY <1>1, <2>2, <2>3, <3>1, <3>2, <3>4, <3>5 DEF FilesCounted
    <2>4. CASE format = "eml"
      <3>1. PICK n \in FileNames : n = EmlOf(Head(msgs))
        <4>1. Head(msgs) \in Messages
          BY <1>2, <2>1, PopProperties
        <4>. QED  BY <4>1, FileNamesDiffer DEF EmlOf
      <3>2. /\ files'[n] = Written(<<Record(Head(msgs))>>)
            /\ \A k \in FileNames : k # n => files'[k] = files[k]
        BY <1>3, <2>1, <2>4, <3>1
      <3>3. files'[n].state = "written"
        BY <3>2 DEF Written
      <3>4. WrittenNames' = WrittenNames \cup {n}
        BY <3>2, <3>3 DEF WrittenNames
      <3>5. IsFiniteSet(WrittenNames) /\ Cardinality(WrittenNames) <= Counted
        BY <2>2, <2>4 DEF FilesCounted
      <3>6. /\ IsFiniteSet(WrittenNames \cup {n}) /\ Cardinality(WrittenNames) \in Nat
            /\ \/ Cardinality(WrittenNames \cup {n}) = Cardinality(WrittenNames)
               \/ Cardinality(WrittenNames \cup {n}) = Cardinality(WrittenNames) + 1
        BY <3>5, FS_AddElement, FS_CardinalityType
      <3>7. Cardinality(WrittenNames \cup {n}) <= Counted'
        BY <2>2, <3>5, <3>6
      <3>. QED  BY <1>1, <2>4, <3>4, <3>6, <3>7 DEF FilesCounted
    <2>5. CASE format \notin {"mbox", "eml"}
      BY <1>1, <2>1, <2>5 DEF FilesCounted
    <2>. QED  BY <2>3, <2>4, <2>5
  <1>15. CASE SkipMessage
    <2>1. epc = "message" /\ epc' = "message" /\ UNCHANGED <<files, written, count>>
      BY <1>15 DEF SkipMessage
    <2>2. Counted' = Counted /\ ~Ended
      BY <2>1 DEF Counted, Ended
    <2>. QED  BY <1>5, <2>1, <2>2 DEF Selecting
  <1>16. CASE FinishFolder
    <2>1. /\ epc = "message" /\ epc' \in {"write", "walk"} /\ written' = written + count
          /\ format # "folders" => files' = files
      BY <1>16 DEF FinishFolder, AfterFolder
    <2>2. Counted' = Counted /\ ~Ended
      BY <1>2, <2>1 DEF Counted, Ended
    <2>3. CASE format = "folders"
      BY <1>1, <2>1, <2>3 DEF FilesCounted
    <2>4. CASE format # "folders"
      BY <1>5, <2>1, <2>2, <2>4 DEF Selecting
    <2>. QED  BY <2>3, <2>4
  <1>17. CASE Finish
    <2>1. /\ epc' = "finished" /\ UNCHANGED <<written, index>>
          /\ epc = "write" \/ (epc = "walked" /\ ~cli)
          /\ files' = IF format = "folders" THEN [files EXCEPT ![IndexFile] = Written(index)]
                                            ELSE files
      BY <1>17 DEF Finish
    <2>2. Counted' = Counted /\ ~Ended
      BY <2>1 DEF Counted, Ended
    <2>3. CASE format = "folders"
      <3>1. files'[IndexFile] = Written(index')
        BY <1>3, <2>1, <2>3
      <3>. QED  BY <1>1, <2>3, <3>1 DEF FilesCounted
    <2>4. CASE format # "folders"
      BY <1>2, <1>5, <2>1, <2>2, <2>4 DEF Selecting
    <2>. QED  BY <2>3, <2>4
  <1>18. CASE UNCHANGED evars
    <2>1. UNCHANGED <<epc, files, written, count, index>>
      BY <1>18 DEF evars, exportvars
    <2>2. Counted' = Counted /\ (Ended' <=> Ended) /\ (Selecting' <=> Selecting)
      BY <2>1 DEF Counted, Ended, Selecting
    <2>. QED  BY <1>1, <1>4, <2>1, <2>2 DEF FilesCounted
  <1>. QED  BY <1>6, <1>7, <1>8, <1>9, <1>10, <1>11, <1>12, <1>13, <1>14, <1>15, <1>16, <1>17,
               <1>18 DEF ExportNext

LEMMA LedgerStarts == ASSUME ExportInit PROVE CountInv /\ LedgerInv /\ FilesCounted
  <1>1. /\ epc = "walk" /\ yielded = <<>> /\ todo = <<>> /\ written = 0 /\ index = <<>>
        /\ \E c \in Calls : files = Fresh(c.before)
    BY DEF ExportInit, WalkStarts
  <1>2. Covered = <<>>
    BY <1>1, KeptEmpty DEF Covered
  <1>3. PICK none \in Seq(VisitType) : none = <<>>
    BY EmptySeq
  <1>4. Behind(none)
    <2>1. none \o none = none
      BY <1>3, ConcatEmptySeq
    <2>2. Mapped(none, Goods) = <<>> /\ Mapped(none, Lines) = <<>> /\ SumFunction(<<>>) = 0
      BY <1>3, MappedEmpty, TotalEmpty
    <2>. QED  BY <1>1, <1>2, <1>3, <2>1, <2>2 DEF Behind
  <1>5. WrittenNames = {}
    <2>1. \A n \in FileNames : files[n].state # "written"
      BY <1>1, ExportCallsAssumption DEF Fresh
    <2>. QED  BY <2>1 DEF WrittenNames
  <1>6. IsFiniteSet(WrittenNames) /\ Cardinality(WrittenNames) = 0 /\ Counted = 0
    BY <1>1, <1>5, FS_EmptySet DEF Counted
  <1>7. LedgerInv
    BY <1>1, <1>3, <1>4 DEF LedgerInv
  <1>8. FilesCounted
    BY <1>1, <1>6 DEF FilesCounted, Selecting
  <1>. QED  BY <1>1, <1>7, <1>8 DEF CountInv

(* Where a run ends well, what it left behind is all that it covers.       *)
LEMMA LedgerAtEnd ==
    ASSUME WalkTypeOK, ExportTypes, Schedule, LedgerInv, epc = "finished", format # "list"
    PROVE  /\ written = SumFunction(Mapped(Covered, Goods))
           /\ format = "folders" => index = Mapped(Covered, Lines)
  <1>1. todo = <<>> /\ Writing /\ Covered \in Seq(VisitType)
    BY CoveredType DEF Schedule, Writing, Ended, Selecting
  <1>2. PICK done \in Seq(VisitType) : Behind(done)
    BY <1>1 DEF LedgerInv
  <1>3. done = Covered
    BY <1>1, <1>2, ConcatEmptySeq DEF Behind
  <1>. QED  BY <1>2, <1>3 DEF Behind

(* The mbox of a folder that can be read holds what is due of it.          *)
LEMMA BoxAtEnd ==
    ASSUME WalkTypeOK, ExportTypes, OutputInv, epc = "finished", format = "folders",
           NEW v \in ToSet(ReadableFolders)
    PROVE  Len(files[[mbox |-> v.folder]].body) = Goods[v]
  <1>1. v \in VisitType /\ Good(v.folder) \in Seq(Messages) /\ Goods[v] = Len(Good(v.folder))
    <2>1. v \in VisitType
      BY CoveredType, ToSetType
    <2>. QED  BY <2>1, GoodsAre DEF GoodBy
  <1>2. Writing /\ Left = {}
    BY DEF OutputInv, Schedule, Writing, Ended, Selecting, Left, ToSet
  <1>3. files[Box(v.folder)] = Written(Plain(Good(v.folder)))
    BY <1>2 DEF OutputInv, FolderBoxesInv
  <1>4. Len(Plain(Good(v.folder))) = Len(Good(v.folder))
    <2>1. /\ Len(Good(v.folder)) \in Nat /\ DOMAIN Good(v.folder) = 1..Len(Good(v.folder))
          /\ Plain(Good(v.folder)) \in Seq(FileRecord)
      BY <1>1, LenProperties, PlainType
    <2>2. DOMAIN Plain(Good(v.folder)) = DOMAIN Good(v.folder)
      BY DEF Plain
    <2>3. /\ DOMAIN Plain(Good(v.folder)) = 1..Len(Plain(Good(v.folder)))
          /\ Len(Plain(Good(v.folder))) \in Nat
      BY <2>1, LenProperties
    <2>. QED  BY <2>1, <2>2, <2>3
  <1>. QED  BY <1>1, <1>3, <1>4 DEF Box, Written

LEMMA IndexFollows ==
    ASSUME WalkTypeOK, ExportTypes, OutputInv, LedgerInv, FilesCounted
    PROVE  IndexMatchesFiles
  <1> SUFFICES ASSUME epc = "finished", format = "folders"
               PROVE  files[IndexFile] = Written(
                        [i \in DOMAIN Covered |->
                          IF ContentsRefused(Covered[i].folder) THEN SkippedLine(Covered[i])
                          ELSE IndexLine(Covered[i], Len(files[[mbox |-> Covered[i].folder]].body))])
    BY DEF IndexMatchesFiles
  <1>1. files[IndexFile] = Written(Mapped(Covered, Lines))
    BY LedgerAtEnd DEF FilesCounted, OutputInv
  <1>2. /\ Covered \in Seq(VisitType) /\ DOMAIN Covered = 1..Len(Covered)
        /\ ToSet(ReadableFolders) = {v \in ToSet(Covered) : ~ContentsRefused(v.folder)}
    BY CoveredType, LenProperties
  <1>3. ASSUME NEW i \in DOMAIN Covered
        PROVE  Lines[Covered[i]] =
                 IF ContentsRefused(Covered[i].folder) THEN SkippedLine(Covered[i])
                 ELSE IndexLine(Covered[i], Len(files[[mbox |-> Covered[i].folder]].body))
    <2>1. PICK v \in VisitType : v = Covered[i]
      BY <1>2, ElementOfSeq
    <2>2. v \in ToSet(Covered)
      BY <2>1 DEF ToSet
    <2>3. ~ContentsRefused(v.folder) => Len(files[[mbox |-> v.folder]].body) = Goods[v]
      BY <1>2, <2>2, BoxAtEnd
    <2>. QED  BY <2>1, <2>3, LinesAre
  <1>. QED  BY <1>1, <1>3 DEF Mapped

LEMMA AccountFollows ==
    ASSUME WalkTypeOK, ExportTypes, OutputInv, LedgerInv, FilesCounted
    PROVE  Accounted
  <1> SUFFICES ASSUME epc = "finished", cli, format # "list"
               PROVE  /\ Tally.folders = Len(Covered)
                      /\ Tally.written = SumOver(Covered, GoodBy)
                      /\ Tally.written + Tally.skipped = SumOver(Covered, NamedBy)
                      /\ Tally.unreadable = Len(Covered) - Len(ReadableFolders)
                      /\ format = "mbox" => Tally.written = Len(files[StoreBox].body)
                      /\ format = "folders" =>
                           Tally.written = SumOver(ReadableFolders,
                                                   LAMBDA v : Len(files[[mbox |-> v.folder]].body))
                      /\ format = "eml" =>
                           Tally.written >= Cardinality({n \in FileNames : files[n].state = "written"})
    BY DEF Accounted
  <1>1. selected = Covered /\ Schedule /\ written \in Nat
    BY DEF OutputInv, Schedule, Ended, ExportTypes, ProgressTypes
  <1>2. /\ Covered \in Seq(VisitType) /\ ReadableFolders \in Seq(VisitType)
        /\ DOMAIN Covered = 1..Len(Covered) /\ DOMAIN ReadableFolders = 1..Len(ReadableFolders)
    BY CoveredType, LenProperties
  <1>3. written = SumFunction(Mapped(Covered, Goods))
    BY <1>1, LedgerAtEnd
  <1>4. Tally.folders = Len(Covered) /\ Tally.written = written
    BY <1>1 DEF Tally
  <1>5. written = SumOver(Covered, GoodBy)
    <2>1. \A i \in DOMAIN Covered : Goods[Covered[i]] = GoodBy(Covered[i])
      BY <1>2, ElementOfSeq, GoodsAre
    <2>2. Mapped(Covered, Goods) = [i \in DOMAIN Covered |-> GoodBy(Covered[i])]
      BY <2>1 DEF Mapped
    <2>. QED  BY <1>3, <2>2 DEF SumOver
  <1>6. written + Tally.skipped = SumOver(Covered, NamedBy)
    <2> DEFINE names == [v \in VisitType |-> NamedBy(v)]
    <2>1. names \in [VisitType -> Nat]
      <3>1. \A v \in VisitType : NamedBy(v) \in Nat
        BY GoodsAre, LenProperties DEF NamedBy
      <3>. QED  BY <3>1
    <2>2. Mapped(Covered, names) = [i \in DOMAIN Covered |-> NamedBy(Covered[i])]
      BY <1>2, ElementOfSeq DEF Mapped
    <2>3. SumFunction(Mapped(Covered, names)) \in Nat
      <3>1. Mapped(Covered, names) \in Seq(Nat) /\ 0 \in Nat
        BY <1>2, <2>1, MappedType
      <3> HIDE DEF names
      <3>. QED  BY <3>1, TotalAppend
    <2>4. SumOver(Covered, NamedBy) \in Nat
      BY <2>2, <2>3 DEF SumOver
    <2>5. Tally.skipped = SumOver(Covered, NamedBy) - written
      BY <1>1 DEF Tally
    <2>. QED  BY <1>1, <2>4, <2>5
  <1>7. Tally.unreadable = Len(Covered) - Len(ReadableFolders)
    <2> DEFINE ones == [v \in VisitType |-> RefusedBy(v)]
    <2>1. ones \in [VisitType -> Nat]
      BY DEF RefusedBy
    <2>2. \A v \in VisitType : ones[v] = IF v \in ReadableVisits THEN 0 ELSE 1
      BY DEF RefusedBy, ReadableVisits
    <2>3. Mapped(Covered, ones) = [i \in DOMAIN Covered |-> RefusedBy(Covered[i])]
      BY <1>2, ElementOfSeq DEF Mapped
    <2> HIDE DEF ones
    <2>4. SumFunction(Mapped(Covered, ones)) = Len(Covered) - Len(KeptOf(Covered, ReadableVisits))
      BY <1>2, <2>1, <2>2, KeptCount
    <2>5. Tally.unreadable = SumOver(Covered, RefusedBy)
      BY <1>1 DEF Tally
    <2>. QED  BY <2>3, <2>4, <2>5 DEF SumOver, ReadableFolders, ReadableVisits
  <1>8. format = "mbox" => written = Len(files[StoreBox].body)
    BY <1>1 DEF FilesCounted, Counted, Ended, Selecting
  <1>9. ASSUME format = "folders"
        PROVE  written = SumOver(ReadableFolders, LAMBDA v : Len(files[[mbox |-> v.folder]].body))
    <2>1. /\ ReadableFolders = KeptOf(Covered, ReadableVisits)
          /\ \A v \in VisitType : v \notin ReadableVisits => Goods[v] = 0
          /\ Goods \in [VisitType -> Nat]
      BY GoodsAre DEF ReadableFolders, ReadableVisits
    <2>2. written = SumFunction(Mapped(ReadableFolders, Goods))
      BY <1>2, <1>3, <2>1, KeptTotal
    <2>3. ASSUME NEW i \in DOMAIN ReadableFolders
          PROVE  Goods[ReadableFolders[i]] = Len(files[[mbox |-> ReadableFolders[i].folder]].body)
      <3>1. ReadableFolders[i] \in ToSet(ReadableFolders)
        BY DEF ToSet
      <3>. QED  BY <1>9, <3>1, BoxAtEnd
    <2>4. Mapped(ReadableFolders, Goods) =
            [i \in DOMAIN ReadableFolders |-> Len(files[[mbox |-> ReadableFolders[i].folder]].body)]
      BY <2>3 DEF Mapped
    <2>. QED  BY <2>2, <2>4 DEF SumOver
  <1>10. ASSUME format = "eml"
         PROVE  written >= Cardinality({n \in FileNames : files[n].state = "written"})
    <2>1. /\ IsFiniteSet(WrittenNames) /\ Cardinality(WrittenNames) <= Counted
          /\ Counted = written
      BY <1>1, <1>10 DEF FilesCounted, Counted, Ended
    <2>2. Cardinality(WrittenNames) \in Nat
      BY <2>1, FS_CardinalityType
    <2>3. written >= Cardinality(WrittenNames)
      BY <1>1, <2>1, <2>2
    <2>. QED  BY <2>3 DEF WrittenNames
  <1>. QED  BY <1>4, <1>5, <1>6, <1>7, <1>8, <1>9, <1>10

(* What a run reports of itself, the lines of folders.txt and the summary  *)
(* of the command, is what the files hold and what the store is worth: no  *)
(* message is counted that was not written, or twice, and none is lost     *)
(* that the skipped ones do not account for.                               *)
THEOREM ReportIsTrue == ExportSpec => []FilesAccounted
  <1>1. ExportInit => CountInv /\ LedgerInv /\ FilesCounted
    BY LedgerStarts
  <1>2. WalkTypeOK /\ ExportTypes /\ SelectionInv /\ OutputInv /\ (CountInv /\ LedgerInv /\ FilesCounted)
          /\ [ExportNext]_evars => (CountInv /\ LedgerInv /\ FilesCounted)'
    BY CountStep, LedgerStep, FilesCountedStep DEF OutputInv
  <1>3. WalkTypeOK /\ ExportTypes /\ OutputInv /\ (CountInv /\ LedgerInv /\ FilesCounted)
          => FilesAccounted
    BY IndexFollows, AccountFollows DEF FilesAccounted
  <1>. QED  BY <1>1, <1>2, <1>3, ConsumerWalks, WalkInvariant, ExportTypesHold,
               SelectionInvariant, OutputHolds, PTL DEF ExportSpec, ExportSafety

=============================================================================
