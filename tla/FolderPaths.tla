----------------------------- MODULE FolderPaths -----------------------------
(***************************************************************************)
(* eml.py folder_paths and messaging/folder.py Folder.walk: the generators *)
(* that hand out the folders of a store, each before its children, which   *)
(* every export consumes.  walk is folder_paths with strict and recurse,   *)
(* without the display paths.                                              *)
(*                                                                         *)
(* A folder node is abstracted to whether it opens (it is in the node      *)
(* B-tree, of a folder type, and its property context parses), its display *)
(* name, and its hierarchy table: the rows in matrix order, or a refusal.  *)
(* An absent hierarchy table is one without rows.                          *)
(*                                                                         *)
(* A name or a path is the sequence of its pieces between slashes, so a    *)
(* name that holds a slash has two.  A display name is what _clean leaves  *)
(* of the stored one, without control characters and trimmed at its ends.  *)
(***************************************************************************)
EXTENDS PstLimits, SequencesExt

CONSTANTS Folders,     \* folder node identifiers
          Pieces,      \* text without a slash
          Calls,       \* the trees, the folder asked for, strict and recurse
          MaxFolderDepth, MaxFolders

Unreadable == <<>>     \* a display name that refuses, or that is empty
DisplayName == Seq(Pieces)
Table(Row) == [kind : {"rows"}, rows : Seq(Row)] \cup [kind : {"refused"}]
Folder == [opens : BOOLEAN, name : DisplayName, hierarchy : Table(Folders)]

ASSUME FoldersAssumption == IsFiniteSet(Folders)
ASSUME CallsAssumption ==
    \A c \in Calls : /\ c.tree \in [Folders -> Folder]
                     /\ c.start \in Folders /\ c.tree[c.start].opens
                     /\ c.strict \in BOOLEAN /\ c.recurse \in BOOLEAN
ASSUME LimitsAssumption == MaxFolderDepth \in Nat \ {0} /\ MaxFolders \in Nat \ {0}

VARIABLES tree, start, strict, recurse,  \* the store and the call
          gpc,      \* "next", "expand" (a folder was handed out), "done", "refused"
          pending,  \* the stack of opened folders, next one first
          seen,     \* the walk's VisitedSet
          current,  \* the folder handed out last
          yielded,  \* every folder handed out, with its path
          gerror    \* the class of the refusal

call == <<tree, start, strict, recurse>>
walkvars == <<call, gpc, pending, seen, current, yielded, gerror>>

(* Mutant: keeps the slashes of a display name. *)
DisplayPathRaw(f) ==
    IF tree[f].name = Unreadable THEN <<[node |-> f]>>
    ELSE [i \in DOMAIN tree[f].name |-> [text |-> <<tree[f].name[i]>>]]

(* One piece of a path: a display name whose slashes are replaced, or the  *)
(* node identifier in angle brackets.                                      *)
DisplayPath(f) ==
    IF tree[f].name = Unreadable THEN <<[node |-> f]>> ELSE <<[text |-> tree[f].name]>>

Visit(f, path, depth) == [folder |-> f, path |-> path, depth |-> depth]

WalkStarts(c) == /\ tree = c.tree /\ start = c.start
                 /\ strict = c.strict /\ recurse = c.recurse
                 /\ gpc = "next"
                 /\ pending = <<Visit(start, DisplayPath(start), 0)>>
                 /\ seen = {}
                 /\ current = Visit(start, DisplayPath(start), 0)
                 /\ yielded = <<>>
                 /\ gerror = NoError

WalkInit == \E c \in Calls : WalkStarts(c)

-----------------------------------------------------------------------------
(* list(folder.subfolders()): the table is read, its rows are counted, and *)
(* every child is opened, before any of them is used.                      *)
Rows(table) == IF table.kind = "rows" THEN table.rows ELSE <<>>

Children(f) == Rows(tree[f].hierarchy)

SubfoldersError(f) ==
    IF tree[f].hierarchy.kind = "refused" THEN "PstFormatError"
    ELSE IF Exceeds(Len(Children(f)), MaxFolders) THEN "PstLimitError"
    ELSE IF \E i \in DOMAIN Children(f) : ~tree[Children(f)[i]].opens THEN "PstFormatError"
    ELSE NoError

Subfolders(v) ==
    [i \in DOMAIN Children(v.folder) |->
        LET child == Children(v.folder)[i]
        IN Visit(child, v.path \o DisplayPath(child), v.depth + 1)]

VisitRefused(v) ==
    Exceeds(v.depth, MaxFolderDepth) \/ AddRefused(seen, v.folder, MaxFolders)

YieldFolder ==
    /\ gpc = "next" /\ pending # <<>> /\ ~VisitRefused(Head(pending))
    /\ seen' = seen \cup {Head(pending).folder}
    /\ current' = Head(pending)
    /\ pending' = Tail(pending)
    /\ yielded' = Append(yielded, Head(pending))
    /\ gpc' = "expand"
    /\ UNCHANGED <<call, gerror>>

RefuseWalk(class) == /\ gpc' = "refused" /\ gerror' = class
                     /\ UNCHANGED <<call, pending, seen, current, yielded>>

(* The depth, the cycle guard and its size refuse whatever strict says.    *)
RefuseFolder == /\ gpc = "next" /\ pending # <<>> /\ VisitRefused(Head(pending))
                /\ RefuseWalk("PstLimitError")

(* Mutant: replaces the stack instead of extending it. *)
ExpandDropsPending ==
    /\ gpc = "expand" /\ recurse /\ SubfoldersError(current.folder) = NoError
    /\ pending' = Subfolders(current)
    /\ gpc' = "next"
    /\ UNCHANGED <<call, seen, current, yielded, gerror>>

Expand ==
    /\ gpc = "expand" /\ recurse /\ SubfoldersError(current.folder) = NoError
    /\ pending' = Subfolders(current) \o pending
    /\ gpc' = "next"
    /\ UNCHANGED <<call, seen, current, yielded, gerror>>

(* Not strict: a folder whose children cannot all be listed and opened is  *)
(* taken for a leaf.                                                       *)
SkipChildren ==
    /\ gpc = "expand" /\ recurse /\ SubfoldersError(current.folder) # NoError
    /\ ~strict
    /\ gpc' = "next"
    /\ UNCHANGED <<call, pending, seen, current, yielded, gerror>>

RaiseChildren ==
    /\ gpc = "expand" /\ recurse /\ SubfoldersError(current.folder) # NoError
    /\ strict
    /\ RefuseWalk(SubfoldersError(current.folder))

FinishWalk ==
    /\ \/ gpc = "expand" /\ ~recurse
       \/ gpc = "next" /\ pending = <<>>
    /\ gpc' = "done"
    /\ UNCHANGED <<call, pending, seen, current, yielded, gerror>>

WalkNext == YieldFolder \/ RefuseFolder \/ Expand \/ SkipChildren \/ RaiseChildren
            \/ FinishWalk

(* A consumer that asks for every folder, as all of them in the code do.   *)
WalkSpec == WalkInit /\ [][WalkNext]_walkvars /\ WF_walkvars(WalkNext)

-----------------------------------------------------------------------------
Piece == [text : DisplayName] \cup [node : Folders]
VisitType == [folder : Folders, path : Seq(Piece), depth : Nat]

(* The type of the walk's state; a folder it holds has been opened. *)
WalkTypeOK ==
    /\ tree \in [Folders -> Folder] /\ start \in Folders
    /\ strict \in BOOLEAN /\ recurse \in BOOLEAN
    /\ gpc \in {"next", "expand", "done", "refused"}
    /\ pending \in Seq(VisitType) /\ current \in VisitType
    /\ seen \in SUBSET {f \in Folders : tree[f].opens}
    /\ yielded \in Seq(VisitType)
    /\ gerror \in Refusals \cup {NoError}

-----------------------------------------------------------------------------
(* References, computed from the store alone: the children a walk goes on  *)
(* to, and the folders it comes to, in pre-order, one level too many.      *)
WalkedChildren(f) ==
    IF recurse /\ SubfoldersError(f) = NoError THEN Children(f) ELSE <<>>

(* below[n][f] is the part of it under a folder f with n levels left.      *)
Preorder ==
    LET Levels == MaxFolderDepth + 1
        below[n \in 0..Levels] ==
            [f \in Folders |->
                <<[folder |-> f, depth |-> Levels - n]>> \o
                (IF n = 0 THEN <<>>
                 ELSE FlattenSeq([i \in DOMAIN WalkedChildren(f) |->
                                    below[n - 1][WalkedChildren(f)[i]]]))]
    IN below[Levels][start]

WithinLimits ==
    LET pre == Preorder
    IN /\ \A i \in DOMAIN pre : pre[i].depth <= MaxFolderDepth
       /\ \A i, j \in DOMAIN pre : pre[i].folder = pre[j].folder => i = j
       /\ Len(pre) <= MaxFolders

AllListed == recurse => \A v \in ToSet(Preorder) : SubfoldersError(v.folder) = NoError

FoldersOf(s) == [i \in DOMAIN s |-> [folder |-> s[i].folder, depth |-> s[i].depth]]

(* The walk hands out the folders in pre-order, children in the order of   *)
(* the hierarchy table; one that is refused has handed out the first ones. *)
WalkOrder ==
    /\ IsPrefix(FoldersOf(yielded), Preorder)
    /\ gpc = "done" => Len(yielded) = Len(Preorder)

(* A walk ends well exactly if the folders it comes to are within the      *)
(* limits and, if strict, can all be listed: being lenient forgives a      *)
(* folder that cannot be listed and never a cycle, a depth or a count, and *)
(* a strict walk that ends has dropped no folder.                          *)
WalkVerdict ==
    /\ gpc = "done" => WithinLimits /\ (strict => AllListed)
    /\ gpc = "refused" => ~WithinLimits \/ (strict /\ ~AllListed)
    /\ (gpc = "refused" /\ ~strict) => gerror = "PstLimitError"

(* Splitting a path on "/" gives the tree: a folder's path is the path of  *)
(* a folder handed out before, which lists it, and one piece more.         *)
PathsNest ==
    \A j \in 2..Len(yielded) :
        \E i \in 1..(j - 1) :
            /\ Contains(WalkedChildren(yielded[i].folder), yielded[j].folder)
            /\ yielded[i].path = Front(yielded[j].path)

(* The walk accepts exactly the hierarchies it may, and hands out exactly  *)
(* their folders, in order and each under its place in the tree.           *)
WalkMatchesTree == WalkOrder /\ WalkVerdict /\ PathsNest

-----------------------------------------------------------------------------
Edges == UNION {{f} \X ToSet(WalkedChildren(f)) : f \in Folders}

Status == IF gpc \in {"done", "refused"} THEN gpc ELSE "running"

Walk == INSTANCE Traversal WITH Node <- Folders, start <- {start}, edges <- Edges,
                                status <- Status

(* The folder walk does as Traversal promises: each folder that can be     *)
(* reached through folders whose children open is handed out once.         *)
ImplementsTraversal == Walk!Spec

=============================================================================
