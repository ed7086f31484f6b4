-------------------------------- MODULE Export --------------------------------
(***************************************************************************)
(* pypstreader.py main and the writers it calls, mbox.py export_mbox and   *)
(* eml.py export_folder: the folders of a store become mbox or .eml files. *)
(*                                                                         *)
(* The command (`cli') walks the whole folder tree, selects the folders    *)
(* `wanted' names, and only then writes; the two library functions write   *)
(* each folder before they ask the generator for the next one.  The        *)
(* generator is FolderPaths; here are its consumers.  The formats are      *)
(*   list     print the selection and stop (the command only)              *)
(*   mbox     one mbox for the whole selection (the command only)          *)
(*   folders  one <nid>.mbox per folder and folders.txt (export_mbox)      *)
(*   eml      one <nid>.eml per message (export_folder)                    *)
(*                                                                         *)
(* A message is abstracted to whether it opens and converts; a file to the *)
(* records or index lines in it.  Any file may be there from an earlier    *)
(* run ("stale").  The file system itself does not fail.                   *)
(***************************************************************************)
EXTENDS FolderPaths

CONSTANTS Messages,        \* message node identifiers
          MaxMessages,
          Divided          \* pieces of a name with U+2028, U+2029 or U+0085 inside

(* A message "raises" when building or serialising its .eml ends with an   *)
(* error that is not a PstError (Eml shows how); one "from abroad" has a   *)
(* sender address with a character that is not ASCII.                      *)
Format == {"list", "mbox", "folders", "eml"}
MessageKind == {"good", "unopenable", "unconvertible", "raises", "from abroad"}

ASSUME MessagesAssumption == IsFiniteSet(Messages) /\ MaxMessages \in Nat \ {0}
ASSUME ExportCallsAssumption ==
    \A c \in Calls : /\ c.cli \in BOOLEAN /\ c.format \in Format
                     /\ c.cli \/ c.format \in {"folders", "eml"}
                     /\ c.cli => c.recurse
                     /\ c.wanted \in SUBSET Seq([text : Seq(Pieces)] \cup [node : Folders])
                     /\ <<>> \notin c.wanted
                     /\ c.contents \in [Folders -> Table(Messages)]
                     /\ c.message \in [Messages -> MessageKind]
                     /\ c.before \in {"absent", "stale"}

VARIABLES cli, format, wanted,   \* the call
          contents, message,     \* the store: contents tables and messages
          epc,       \* "walk", "folder", "walked", "write", "message",
                     \* "finished", "refused", "escaped"
          selected,  \* the command's selection
          todo,      \* folders still to write, next one first
          msgs,      \* messages of the first of them still to write
          count,     \* messages of it written
          index,     \* lines of folders.txt so far
          written,   \* the messages the exporter says it wrote
          files,     \* the destination
          before     \* the destination as the run found it

job == <<cli, format, wanted, contents, message, before>>
exportvars == <<job, epc, selected, todo, msgs, count, index, written, files>>
evars == <<walkvars, exportvars>>

-----------------------------------------------------------------------------
IndexFile == [name |-> "folders.txt"]
StoreBox == [name |-> "store.mbox"]
FileNames == [mbox : Folders] \cup [eml : Messages] \cup {IndexFile, StoreBox}

Written(body) == [state |-> "written", body |-> body]

ContentsRefused(f) ==
    contents[f].kind = "refused" \/ Exceeds(Len(Rows(contents[f])), MaxMessages)

(* message_ids, where it does not refuse. *)
Named(f) == IF ContentsRefused(f) THEN <<>> ELSE contents[f].rows

(* Mutant: the folder itself, and not what is filed in it. *)
MatchesExactly(path) == wanted = {} \/ path \in wanted

Matches(path) == wanted = {} \/ \E w \in wanted : IsPrefix(w, path)

Fresh(state) == [n \in FileNames |-> [state |-> state]]

ExportInit ==
    /\ \E c \in Calls :
         /\ WalkStarts(c)
         /\ cli = c.cli /\ format = c.format /\ wanted = c.wanted
         /\ contents = c.contents /\ message = c.message
         /\ files = Fresh(c.before) /\ before = files
    /\ epc = "walk" /\ selected = <<>> /\ todo = <<>> /\ msgs = <<>>
    /\ count = 0 /\ index = <<>> /\ written = 0

Raise == epc' = "refused" /\ UNCHANGED <<walkvars, job, selected, todo, msgs, count,
                                         index, written, files>>

-----------------------------------------------------------------------------
(* The generator runs when its consumer asks it for a folder.  What it     *)
(* raises is caught nowhere but in main.                                   *)
Generate ==
    /\ epc = "walk" /\ WalkNext
    /\ epc' = CASE gpc' = "expand" -> "folder"
                [] gpc' = "next" -> "walk"
                [] gpc' = "done" -> "walked"
                [] gpc' = "refused" -> "refused"
    /\ UNCHANGED <<job, selected, todo, msgs, count, index, written, files>>

(* A strict run ends at the first contents table it cannot read: the       *)
(* command while it selects, a library call while it writes.               *)
RefuseContents ==
    /\ epc = "folder" /\ strict /\ ContentsRefused(current.folder)
    /\ cli => Matches(current.path)
    /\ Raise

(* _select, one folder; one whose contents refuse is kept, to be counted.  *)
Select ==
    /\ epc = "folder" /\ cli
    /\ Matches(current.path) /\ ~(strict /\ ContentsRefused(current.folder))
    /\ selected' = Append(selected, current)
    /\ epc' = "walk"
    /\ UNCHANGED <<walkvars, job, todo, msgs, count, index, written, files>>

PassOver ==
    /\ epc = "folder" /\ cli /\ ~Matches(current.path)
    /\ epc' = "walk"
    /\ UNCHANGED <<walkvars, job, selected, todo, msgs, count, index, written, files>>

NothingMatches == wanted # {} /\ selected = <<>>

RefuseSelection == epc = "walked" /\ cli /\ NothingMatches /\ Raise

List == /\ epc = "walked" /\ cli /\ ~NothingMatches /\ format = "list"
        /\ epc' = "finished"
        /\ UNCHANGED <<walkvars, job, selected, todo, msgs, count, index, written, files>>

(* Mutant: appends to the mbox that is there. *)
OpenOutputAppends ==
    /\ epc = "walked" /\ cli /\ ~NothingMatches /\ format # "list"
    /\ files' = IF format = "mbox" /\ files[StoreBox].state = "absent"
                THEN [files EXCEPT ![StoreBox] = Written(<<>>)] ELSE files
    /\ todo' = selected
    /\ epc' = "write"
    /\ UNCHANGED <<walkvars, job, selected, msgs, count, index, written>>

(* The single mbox is unlinked and created before its first message is     *)
(* read.                                                                   *)
OpenOutput ==
    /\ epc = "walked" /\ cli /\ ~NothingMatches /\ format # "list"
    /\ files' = IF format = "mbox" THEN [files EXCEPT ![StoreBox] = Written(<<>>)] ELSE files
    /\ todo' = selected
    /\ epc' = "write"
    /\ UNCHANGED <<walkvars, job, selected, msgs, count, index, written>>

(* A library call writes the folder the generator is suspended at. *)
Take ==
    /\ epc = "folder" /\ ~cli /\ ~(strict /\ ContentsRefused(current.folder))
    /\ todo' = <<current>>
    /\ epc' = "write"
    /\ UNCHANGED <<walkvars, job, selected, msgs, count, index, written, files>>

-----------------------------------------------------------------------------
(* One folder. *)
AfterFolder == IF cli THEN "write" ELSE "walk"

SkippedLine(v) == [folder |-> v.folder, path |-> v.path, skipped |-> TRUE]
IndexLine(v, n) == [folder |-> v.folder, path |-> v.path, count |-> n]

Indexed(line) == IF format = "folders" THEN Append(index, line) ELSE index

SkipFolder ==
    /\ epc = "write" /\ todo # <<>> /\ ContentsRefused(Head(todo).folder)
    /\ index' = Indexed(SkippedLine(Head(todo)))
    /\ todo' = Tail(todo)
    /\ epc' = AfterFolder
    /\ UNCHANGED <<walkvars, job, selected, msgs, count, written, files>>

(* next(readable_messages(folder)): the messages from the first that opens *)
(* on.                                                                     *)
FromFirstOpened(ids) ==
    LET opened == {i \in DOMAIN ids : message[ids[i]] # "unopenable"}
    IN IF opened = {} THEN <<>> ELSE SubSeq(ids, Min(opened), Len(ids))

FirstRaises(f) ==
    format = "folders" /\ strict /\ Named(f) # <<>> /\ message[Named(f)[1]] = "unopenable"

(* _write_one asks for the first message before it touches the file. *)
RaiseFirst ==
    /\ epc = "write" /\ todo # <<>> /\ FirstRaises(Head(todo).folder)
    /\ Raise

(* Mutant: keeps the mbox of an earlier run. *)
OpenFolderStale ==
    /\ epc = "write" /\ todo # <<>>
    /\ LET f == Head(todo).folder IN
       /\ ~ContentsRefused(f) /\ ~FirstRaises(f)
       /\ msgs' = IF format = "folders" THEN FromFirstOpened(Named(f)) ELSE Named(f)
       /\ files' = IF format = "folders" /\ msgs' # <<>>
                   THEN [files EXCEPT ![[mbox |-> f]] = Written(<<>>)] ELSE files
    /\ count' = 0
    /\ epc' = "message"
    /\ UNCHANGED <<walkvars, job, selected, todo, index, written>>

OpenFolder ==
    /\ epc = "write" /\ todo # <<>>
    /\ LET f == Head(todo).folder IN
       /\ ~ContentsRefused(f) /\ ~FirstRaises(f)
       /\ msgs' = IF format = "folders" THEN FromFirstOpened(Named(f)) ELSE Named(f)
       /\ files' = IF format = "folders"
                   THEN [files EXCEPT ![[mbox |-> f]] = Written(<<>>)] ELSE files
    /\ count' = 0
    /\ epc' = "message"
    /\ UNCHANGED <<walkvars, job, selected, todo, index, written>>

(* box.add appends a record; the single mbox stamps the folder's path on   *)
(* it; write_eml replaces the message's own file.                          *)
Record(m) == IF format = "mbox" THEN [message |-> m, folder |-> Head(todo).path]
                                ELSE [message |-> m]

(* The path goes into a header.  A name in it has lost its control         *)
(* characters, and the line separators at its ends, but not those inside;  *)
(* the email package refuses a value they divide.  The sender's address    *)
(* goes into a From_ line, which box.add encodes as ASCII.                 *)
Divides(name) == \E i \in DOMAIN name : name[i] \in Divided

BreaksHeader(path) == \E i \in DOMAIN path : "text" \in DOMAIN path[i] /\ Divides(path[i].text)

Escapes(v, m) ==
    \/ message[m] = "raises"
    \/ message[m] = "from abroad" /\ format \in {"mbox", "folders"}
    \/ message[m] = "good" /\ format = "mbox" /\ BreaksHeader(v.path)

Converts(m) == message[m] \in {"good", "from abroad"}
Refuses(m) == message[m] \in {"unopenable", "unconvertible"}

WriteMessage ==
    /\ epc = "message" /\ msgs # <<>> /\ Converts(Head(msgs))
    /\ ~Escapes(Head(todo), Head(msgs))
    /\ LET box == IF format = "mbox" THEN StoreBox ELSE [mbox |-> Head(todo).folder]
           record == Record(Head(msgs))
       IN files' = IF format = "eml"
                   THEN [files EXCEPT ![[eml |-> Head(msgs)]] = Written(<<record>>)]
                   ELSE [files EXCEPT ![box] = Written(Append(@.body, record))]
    /\ msgs' = Tail(msgs)
    /\ count' = count + 1
    /\ UNCHANGED <<walkvars, job, epc, selected, todo, index, written>>

(* Mutant: counts the message it skips. *)
SkipMessageCounted ==
    /\ epc = "message" /\ msgs # <<>> /\ Refuses(Head(msgs)) /\ ~strict
    /\ msgs' = Tail(msgs)
    /\ count' = count + 1
    /\ UNCHANGED <<walkvars, job, epc, selected, todo, index, written, files>>

(* Mutant: skips in a strict run too. *)
SkipMessageAlways ==
    /\ epc = "message" /\ msgs # <<>> /\ Refuses(Head(msgs))
    /\ msgs' = Tail(msgs)
    /\ UNCHANGED <<walkvars, job, epc, selected, todo, count, index, written, files>>

(* Mutant: tries the message again, for ever. *)
SkipMessageRetry ==
    /\ epc = "message" /\ msgs # <<>> /\ Refuses(Head(msgs)) /\ ~strict
    /\ UNCHANGED evars

SkipMessage ==
    /\ epc = "message" /\ msgs # <<>> /\ Refuses(Head(msgs)) /\ ~strict
    /\ msgs' = Tail(msgs)
    /\ UNCHANGED <<walkvars, job, epc, selected, todo, count, index, written, files>>

(* The mbox is closed with the records it has. *)
RaiseMessage ==
    /\ epc = "message" /\ msgs # <<>> /\ Refuses(Head(msgs)) /\ strict
    /\ Raise

(* What is not a PstError no handler here catches, strict or not.  The     *)
(* mbox is closed; add has taken back what it had written of the message.  *)
Escape ==
    /\ epc = "message" /\ msgs # <<>> /\ Escapes(Head(todo), Head(msgs))
    /\ epc' = "escaped"
    /\ UNCHANGED <<walkvars, job, selected, todo, msgs, count, index, written, files>>

(* The command calls export_mbox for one folder at a time, and each call   *)
(* leaves a folders.txt of its own.                                        *)
FinishFolder ==
    /\ epc = "message" /\ msgs = <<>>
    /\ LET line == IndexLine(Head(todo), count) IN
       /\ index' = Indexed(line)
       /\ files' = IF cli /\ format = "folders"
                   THEN [files EXCEPT ![IndexFile] = Written(<<line>>)] ELSE files
    /\ written' = written + count
    /\ todo' = Tail(todo)
    /\ epc' = AfterFolder
    /\ UNCHANGED <<walkvars, job, selected, msgs, count>>

Finish ==
    /\ \/ cli /\ epc = "write" /\ todo = <<>>
       \/ ~cli /\ epc = "walked"
    /\ files' = IF format = "folders" THEN [files EXCEPT ![IndexFile] = Written(index)]
                                      ELSE files
    /\ epc' = "finished"
    /\ UNCHANGED <<walkvars, job, selected, todo, msgs, count, index, written>>

ExportNext ==
    \/ Generate \/ RefuseContents \/ Select \/ PassOver \/ RefuseSelection \/ List
    \/ OpenOutput \/ Take \/ SkipFolder \/ RaiseFirst \/ OpenFolder \/ WriteMessage
    \/ SkipMessage \/ RaiseMessage \/ Escape \/ FinishFolder \/ Finish

(* A run is one thread, and goes on until it ends. *)
ExportSpec == ExportInit /\ [][ExportNext]_evars /\ WF_evars(ExportNext)

-----------------------------------------------------------------------------
(* The summary line of the command. *)
SumOver(seq, Amount(_)) == SumFunction([i \in DOMAIN seq |-> Amount(seq[i])])

NamedBy(v) == Len(Named(v.folder))
RefusedBy(v) == IF ContentsRefused(v.folder) THEN 1 ELSE 0

Tally ==
    [folders |-> Len(selected), written |-> written,
     skipped |-> SumOver(selected, NamedBy) - written,
     unreadable |-> SumOver(selected, RefusedBy)]

-----------------------------------------------------------------------------
Line == [folder : Folders, path : Seq(Piece), skipped : {TRUE}]
    \cup [folder : Folders, path : Seq(Piece), count : Nat]
FileRecord == [message : Messages] \cup [message : Messages, folder : Seq(Piece)]
File == [state : {"absent", "stale"}]
    \cup [state : {"written"}, body : Seq(FileRecord) \cup Seq(Line)]

(* The type of a run.  The mbox that is being written exists. *)
ExportTypeOK ==
    /\ WalkTypeOK
    /\ cli \in BOOLEAN /\ format \in Format
    /\ contents \in [Folders -> Table(Messages)] /\ message \in [Messages -> MessageKind]
    /\ epc \in {"walk", "folder", "walked", "write", "message", "finished", "refused",
               "escaped"}
    /\ selected \in Seq(VisitType) /\ todo \in Seq(VisitType)
    /\ msgs \in Seq(Messages) /\ count \in Nat /\ written \in Nat
    /\ index \in Seq(Line)
    /\ files \in [FileNames -> File] /\ before \in [FileNames -> File]
    /\ (epc = "message" /\ format = "mbox") => files[StoreBox].state = "written"
    /\ (epc = "message" /\ format = "folders") =>
            files[[mbox |-> Head(todo).folder]].state = "written"

-----------------------------------------------------------------------------
(* The members of a sequence that are in a set, in their order: SelectSeq  *)
(* as a recursive function.                                                *)
KeptOf(seq, chosen) ==
    LET kept[i \in 0..Len(seq)] ==
            IF i = 0 THEN <<>>
            ELSE IF seq[i] \in chosen THEN Append(kept[i - 1], seq[i]) ELSE kept[i - 1]
    IN kept[Len(seq)]

(* What a run is due to write, from the walk and the store alone.          *)
Covered == KeptOf(yielded, {v \in VisitType : ~cli \/ Matches(v.path)})

ReadableFolders == KeptOf(Covered, {v \in VisitType : ~ContentsRefused(v.folder)})

Good(f) == KeptOf(Named(f), {m \in Messages : Converts(m)})
GoodBy(v) == Len(Good(v.folder))

Plain(ms) == [i \in DOMAIN ms |-> [message |-> ms[i]]]
Stamped(v) == [i \in DOMAIN Good(v.folder) |-> [message |-> Good(v.folder)[i], folder |-> v.path]]

DueBoxes == IF format = "folders" THEN {[mbox |-> v.folder] : v \in ToSet(ReadableFolders)} ELSE {}
DueMessages == UNION {ToSet(Good(v.folder)) : v \in ToSet(ReadableFolders)}
DueNames == CASE format = "list" -> {}
              [] format = "mbox" -> {StoreBox}
              [] format = "folders" -> DueBoxes \cup {IndexFile}
              [] format = "eml" -> {[eml |-> m] : m \in DueMessages}

DueBody(n) ==
    IF format = "mbox"
    THEN FlattenSeq([i \in DOMAIN ReadableFolders |-> Stamped(ReadableFolders[i])])
    ELSE IF format = "eml" THEN <<[message |-> n.eml]>>
    ELSE Plain(Good(n.mbox))

(* Whatever refuses along the way, a file holds a prefix of what it is     *)
(* due: the messages that convert of the folders covered, each in the      *)
(* folder that names it, in the order of the walk and of the contents      *)
(* table.  A run that ends well has written all of it, and in no run is a  *)
(* file touched that is not due, one an earlier run left for a folder or a *)
(* message that refuses now included.                                      *)
OutputIsDue ==
    /\ \A n \in FileNames : files[n] # before[n] => n \in DueNames
    /\ \A n \in DueNames \ {IndexFile} :
         /\ files[n].state = "written" => IsPrefix(files[n].body, DueBody(n))
         /\ epc = "finished" => files[n] = Written(DueBody(n))

(* folders.txt and the mbox files of a run that ends well agree: a line    *)
(* for each folder covered, in walk order, with the number of records in   *)
(* its mbox, or marked as skipped and the mbox left as it was.  No single  *)
(* folder's index that export_mbox writes on the way survives.             *)
IndexMatchesFiles ==
    (epc = "finished" /\ format = "folders") =>
        LET Box(v) == files[[mbox |-> v.folder]]
        IN files[IndexFile] = Written(
            [i \in DOMAIN Covered |->
                IF ContentsRefused(Covered[i].folder) THEN SkippedLine(Covered[i])
                ELSE IndexLine(Covered[i], Len(Box(Covered[i]).body))])

(* The summary never lies of the folders the walk handed out: what it says *)
(* was written is in the files, once for each folder that names it, what   *)
(* refused is counted as skipped, and a folder whose contents refused is   *)
(* counted apart and not as an empty one.  It says nothing of folders the  *)
(* walk did not come to: SkipsNeverSilent is about these.                  *)
Accounted ==
    (epc = "finished" /\ cli /\ format # "list") =>
        /\ Tally.folders = Len(Covered)
        /\ Tally.written = SumOver(Covered, GoodBy)
        /\ Tally.written + Tally.skipped = SumOver(Covered, NamedBy)
        /\ Tally.unreadable = Len(Covered) - Len(ReadableFolders)
        /\ format = "mbox" => Tally.written = Len(files[StoreBox].body)
        /\ format = "folders" =>
             Tally.written = SumOver(ReadableFolders, LAMBDA v : Len(files[[mbox |-> v.folder]].body))
        /\ format = "eml" =>
             Tally.written >= Cardinality({n \in FileNames : files[n].state = "written"})

(* What a run reports of itself, index and summary, is in the files.       *)
FilesAccounted == IndexMatchesFiles /\ Accounted

(* A strict run that ends well has dropped nothing, and a run is refused   *)
(* only for a reason a user can find in the store: in a strict run         *)
(* anything that refuses, and otherwise the shape of the folder tree or a  *)
(* selection that names no folder.  It ends with a foreign error only      *)
(* where a message or a name covered has one in it.                        *)
Dropped ==
    \/ ~AllListed
    \/ \E v \in ToSet(Covered) : ContentsRefused(v.folder)
    \/ format # "list" /\ \E v \in ToSet(Covered) : GoodBy(v) # NamedBy(v)

Escaping == \E v \in ToSet(ReadableFolders) : \E m \in ToSet(Named(v.folder)) : Escapes(v, m)

VerdictMatchesStore ==
    /\ (epc = "finished" /\ strict) => ~Dropped
    /\ (epc = "refused" /\ strict) => Dropped \/ ~WithinLimits \/ (cli /\ wanted # {} /\ Covered = <<>>)
    /\ epc = "escaped" => Escaping
    /\ (epc = "finished" /\ format # "list") => ~Escaping
    /\ (epc = "refused" /\ ~strict) => ~WithinLimits \/ (cli /\ wanted # {} /\ Covered = <<>>)

(* The command selects before it writes: a store whose folder tree is      *)
(* refused, a strict run over folders that cannot be listed or read, and   *)
(* a --folder nothing matches, each leave every file as it was.            *)
SelectionFails ==
    \/ ~WithinLimits \/ (strict /\ ~AllListed)
    \/ strict /\ \E v \in ToSet(Covered) : ContentsRefused(v.folder)
    \/ wanted # {} /\ gpc = "done" /\ Covered = <<>>

FailedSelectionLeavesNoTrace == (cli /\ SelectionFails) => files = before

(* --folder covers subtrees of the walk: with a folder everything the walk *)
(* found in it, and otherwise only the folders it names.  A slash in a     *)
(* display name puts no folder into a subtree it is not in.                *)
SelectionIsSubtree ==
    (epc \in {"walked", "write", "message", "finished"} /\ cli) =>
        /\ \A i \in DOMAIN yielded :
             LET parents == {j \in 1..(i - 1) : Contains(WalkedChildren(yielded[j].folder), yielded[i].folder)}
             IN Contains(selected, yielded[i]) <=>
                  \/ wanted = {} \/ yielded[i].path \in wanted
                  \/ \E j \in parents : Contains(selected, yielded[j])
        /\ IsInjective(selected)

(* What the command selects is what --folder names, all of it and once,    *)
(* and a selection that fails has touched nothing.                         *)
SelectionIsSound == SelectionIsSubtree /\ FailedSelectionLeavesNoTrace

(* What the command says of itself: "A traceback out of this command is a  *)
(* bug in this package".                                                   *)
NoTraceback == epc # "escaped"

(* What the command says of its summary: "the skips are never silent".  A  *)
(* run over the whole store that counts no skip has dropped nothing.       *)
SkipsNeverSilent ==
    (epc = "finished" /\ cli /\ format # "list" /\ wanted = {}) =>
        (Tally.skipped = 0 /\ Tally.unreadable = 0 => ~Dropped)

(* Every run ends. *)
RunEnds == <>(epc \in {"finished", "refused", "escaped"})

=============================================================================
