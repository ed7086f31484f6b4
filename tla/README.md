# A verification project for pypst_reader

`pypstreader` reads Outlook `.pst` files: a file on disk, written by somebody else and
possibly corrupt, becomes pages, blocks, heaps, tables, folders and messages, and these are
exported as mbox or `.eml` files. It never writes the store. It has one thread.

So what makes it hard is not concurrency but **files that lie**: graphs with cycles, blocks
that are shared, missing or corrupt, totals that are wrong, folders that cannot be listed. The
program must read all of a good file, end on every file, hold to its limits, refuse for a
reason, and say truthfully what it left out. The project says so in TLA+: the state and the
control of each walk and of the exports, model-checked with TLC and, where a fact matters for
every file and every limit, proved with TLAPS.

## 1. The system

All source paths are below `src/src/pypstreader/`.

| component | source | state it keeps | operations | module |
|---|---|---|---|---|
| limits, cycle guard, errors | `limits.py`, `errors.py` | the `VisitedSet` of one walk | `check_depth`, `check_count`, `check_allocation`, `VisitedSet.add` | `PstLimits`, `Traversal` |
| block layer | `ndb/block.py` | none between calls; a stack, a `VisitedSet` and running totals within one | `read_block`, `read_data_blocks`, `read_subnode_tree` | `BlockReader` |
| B-trees of pages | `ndb/btree.py`, `ndb/page.py` | per tree a cache of parsed intermediate pages; per generator a stack and a `VisitedSet` | `find`, `pages`, iteration | `BTree` |
| heap and BTH | `ltp/heap.py`, `ltp/tree.py` | page maps, cached when first needed; a running count of their items; an item is cut out anew each time | item lookup, BTH iteration and `find` | `Heap` |
| table contexts | `ltp/table_context.py` | the row matrix, its row starts and the row index, each built when first needed; a generator's position | `row`, `rows`, `find_row`, `len` | `TableContext` |
| property contexts | `ltp/prop_context.py`, `ltp/prop_type.py` | the map of records, built whole when first needed | opening, `get`, `in`, `len`, iteration, `decode` | `PropContext`, `PropTypes` |
| compressed RTF | `rtf.py` | the 4096-byte ring and its write position, within a call | `decompress_rtf` | `Rtf` |
| folders | `messaging/folder.py`, `eml.py` `folder_paths` | a generator's stack and `VisitedSet` | `subfolders`, `walk`, `folder_paths` | `FolderPaths` |
| store, messages, attachments | `messaging/store.py`, `message.py`, `attachment.py` | the open file, the map of names, each object's property context, all read lazily | open, close, `open_folder`, `open_message`, attachments, every typed accessor, embedded messages | `Store`, `Eml` |
| named properties | `messaging/named_prop.py` | the GUIDs, the entries and two indexes of them, each built lazily | `guids`, `entries`, `lookup`, `resolve`, `hash_entry`, `hash_bucket` | `NamedProps` |
| `.eml` assembly | `eml.py` `to_eml` | none; within a call the message built so far at each level of embedded messages | `to_eml`, `_assemble`, `_add_attachments`, `_add_embedded` | `Eml` |
| exports and the command | `pypstreader.py`, `mbox.py`, `eml.py` `export_folder` | the selection, the counters, the index, the files | `main`, `_select`, three writers, `export_mbox`, `export_folder` | `Export` |
| identifiers, header, root; encoding, CRC; one page, one block | `ndb/ids.py`, `header.py`, `root.py`, `page.py`, `block.py`; `encode.py`, `crc.py`, `block_sig.py` | the position of the one file object all share, the header | `read_header`, `read_page`, `BTreePage.parse`, `read_density_list`, `read_data_tree`, `read_subnode_block`, the encodings | `Disk` |
| debug dumpers | `debug.py` | none | text output | not modelled |

**How they interact.** The command asks the store for its root folder and draws folders from
the generator `folder_paths`; the generator opens each folder through the node B-tree, reads
its tables through heap and blocks, and is suspended while its consumer works. The command
exhausts it before it writes anything; the library functions `export_mbox` and `export_folder`
write one folder each time it is suspended. A message is read when it is written. All lookups
in a tree share the tree's page cache with any iteration that is suspended over it. Every read of
a page or a block, by whichever of these, is one seek and one read of one shared file object. An
object that a caller holds (folder, message, attachment, the map of names) keeps what it has read
and outlives the store's `close`.

**What is hard.**
- *Cycles and sharing.* Each walk follows references the file chose. What keeps it finite is a
  depth ceiling and a `VisitedSet`, checked in a fixed order before, and totals after, the read.
- *Lying totals and boundaries.* Every ceiling is inclusive, at three points of a loop turn.
- *Layout.* Where an entry or a trailer lies follows from several fields of the file at once (a
  stride, a count, a size and the size the count implies), and a wrong key or offset yields bytes that
  look like any others.
- *Lazy state.* Indexes, records and page maps are built on first use, may refuse at any record, and
  are kept only whole, by objects that live on after the file was closed.
- *Order.* Children are pushed reversed onto a stack; blocks, sub-nodes and folders must come
  out in file order, because a heap's block index, `setdefault` and the display paths use it.
- *Suspended generators.* Lookups and writes run between two steps of an iteration.
- *Partial failure.* `strict` and lenient handling is decided at four nested levels (the tree,
  the hierarchy table, the contents table, the message), and an export that stops half way
  leaves files behind, next to those of an earlier run.

What makes each component correct:
- every walk: it ends; it hands out each node it can reach exactly once, or refuses for a reason
  in the file; it stays within every limit;
- block layer: the blocks come back in tree order, the first leaf entry wins;
- B-trees: an answer depends on the file and the key alone, never on the cache; in a search tree
  `find` knows exactly the keys an iteration hands out; a finished iteration vouches for lookups;
- folders: pre-order, paths that nest, `strict` forgives nothing and lenient only what it may;
- exports: a file holds what it is due; index, summary and files agree; the command writes
  nothing before the whole selection has succeeded;
- heap: a lookup and an iteration of one tree agree; only the count of items, once it is past
  its ceiling, may change an answer;
- tables: a row is whole and the row of its block; calls in any order get what the file says;
- `.eml`: each attachment is in it once, at every level, or the first trouble refuses the whole;
- store and properties: a call answers what the first call on a new object would, or, of a closed
  file, that it is closed; a value is the one a writer encoded; the two indexes of names agree;
- bytes: what a writer stored is read as it was meant or, if it was damaged, refused, and nothing
  outside what a checksum covers is interpreted;
- RTF: the ring yields what a decoder that keeps all its text yields.

The hazards, each at its line with the properties that would catch it, are listed in
`PROJECT.json`.

## 2. The modules

| module | what it is | extends |
|---|---|---|
| `PstLimits` | the ceilings, the cycle guard, the classes of refusal | |
| `Traversal` | **abstract specification** of every walk: hand out reachable nodes, none twice; be done only when all were; or refuse | |
| `BlockReader` | `read_data_blocks` and `read_subnode_tree` | `PstLimits` |
| `BTree` | one tree: `find`, `pages`, `_leaf_entries` and their cache | `PstLimits` |
| `FolderPaths` | `folder_paths`, `Folder.walk`, `subfolders`, display paths | `PstLimits` |
| `Export` | `main`, `_select`, the writers and the two library exports, composed with the walk they draw from | `FolderPaths` |
| `Heap` | one heap and one BTH over it: `page_map`, `get`, `__iter__`, `find` and the page maps they share | `PstLimits` |
| `TableContext` | one table: opening it, `row`, `rows`, `find_row`, `len`, the matrix and index they share | `PstLimits` |
| `Rtf` | `decompress_rtf` | `PstLimits` |
| `Eml` | `to_eml` with the attachments and embedded messages it opens | `PstLimits` |
| `Content` | `to_eml` of a message with a compressed RTF body, decompressed in its course | `Eml`, `Rtf` |
| `Disk` | what the bytes at one place are read as: header, B-tree page, density list, data, tree and subnode blocks, the encodings; and the shared file position | `PstLimits` |
| `PropTypes` | `decode` for every type of property value, and its inverse | `PstLimits` |
| `PropContext` | one property context: opening, records, values, iteration | `PropTypes` |
| `NamedProps` | the named property map: streams, entries, both indexes, hash buckets | `PropContext` |
| `Store` | a store with its map, a folder, a message and an attachment, and their accessors, as a session of calls | `NamedProps` |
| `DataLemmas` | lemmas about stacks, sequences, mapping, flattening, least elements and sums | |
| `NdbProofs` | theorems about `BlockReader` and `Disk` | both, `DataLemmas` |
| `ExportProofs` | theorems about `FolderPaths` and `Export` | `Export`, `DataLemmas` |
| `StoreProofs` | theorems about `Store` and `NamedProps` | `Store`, `DataLemmas` |
| `ContentProofs` | theorems about `Rtf`, `Eml` and `Content` | `Content`, `DataLemmas` |
| `BTreeProofs`, `HeapProofs`, `TableContextProofs` | theorems | their module, and `DataLemmas` |
| `MC...` | the inputs of each run | their module |

Operators whose comment starts with "Mutant:" are no part of the model. They are plausible bugs
in the definition after them, kept to show that the properties notice.

**Abstractions common to all.** An input file is a constant of a behaviour: each module has a
variable for it that no step changes, and `Init` takes it from a set of files, the module's
constants (`Calls`, `Stores`, `Tables` and the like). What parsing does with bytes is abstracted to its outcome: a page, block or table is
what it parses to, or it refuses. The order of checks, early returns and updates is kept, and
so is the class of each refusal.

### BlockReader
`stack`, `visited`, `parts`, `assembled`, `entries` and `count` are the local variables
(`pending`, `visited`, `blocks`, `assembled`, `entries`) of the two loops; `pc` says where the
call is. `RefuseRoot`, `ReturnDataBlock` and `EnterDataTree` are `read_data_blocks` up to its
loop, `EnterSubnodeTree` that of `read_subnode_tree`; each loop turn is one of `RefuseBlock`,
`ExpandTreeBlock`, `AppendDataBlock`, `CollectLeaves`, and `Return` follows the loop. Size is in
bytes, with small numbers.

### BTree
`cache` is `_cache`, shared; `ipc`, `stack`, `visited` are the generator's; `fpc`, `key`, `ref`,
`depth`, `path` belong to a running `_find`. One resumption of the generator is one action
(`YieldLeaf`, `YieldNode`, `RefusePage`, `Exhaust`); a lookup takes one per page (`Descend`,
`SearchLeaf`, `BelowFirstKey`, `RefuseLookup`). A lookup runs from call to answer before the
generator is resumed, as there is one thread. Keys need not be in order: the code does not check
it, and bisection is modelled step by step so that its answer on unsorted keys is the code's.

### FolderPaths
`pending`, `seen` and `current` are the generator's stack, `VisitedSet` and last folder;
`yielded` is what it has handed out (a history). `gpc` is "next" at the top of the loop and
"expand" after the `yield`. Each action is one way through the loop. `SubfoldersError` is
`list(folder.subfolders())`: the table is read, its rows counted and every child opened before
any of them is used. A display name is a sequence of pieces between slashes; a path element is a
name with its slashes replaced, or the node identifier.

### Export
`epc` is where the consumer is: "walk" (asks the generator), "folder" (was handed one), "walked",
"write" (next folder), "message", "finished", "refused". `Generate` is a step of the
generator. In the command `Select`, `PassOver` and `RefuseContents` are `_select`; `List` and
`OpenOutput` what `main` does next. A library call takes each folder with `Take`. One folder is
`SkipFolder`, or `OpenFolder`, then `WriteMessage` or `SkipMessage` per message, then
`FinishFolder`; `Finish` is the end of the run. `RaiseFirst`, `RaiseMessage`, `RefuseContents`
and `RefuseSelection` end a run; `Escape` ends it as "escaped", with an error that is no `PstError`. `files` is the destination, `before` what an earlier run left
there. A message either converts, cannot be opened, cannot be converted, or makes its conversion or its writing
end with another error.

### Heap
`maps` is `_page_maps`, `itemsSeen` the count `_items_seen`; `PageView` is what reading one page gives,
`Touch` what it leaves in the shared state: the page map kept, or the count raised although the
map was refused. Iteration goes level by level (`ReadIndexPage`, `NextLevel`, `ReadLeafPage`),
and a lookup down one path (`Descend`, `SearchLeaf`, `FindRefuses`). Which bytes an item holds
is abstracted to what they parse to as index and as leaf records: the level of a page, and
nothing in it, decides which is read.

### TableContext
`matrix`, `starts` and `indexed` are `_matrix` with `_counts`, `_starts` and `_row_index`; `asked`
and `cpc` belong to the running call, `gpc`, `at` and `out` to the generator `rows()`. A call
(`AskRow`, `FindRow`, `AskCount`, `AskNext`) that needs a matrix reads it (`RefuseMatrix`, or
`StartSums`, an `AppendStart` per block, and `RefuseSums` or `KeepMatrix`) and is then answered. Offsets
and lengths are the code's, in bytes; a row is a set of existence bits and what decoding each
cell would give.

### Eml
`frames` is the stack of running `_assemble` calls, each with what it has made of its message so
far: `root` is what the message itself is as MIME (the `email` package changes it in place as
parts are added), `inline`, `attached` and `skipped` the rows of the attachment table by what
became of them. Headers and bodies are one step each (`WriteHeaders`, `WriteBodies`), as nothing comes
between; an attachment is one (`Skip`, `AttachInline`, `AttachData`), or a call of `_assemble`
(`Enter`) and its end (`Leave`). `RefuseHeaders`, `RefuseBodies`, `RefuseAttachment` and `RefuseParts` end the
run, because nothing on the way up catches a refusal. `EmbedRefusal` looks at the depth twice, at the
call's ceiling and at the store's, in the code's order. The `email` package is modelled by which
texts it refuses as a header and which changes of a message's MIME type it refuses.

A Message-ID is a local part and a domain; a local part is a text and the NIDs that were put behind it,
each as `.%08x`. A file chooses the ids that come with its messages (`ids`), empty local parts, equal ones under two domains, and
ones that look as if made here included. `LocalPart` is `_message_id_local_part`: the domain is
dropped, and an empty local part becomes `pypstreader`. `InventedLocal` and `ChildPrefix` are what is made from
it for the messages below.

### Content
In `Content` the state is that of `Eml` and `Rtf` together. For a message in `Followed`, reading its bodies
(`_bodies`) stops after the plain text and runs the decoder (`Decompress`, the steps of `Rtf`) before `Eml` goes on; `Document` is
the cut at the first NUL that `body_rtf_decompressed` makes. Elsewhere the file says what decoding gives. The
decoder is followed for the message that `to_eml` is called with, where the value is met first: each embedded
message would run it again, with the same outcome.

### Disk
`disk` is the file, `position` that of the file object, `header` the header it was opened with and
`answer` the last call and its answer. Each action is one call: `ReadHeader`, `ReadPage`,
`ReadDensityList`, `ReadBlock` (`read_data_tree` and `read_subnode_block`), and `MoveFile`, what a
caller may do with its file between two. `Sought` is the seek in front of each read, and
what is read is what is found at the place it gives. `Header`, `BTreePage`, `DensityListPage`, `DataBlock`, `XBlock`
and `SubnodeBlock` give a parse or the refusal, from the same checks as `Header.parse`,
`BTreePage.parse`, `_verify_data_block` and `_verify_tree_block`. A length is counted in fields: one
field of a page is one number, whatever its bytes, and only a data block's fields are bytes. So sizes are
not the program's, but their sums are: the trailer of a tree block is where the code computes it.
`BTree` and `BlockReader` start from what these parse to.

### PropTypes, PropContext, NamedProps, Store
`decode` takes the bytes of a value and its type; a byte has `ByteBase` values, and counts, offsets and
signs are as wide as that makes them (`Numbers`). `encode` is what a writer does, and `Values` what there is to write;
they serve the property only. A
context is a record of the file: how reading its heap and BTH ends, its records in order, and its
items; `Records`, `Value` and `Keep` are reading it whole, reading one value, and keeping only what
did not refuse. `Given` is how an exception propagates: the rest of an expression is evaluated
only of a value that is not a refusal. `NamedProps` has the built parts (`records`, `guids`, `entries`, `byPropId`,
`byName`) in one record per object, and `Tried` and its uses say which of them a call builds on its way.
`Store` is a session: `handle` is the file ("new", "open", "closed"), `objects` what the caller holds,
`kept` what each object keeps, `iteration` a suspended `__iter__`, `answer` the last call with its
answer. `OpenStore`, `Close`, `OpenObject`, `Read`, `Iterate` and `Next` are its actions; `Answers` gives
the answer of a call from the file, what is kept and whether the file is open, and `KeptBy` what it leaves.

### Rtf
`dictionary`, `write`, `end`, `output`, `pos` and `read` are the locals of `_decompress_lzfu`, `left` is
what is left of its inner `for`. A token is an action (`Literal`, `Reference`, `Terminate`), and
so is each byte of a copy (`CopyByte`). The end of the payload in a control byte, a literal or
half a reference has one outcome in the code, so the stream is a sequence of tokens that may end.

## 3. What is checked

Twelve runs, eight that pass and four that show a disagreement; each passing one has a mutant for each of its properties, a changed definition that
violates it under the run's own configuration.

| run | instance | bounds |
|---|---|---|
| `block_walks` | 3 internal and 2 data blocks, about 9,700 calls over both walks | depth 2, allocation 4, items 3 |
| `btree` | 5 pages, 5 keys, about 1,700 trees | depth 2, items 4 |
| `export` | 5 folders, 2 messages; about 7,400 hierarchies without messages, cyclic and refusing ones included; and 8 forms of run over trees with messages; strict or not; about 790,000 states | depth 2, folders 4, messages 2 |
| `heap` | heaps of up to 2 blocks, BTHs of up to 3 levels: sorted, unsorted, cyclic, with freed and missing items | depth 2, items 5, items of a heap 7 |
| `table` | 25 schemas, 10 shapes of matrix of up to 3 blocks, 6 row indexes | items 4, allocation 52 bytes |
| `content` | 4 messages that carry each other or themselves, 17 kinds of attachment, 64 pairs of given ids; RTF: all streams of up to 4 tokens, and each header; about 520,000 states | depth 2 for the store and 1 or 3 for the call, attachments 3, allocation 2; a ring of 4 bytes, references of 2 to 4 bytes, output 6 |
| `properties` | a store, a map, a folder, a message and an attachment, each with contexts of up to 7 records of every type; about 66,000 states | bytes of 4 values, items in a value 3, items in a stream 3, records 7 |
| `disk` | about 1,190 files: 27 headers, 8 pages a writer makes and what is not one, lists, blocks with the 3 encodings, each with one field changed, each length of the file | bytes of 4 values, 9 fields of entries, blocks of 24, file of 110 |

**Why the bounds are enough.** The limits are the code's own ceilings, made small, and each
instance has inputs on both sides of each: trees of the depth allowed and one deeper, sums equal
to and one above the allocation, as many items as allowed and one more. A graph of three
internal blocks has every shape that matters to a guard: a self-reference, a cycle through an ancestor, one
block named twice by one parent and by two. A ring of four
bytes is overwritten by two references, and an overlap, a wrap and both at once are reached. The
schemas include the least and most that validation accepts at each region. A byte of
four values makes a count of two bytes at most 15, so that every count, offset and sign reaches both
ends of its range; a value of every type is in a record, in the heap and in a sub-node. In `disk` every field of
each structure is changed once, and the file is cut at every length. In `properties` a caller holds one object
of each kind and numbers 1 to 4 are asked for, which every context has or lacks. No
counter of a walk is cut off by the model: every walk ends because of the limits, which is itself a
property. Only the count of items of a heap, which the code lets grow at every retry,
stops at `CountBound`, above the ceiling, where it makes no more difference.

**What the properties say.**
- `MatchesTree`, `ReadersExact` (of `BTree` and of `Heap`), `WalkMatchesTree` compare a loop, with its
  stack and guards, with a reference computed recursively from the file: exactly the inputs within
  the limits are accepted, and exactly their content is returned. `ReadersExact` says that of
  iterations, and of lookups that no cache, guard or suspended iteration changes an answer and
  that bisection is exact in a search tree; in `Heap` only the count of items may refuse more.
  `WalkMatchesTree` adds that paths nest: a folder's path is its parent's and one element.
- `WorkBounded` (two modules): whatever the file says, bytes, blocks, entries and pages stay
  within the limits.
- `IterationVouches` (two modules): a lookup is never refused in a tree that an iteration has read to its end.
- `OutputIsDue`, `FilesAccounted`, `VerdictMatchesStore`: files, index, summary and exit agree with
  what the folders covered hold, in strict and lenient runs and at every point where one may stop. The
  folders covered are those the walk handed out: of the others the summary says nothing, which is what
  `SkipsNeverSilent` and its run are about. A strict run that is refused leaves the prefix it has written; `OutputIsDue`
  accepts that, as the code does.
- `SelectionIsSound`: a prefix test on paths selects subtrees, and a selection that fails touches nothing.
- `ImplementsTraversal` (three modules): refinement of `Traversal`.
- `HeapTypeOK`: the count of items is that of the maps kept, plus what refused ones added.
- `RowsWithinBlocks`, `AnswersFromFile`: each row is whole and in its block, and in whatever
  order calls read matrix and index, and whoever was refused before, answers are the file's. Of a table whose
  rows have no width that answer is the error that `OnlyPstErrors` is about.
- `AttachmentsOnce`, `VerdictMatchesMessage`: an `.eml` has each attachment of each of its messages
  once, in the order of the table and as what it is; a message is refused exactly if something in it, or in
  what it carries down to the allowed depth, refuses, and then for the first such reason.
  `IdsTellApart`: the ids of one `.eml` tell its messages apart, the invented ones too although NIDs come
  again at other depths; provided that messages carried by one message have different NIDs (`SiblingsDiffer`),
  and that the ids that came with messages have different local parts, none of which looks like one made
  here (`GivenTellApart`). The instance has files that meet the provisos and files that do not.
- `RtfIsDecoded`: a message converts only once its RTF value is decompressed to the end, has an RTF body
  exactly if a document is left before the first NUL, and is refused as the decoder was.
- `AnswersAreFiles`: whatever was read, refused or kept before, a call answers what the first call on
  a new object would, and after `close` either that or `ValueError`, the latter only for what is not in memory.
  `StoreTypeOK`: nothing that refused, and nothing of an earlier object, is ever kept.
- `ReadsWhatWasWritten`: a value is the one a writer encoded, by number and by each accessor, and
  whatever bytes are accepted are those of the value answered. `NamesAgree`: what `resolve` finds for a name,
  `lookup` knows as that name. `BucketsHoldEntries`: an entry is in the bucket its hash names.
- `StoredIsRead`: what a writer stored is read as it was meant, wherever an earlier call or the caller
  left the file (a read without its seek breaks it); if something that a checksum or a second copy protects was changed, it is
  refused and never read as another value. `AcceptedLiesInside`: entries, data and trailer that were
  accepted lie in what was read, apart from each other.
- `RingIsHistory`, `DecodesTokens`: the ring is the end of an unbounded text, and the decoder
  gives what one without a ring gives.
- `Terminates`, `WalksEnd`, `RunEnds`: everything ends; `RunEnds` covers the folder walk that the
  exports draw from.

`CHECK_DEADLOCK FALSE` is set where the program really stops: a call that returned or
was refused, or a table that did not open. In `BTree` the next lookup can always start, and deadlock
is checked.

**Fairness.** Each loop is a plain loop of one thread, so its next step is weakly fair
(`WF_vars(Next)`, and `WF` of `LookupStep`). In `BTree` the generator can be resumed only while
no lookup runs, so `Resume` is disabled again and again by lookups of its consumer; strong
fairness says that a consumer that wants all pages eventually asks for the next one. Each consumer in
the code is a `for` loop, which does. `StoreSpec` and `DiskSpec` have no fairness: nobody has to make
another call, and each call is one step.

**Where the documentation says otherwise.** Four runs show a disagreement between the code and
what the repository says of it, and expect a violation:
- `traceback`: "Nothing but `PstError` and `OSError` may reach the user" (`pypstreader.py:36-38`), and
  `mbox.py:145` and `eml.py:509` say the same of the library. The model has three ways to another
  error, each of which ends a lenient export that should skip one message. `box.add` encodes the From_ line as ASCII,
  and `_from_line` puts a sender's address there as it is (`mbox.py:214`): a `UnicodeEncodeError`. A folder's path with
  U+0085, U+2028 or U+2029 inside becomes a header that the `email` package refuses
  (`mbox.py:149`): a `ValueError`. `to_eml` walks the characters of a text for an attachment whose MIME type
  is some multipart (`eml.py:641`), a `TypeError`, and puts the name of a by-reference attachment with such a
  line separator into a header outside `_guard` (`eml.py:569`), a `ValueError`. Defects of the code.
- `inline_after_attachment`: with HTML as the only body, an ordinary attachment before one that the
  HTML refers to turns the body part itself into multipart/mixed, which cannot take a related
  part (`eml.py:577`): the message is refused as if the file were at fault. A defect of the code.
- `silent_skips`: "the skips are never silent", says `pypstreader.py:31-33`, and that the summary has "how many
  folders refused outright". In a walk that is not strict, one child that does not open makes its parent a leaf:
  it, its readable siblings and all below them are not exported (`SkipChildren`, `eml.py:723-728`), and so it is with a
  hierarchy table that refuses or is too long. The summary counts only contents tables that refuse among
  folders the walk hands out (`pypstreader.py:169-170`), and is then 0 and 0. `export_folder` also says (lines 777-779) that one
  unreadable folder among fifty does not keep the others from being exported.
- `zero_width`: a schema without columns whose four ends are 0 is accepted, and counting the rows of a block divides by
  their width (`ltp/table_context.py:561`): a `ZeroDivisionError`, while the module says (line
  104) that nothing but `PstError` escapes. A defect of the code.

Further disagreements, seen while modelling and not given a run:
- `eml.py:344-346` says that an embedded message's invented id is unique. Its prefix is the carrier's local part
  alone (`eml.py:387-390`): below carriers `<1@a>` and `<1@b>`, or `<@a>` and `<pypstreader@b>`, messages with equal
  sub-node ids get one id, and so do messages that two attachments of one message carry, each in a tree of its own, if their
  sub-node ids are equal. `GivenTellApart` and `SiblingsDiffer` keep such files out of `IdsTellApart`; without the
  first the run `content` violates it;
- `_int32` accepts Integer16, Integer64, Currency and ErrorCode values for what its callers document as
  Integer32 properties;
- `_filetime` reads a time that lies in a sub-node, which `prop_context.py:55-60` says is a `PstFormatError`
  for a value of fixed size: `delivery_time` answers where `get(0x0E06)` refuses;
- after `close`, what is not in memory ends with the file object's `ValueError`, while `errors.py:9` has every
  public entry point raise a `PstError`;
- `block_sig.py:8-11` says that a signature catches a misdirected read; it is deliberately not compared
  (`ndb/block.py`), nor is the id in a trailer, and under the cyclic encoding that id is the key: a
  reference to another valid block of the same size is read as if it were the right one;
- a value that is one data block is returned without a look at `max_allocation`
  (`ndb/block.py:459`), while `Attachment.data` documents that a larger value is refused; it matters
  only with a ceiling below one block's size;
- `TableContextInfo._validate` accepts a heap-node or 8-byte column in the first eight bytes of a row,
  and `_check_offset`, documented as redundant after it, refuses the cell
  (`ltp/table_context.py:627`);
- a strict export replaces the earlier output and leaves a partial one when a message refuses
  (`pypstreader.py:195`), while `--strict` is for a caller "who would rather have nothing";
- `to_eml` with `synthesize_missing=False` "writes only what the file itself says", but headers
  of an embedded message are always made (`eml.py:609`).

## 4. What is proved

TLAPS checks these for every file (every finite set of blocks, pages, folders), every operation and every
positive limit. The assumptions are the named `ASSUME`s of the modules: finite node sets,
well-typed inputs, limits that are positive, as `Limits.__post_init__` enforces, and a `--folder` argument
that has a piece, as every string split at a slash has. `WrittenAssumption` is what it means that a writer
meant something: a file may say of a context which values it was to have (`meant`) and what its subject was to be
(`said`), and then each is stored where [MS-PST] has it stored, encoded as `encode` does; a map it calls `hashed` has
its NAMEIDs copied to the buckets [MS-PST] 2.4.7.5 has them in (`IsHashed`). A file that says nothing is any file. TLC evaluates them in each run.

| theorem | says |
|---|---|
| `NdbProofs!TypeCorrect`, `BTreeProofs!TypeCorrect`, `ExportProofs!WalkTypeCorrect` | the type invariants; they carry content: the cache holds only intermediate pages that parse, a folder in `seen` was opened |
| `NdbProofs!WorkIsBounded`, `BTreeProofs!WorkIsBounded` | the work bounds |
| `NdbProofs!WalkImplementsTraversal`, `BTreeProofs!IterationImplementsTraversal`, `ExportProofs!WalkImplementsTraversal`, `ExportProofs!ExportImplementsTraversal` | the walks refine `Traversal`; the folder walk under any export too |
| `BTreeProofs!FinishedIterationVouches` | after a complete iteration no lookup is refused |
| `NdbProofs!WalksMatchTrees` | `MatchesTree`: a walk that ends well was in a tree within every limit and hands out exactly what it holds, in tree order; a refusal has its reason in the tree |
| `BTreeProofs!ReadersAreExact` | `ReadersExact`: a lookup answers what the file alone gives, in an accepted search tree for exactly the keys an iteration hands out; an iteration hands out all keys in tree order, or is refused for a reason in the file |
| `ContentProofs!RtfTypeCorrect` | output within the ceiling at every byte, inside a reference too |
| `ContentProofs!RingKeepsHistory` | the ring is the end of the text, for a ring of every size |
| `ContentProofs!RtfDecodesTokens` | `DecodesTokens`: the bytes, and how the stream ends, are those of a decoder that keeps all its text and counts distances |
| `TableContextProofs!TableTypeCorrect` | a matrix is kept whole and within the ceiling, or not at all |
| `TableContextProofs!RowsLieWithinBlocks` | the row read is whole and in the block that bisection chose |
| `TableContextProofs!AnswersAreOfTheFile` | `AnswersFromFile`: every row, found row, number of rows and refusal is the file's, and `rows()` hands out all rows in order, for every order of calls |
| `ContentProofs!EmlTypeCorrect` | the running `_assemble` calls belong together, and none is deeper than the call and the store allow |
| `ContentProofs!AttachmentsAreOnce` | each attachment of each message in an `.eml` is there once, as what it is, in the order of its table |
| `ContentProofs!IdsAlwaysTellApart` | `IdsTellApart`: where siblings have different NIDs and given ids different local parts, not made here, equal ids belong to one message, at any depth |
| `ContentProofs!ContentImplements` | a behaviour of `Content` is one of `Eml` and one of `Rtf`, so what is proved of each holds of the two together |
| `ContentProofs!VerdictIsRight` | `VerdictMatchesMessage`: `to_eml` converts if and only if nothing carried refuses, and else refuses for the first reason |
| `NdbProofs!CyclicUndoesItself` | the cyclic transform is its own inverse, for every alphabet, tables, data and key |
| `NdbProofs!BlockSizeHoldsBlock` | an allocation is a multiple of the alignment, holds data and trailer, and wastes less than one alignment |
| `NdbProofs!StoredDataIsRead`, `NdbProofs!StoredTreeIsRead` | a block that is where and as a writer leaves it (`IsWrittenAs`) is accepted, and read as the data that was encoded under its id, or as the ids put in it |
| `NdbProofs!AcceptedLies` | what is interpreted of a page or a block lies in what was read, for every file |
| `ExportProofs!CommandSelectsFirst` | a file is touched only after the whole walk succeeded and the selection is sound |
| `ExportProofs!ExportTypeCorrect` | the types of an export: counters and files agree in shape, only `folders.txt` holds lines |
| `ExportProofs!OutputCorrect` | `OutputIsDue`: at every point each file holds what the folders covered so far make due, whatever was skipped, refused or there before |
| `ExportProofs!WalkFollowsTree` | `WalkMatchesTree`: a walk has handed out a beginning of the pre-order of the tree, each folder with the path that nests in its parent's; it ends well with all of it, and refuses only for something in it |
| `ExportProofs!SelectionCorrect` | `SelectionIsSound`: `--folder` selects whole subtrees, and a selection that fails touches nothing |
| `ExportProofs!VerdictCorrect` | `VerdictMatchesStore`: a strict run that ends well has dropped nothing; a refused or escaped one met the reason in the store |
| `ExportProofs!ReportIsTrue` | `FilesAccounted`: the lines of `folders.txt` and the numbers of the summary are what the files hold and what the folders handed out are worth |
| `HeapProofs!HeapTypeCorrect` | the count of items is that of the page maps kept and of the refused reads; a map is kept whole or not at all |
| `HeapProofs!IterationIsComplete` | reading level by level gives the records of the whole tree in its pre-order, or refuses for a reason in the file or in the count |
| `HeapProofs!HeapReadersAreExact` | `ReadersExact`: items, the value under a key and all records are what the file holds, for every interleaving of the three readers |
| `HeapProofs!FinishedIterationVouches` | after a complete BTH iteration only the count of items may refuse a lookup |
| `StoreProofs!StoreTypeCorrect` | nothing that refused, and nothing of an earlier object, is ever kept |
| `StoreProofs!AnswersFresh` | `AnswersAreFiles`: every accessor answers what the first call on a new object would, for every session of calls, before and after `close` |
| `StoreProofs!RoundTrip`, `StoreProofs!DecodedIsValue` | `decode` gives back every value of every type from what `encode` makes of it; and of any bytes it gives a value of their type or refuses |
| `StoreProofs!ReadsBack` | `ReadsWhatWasWritten`: by number and by each accessor a value is the one a writer encoded, for every session of calls |
| `StoreProofs!BucketsAlwaysHold` | `BucketsHoldEntries`: the bucket read for an entry holds it, for every map a writer hashed and every session of calls |
| `StoreProofs!NamesAgreeAlways` | the two indexes of named properties agree, for every map of names |

**How the proofs go.** The types are inductive as they stand, apart from `FolderPaths`, which
needs `OpenedInv` (what is pending was opened).

*Work bounds* need the state a call starts from (`WorkInv`); the step is that a guard that passes
adds one element to a set that is not full.

*Refinement* rests on `FrontierInv`: what was visited or is on the stack is reachable, and every
edge out of a visited node leads to one that is visited or on the stack. When the stack is empty
the visited set is closed, so it contains `Reachable`, the least closed set. Popping and pushing
is in `DataLemmas`, about the set of members of a stack. The folder walk has a state between
handing out a folder and listing its children; there the frontier excepts that folder's edges.

*IterationVouches* needs more than the visited set: a lookup is refused by depth too. `VouchInv`
says that there is a level function `L` on the visited pages, at most the depth limit, one more
for each child than for its parent; a page has one parent in an accepted tree, so `L` is well defined and
a running lookup stands at a visited page, at the depth `L` gives, with a path of pages of lower level.

*MatchesTree* cuts the unfolded tree in two: what was read (`ReadWell`, `Collected`) and what the entries of the
stack stand for. Reading a block moves its occurrence from one part to the other and puts its children in
front, which is the equation of the unfolding; what it carries is added to what the parts, the bytes and
the entries are. The visited set is the guarded blocks of the part read, each there once, so a refusal is
about the next occurrence, or about a total that the part read already exceeds and the whole tree too
(totals only grow along it). The dictionary of sub-nodes holds the first entry that names each node.

*ReadersExact* (of `BTree`) compares two loops with recursions over the levels that are left. For a lookup, `LookupInv`
says that each page it has read leads the key to the next one, and that what the page at hand gives, with the
levels left, is what the root gives; when `_child` refuses a page that was read before, the key goes in a circle,
and the reference then refuses at every level (`CircleRefused`). For an iteration, `IterInv` splits the unfolded
tree (`Below`) into what was handed out and what the entries of the stack stand for, from top to bottom; what was
handed out is within the limits and without repetition, so a refusal is about the next page. That a lookup finds
the keys that are listed (`SearchIsExact`) goes up the levels: bisection is a recursion on its bounds, ends
after the last key that is not above the one sought, and in a search tree no other child can hold it.

*Export*: a consumer leaves the generator's variables alone except through the generator's own
steps (`ConsumerWalks`), so what was proved of the walk holds under every export. `SelectionInv`
adds that nothing is written while the command selects.

*Rtf* works with distances: `Back(k)` is the offset `k` bytes before the write offset. Emitting a
byte moves each distance by one, and the byte at the full distance is the one overwritten; so the
invariant is inductive with the type, and no division appears beyond one wrap. For `DecodesTokens`,
an offset is a place of the text modulo the ring's size (`OffsetsHold`), so the last place a reference's
offset names is the byte that many places back. The decoder runs beside the reference a token at a time
(`DecodeInv`); within a copy it is some bytes into what the reference copies at once (`Copying`), and a
verdict, once given, stays (`VerdictStays`).

*TableContext*: `StartsInv` says that each start is the one before it plus the rows of its block.
It grows with each `AppendStart`, is kept by `KeepMatrix`, and makes the starts ascend; where
starts are equal, the last of them is the one bisection takes, and its block holds the row. For the answers,
the rows of all blocks before block `b` are the first rows of the file, as many as the start of `b` says (by the
least counterexample, over `FlattenSeq`), so the row read there is the file's row of that number. `FileInv` adds
that what is kept was accepted, that a running `find_row` has an index that names the row, and that `rows()` has
handed out a beginning of the file's rows.

*Eml*: `EmlInv` says that there is a set `U` of finished frames, each carrying only members of `U`, and that the
running frames are a chain: each was begun for the attachment that the one before it is at. `FrameOK` relates a
frame to its message: the rows taken so far are in one of three ascending lists, and the message is
multipart/mixed if one of them is a part, which is what the next attachment's refusal depends on. `Leave` adds a
frame to `U`. `Emls` is a recursion over the depth, so it stays inside `U` (`RecursionExists`), and
`AttachmentsOnce` holds of every member.

For `IdsTellApart`, take the shortest local part that two different messages have in equal ids. Neither is
given, as given ids differ and end in no NID; so both are invented and end with the messages' NIDs, which are
therefore equal. What is in front is the local part of the ids of their carriers, shorter by one, so that the carriers are one message by the
choice; or it is the text that ids made here begin with, so that one is the outermost message, or both are carried by it, and
it has no id. Children of one carrier have different NIDs.

`VerdictMatchesMessage` needs `VerdictInv`: no frame has
met a trouble of the reference in the rows it took. A refusal of the newest frame is then the first trouble of the row
its carrier is at, and so of every frame down to the first; a frame that ends has none.

*Disk*: an answer is refused, is a header or a list, or is a page or block that passed its checks; so the
invariant needs only that the file is one of the files, whose fields are naturals. That entries fit is a
product bounded by a quotient (`Quotient`, `ProductGrows`); that the trailer follows the data is
`BlockSizeHoldsBlock` for the implied size, and that it lies in the allocation is the code's check.
The cyclic transform is undone step by step, from byte arithmetic that wraps and tables that undo each other;
with the trailer found where its writer put it, a block of data comes back whole (`CodedIsUndone`).

*Heap*: `HeapInv` is the types, an account that the count of items is the sum over the page maps kept
plus what refused reads added (a sum over a set grows by what is added: `SumAdds`), and what a running
iteration or lookup stands at. For vouching, as in `BTree`, a level function on the visited pages; each was
parsed and its map kept, its children are visited or pending, and a lookup stays among them.
`ReadersExact` joins three arguments. A lookup is the reference's descent: `LookInv` keeps the path it came by
(`Leads`), and each answer is one of the ways a path ends (`Ends`). An iteration goes level by level, the reference
in pre-order: `IterInv` says that the pre-order of the whole tree is that of the row being read and of the row
below, with the pages already read left out, each in its place; a step down a level moves those cuts and
keeps the order. And a lookup in a sorted tree stays where the first record under its key is: of the children of a page,
only the one bisection chooses can hold it (`GoesRight`), and a tree in which a page has one place only is one a
lookup's guard never refuses (`OnePlace`).

*Store*: `Kept` is the strengthening: whatever an object has in memory is what reading the file afresh gives.
It is inductive, and an answer is settled by the file and what is kept, so each answer is the
fresh one (`AnswersFresh`). `NamesAgree` needs that the two indexes are one sorted list, cut two ways:
`InIdOrder` says that sorting keeps the members and their order is that of the ids.

*ReadsWhatWasWritten* adds to that the codec, type by type. A number and its digits determine each other
(`BytesReadBack`, `BytesOfNumber`: induction on a sequence, as a set of its beginnings). Joined parts lie where the sizes before
them add up to (`PartsLie`), so a table of offsets cuts a tuple where `encode` joined it, and what `Slices` does not refuse
was joined that way (`SlicesWritten`, `SlicesRead`). Text ends at the first unit that is zero (`EndIs`).
`RoundTrip` and `DecodedIsValue` put the types together; a value that is answered is then one of its type whose own encoding is
read as that value.

*BucketsHoldEntries* then reads the streams of the map back: an entry is the fields of a NAMEID (`NameIdIs`), what
the code hashes of it is what the writer hashed of that NAMEID (`EntryIsHashed`: the guid's number and the flag of a
string make up one field, and a string is hashed by its bytes), and the bucket of that hash has a copy (`BucketHolds`).

*OutputIsDue*: `OutputInv` says what a file holds followed by what is still to come is what is due: a
schedule of the folders and messages left, and one invariant for each format. What is due is
defined with folds (`FlattenSeq`, a map of sequences, a filter), so the steps need how these split at
a head or grow at an end. `DataLemmas` proves that from their definitions without an induction theorem: a recursive
function that satisfies its equations exists and is unique, by the least counterexample.

*WalkMatchesTree* compares a loop with a recursion over levels (`Preorder`). Its invariant cuts the whole
pre-order in three: what was handed out, what hangs below the folder at hand, and what the entries of the
stack stand for, from top to bottom; expanding a folder replaces one entry by its children, which is the equation
of the recursion. While the walk can still refuse, the invariant says so of the part to come.

*SelectionIsSound* then needs that every child was placed under its parent's path, in a walk whose folders are all
different. The proof found the first statement of it to be false: in a lenient walk a folder with
one child that does not open is a leaf, so its other children are not handed out, and the property must speak of
the children that are walked. TLC confirmed that once the instance had such a folder.

*VerdictMatchesStore*: of the folders left behind, each one's messages were written or, in a lenient run, skipped
(`HandledInv`); `EndInv` relates how a run ended to what it stood at.

*FilesAccounted*: `LedgerInv` says that the folders covered are those left behind and those left, and that the
index and the count are the lines and the worth of the former; `CountInv`, that the count of the folder at hand and what
still converts in it are what it is worth; `FilesCounted`, that the records of the mbox are as many as were counted and
the `.eml` files no more (two messages may have one name). The summary's sums are
over sequences, which `DataLemmas` grows at the end (`TotalAppend`).

**Only model-checked.** Liveness (out of TLAPS's reach here), and `StoredIsRead`: it compares what is read with
what a writer meant also when the file was changed, for the changes the instance lists and a checksum that sees
each of them, which an assumption on every file and every change could only restate. Of its cases, a block of data
and a block of block ids that nobody changed are proved (`StoredDataIsRead`, `StoredTreeIsRead`); they are facts about
the reader's operators, not about its runs.

## 5. What is not modelled

- *Bytes*: how a CRC is computed (a constant of `Disk`, under which a changed field gives another sum) and
  signatures, which nothing compares; the width of a field of a page or block other than data.
- *The file system*: errors of the operating system; an output path that is the input store, which the
  command would unlink (`pypstreader.py:194`): nothing the repository says is about it.
- *Rows of the recipient table*, and the data of an attachment as a value, are read only as far as `Eml` needs
  them: whether they refuse.
- *A heap from a node*: `HNID`s that name sub-nodes are, in `PropContext`, values that a sub-node has
  or refuses; how `Heap` finds one is not composed with `BlockReader`.
- `Limits.__post_init__`: every model assumes the positive ceilings it enforces.
- *MIME boundaries* and the bytes of an `.eml`, which follow from the message that was built.
- *The command line*: argument parsing and message texts. The wording of the summary is left out; its numbers are
  `Tally`.
- *Debug dumpers*: formatting over the modelled walks.
- `FolderPaths` and `BTree` take a table or page as parsed; that two readings of one page agree
  holds because the file is not written.

## 6. The plan

Done, in the order of importance: `BlockReader`, `BTree`, `FolderPaths`, `Export`, `Heap`, `Rtf`,
`TableContext`, `Eml`, then the property contexts, named properties and the store that composes them,
the errors that escape an export, the bytes below it all (`Disk`), and `Content`, with the theorems above. What is left:

1. `Heap` from a node, and HNIDs that name sub-nodes: a composition with `BlockReader`.
2. The recipient table's rows, and an output that is the input.

Modules that are composed share a run: the folder walk is checked in `export`, where its consumers are, and the decoder in
`content`. A later module joins one of these, and its properties take the place of those that say least.
