# SQLyt, modelled and checked

SQLyt is a small SQL database in C: one process, one thread of statements, one
file and one write-ahead log per database, one B+ tree per table. This directory
holds TLA+ models of it, from the lines a user types to the writes of its pages,
the TLC configurations that check them, and TLAPS proofs about all of them. Line
numbers refer to `src/src/*.c`, `src/include/sqlyt.h`, `src/README.md` and
`src/tests/test_main.py`.

## 1. The system

| Component | State | Operations | Used by |
|---|---|---|---|
| Pager (`pager.c`, `get_page` and `mark_page_dirty` of `btree.c`) | database file, log file, page cache, map of pages to frames, dirty flags, `num_pages`, `file_length` | `db_open`, `get_page`, `mark_page_dirty`, `pager_commit_transaction_sync`, `background_checkpoint_task`, `db_close` | everything else |
| Free list and page allocation (`pager.c` 403-462, `parser.c` 445-459) | `free_page_head` and links in the free pages, `num_pages`, `next_root_page` | `get_unused_page_num`, `pager_free_page`, `allocate_next_root_page` | B+ tree, catalog |
| B+ tree (`btree.c`) | nodes in pages: cells, children, keys, parents, chain of leaves | find, scan, insert with splits, delete with borrow, merge, collapse | statements, catalog |
| Catalog (`parser.c`, `cli.c`) | the tree in page 1: root page, name, schema of each table | create, find, drop a table | statements |
| Statements (`cli.c`) | the rows and planned keys of an insert | insert, select, update, delete, and the commit in `execute_sql` | session |
| Session (`cli.c`, `app.c`) | databases and their directories, the one in use, `in_transaction` | create database, `.begin`, `.commit`, `.usedatabase`, `.exit` | user |
| SQL text and row layout (`parser.c`, `btree.c` 140-193) | none | line to statement, values to bytes and back, schema to text and back | statements |
| Line editing (`readline_runtime.c`), benchmark, tests | none of interest | | |

A line is parsed into a statement; the statement finds its table in the catalog,
calls the tree, and the tree changes cached pages and marks them dirty;
`execute_sql` then commits, unless a transaction is open: the dirty pages go to the
log, frame by frame, the last one with the commit mark. A log that has reached
`WAL_CHECKPOINT_THRESHOLD` frames is copied into the file and emptied, on the same
thread despite the name `background_checkpoint_task`. Opening a database drops the
frames behind the last commit mark and maps the others. There is no concurrency:
the mutex never makes anyone wait. What is hard is

* a process that ends between two system calls, and what the next one finds;
* three places a page can be in (cache, log, file), with a map, a length and a
  page count that say which, each updated at another time;
* the tree's long sequences of local repairs, each trusting pointers and keys the
  previous ones left, and each marking its own pages dirty;
* three sources of pages (root counter, free list, end of the file) that count
  separately, for trees of several tables;
* an insert that computes its keys twice, on 32 bits, and must do it the same way;
* a transaction flag that belongs to the process while commits belong to databases;
* values that pass through three parsers, a layout computed anew at each statement,
  and updates of single columns, before a select shows them.

`PROJECT.json` lists these hazards line by line with the properties that look for
them.

What makes each component correct:

* Pager: commits are atomic and durable; a miss reads what was committed; a
  checkpoint and a crash at any point change nothing; the log stays short.
* Page allocation and catalog: no page has two owners; a new root is nobody's.
* B+ tree: it answers like a set of rows; keys and parents are exact; leaves stay
  half full; everything changed is marked.
* Statements: an insert of several rows happens whole or not at all, with the ids
  it should have; what is refused leaves nothing behind.
* Session: what is accepted stays, in the database it was meant for; a transaction
  survives as a whole or not at all.
* SQL text: a select shows what the statements meant.

## 2. Modules

| Module | What it is |
|---|---|
| `PageStore` | abstract: an image of pages that changes only by whole commits |
| `Pager`, `PagerProperties`, `PagerProofs`, `MCPager` | the pager, one step per system call |
| `RowTable` | abstract: a set of rows and the replies of statements on it |
| `BTree`, `BTreeProperties`, `BTreeLemmas`, `BTreeProofs`, `MCBTree` | the tree of one table, one step per statement |
| `PageOwners` | abstract: tables that share out the pages of a database |
| `Catalog`, `CatalogProperties`, `CatalogProofs`, `MCCatalog` | tables, root pages, free list and page count of one database |
| `AtomicRows` | abstract: a table on which each statement is one step |
| `Statements`, `StatementsProperties`, `StatementsProofs`, `MCStatements` | insert, update, delete, one step per row and pass |
| `Session`, `SessionProperties`, `SessionProofs`, `MCSession` | databases, transactions, openings and closings |
| `TypedTable` | abstract: typed columns whose rows show what statements meant |
| `SqlText`, `TextTable`, `TextTableProperties`, `TextTableProofs`, `MCTextTable` | from a line to the cells of a row and back |
| `Lemmas` | lemmas on sequences and iterations that no model owns |

`X` is the model, `XProperties` has its properties and its refinement mapping,
`XProofs` its theorems (`BTreeLemmas` what they need of single operators), `MCX` its
instances for TLC.

The modules form layers. Each abstract specification is what the layer above
takes for granted:

    TextTable => TypedTable      what lines mean
    Session => PageStore         one store per database
    Statements => AtomicRows     one step per statement
    Catalog => PageOwners        no page in two trees
    BTree => RowTable            a table as a set of rows
    Pager => PageStore           atomic, durable commits

`Statements` and `TextTable` work on a map from keys to rows, which `RowTable` says
the tree is; `BTree`, `Catalog` and `Session` take a commit for one step, which
`PageStore` says the pager makes it.

### Pager

`db`, `dbLen`, `torn` are the database file (page contents, number of whole pages,
whether a part of a page follows), `wal` and `tail` the log (whole frames, and a
frame header whose page is missing). The other variables have the names of the
`Pager` structure; `page_dirty` is the set of pages whose flag is set, and frames
are counted from 1 as in `page_to_wal_frame`. `pc`, `caller` and `next` say where
a commit or checkpoint is. A page's content is a model value: a valid header, a
node, a refused header, zeros, or a torn page.

| Action | Code |
|---|---|
| `DbOpenNew`, `DbOpenExisting`, `DbOpenRepair`, `DbOpenNoRootLeft`, `DbOpenCorrupt` | the outcomes of `db_open`; each contains the whole of `pager_open` (replay of the log) |
| `GetPage`, `Write`, `WriteUnmarked`, `ReusePage` | a miss; a change with its mark; a parent pointer changed without one; a page from the free list |
| `CommitStatement`, `DbClose`, `StartCommit` | who commits, and what is dirty then |
| `FlushHeader`, `FlushPage` | the two `write` calls of `pager_flush`, and what follows the last page |
| `CheckpointPage`, `CheckpointShortWrite`, `CheckpointTruncate` | one page copied; a short write, which exits; the log emptied |
| `Crash` | the process ends at any step, by `exit`, a signal, or the end of its input |

Statements may write any content into any page, in any order, so what is shown
holds for every client of the pager. Not modelled: the padding of a file whose
length is 24 bytes short (`pager.c` 36-40, an older format); a short write of a
log frame other than as a missing page behind a frame header; read errors; loss of
accepted writes in a power failure (the program never calls `fsync`).

### BTree

A store holds the nodes, the free list (`free_page_head`, `link`), `num_pages` and
the dirty flags. Every function of `btree.c` that changes pages is an operator from
store to store with the name it has in the code; a statement is one step, because
it runs from end to end on one thread and commits at once. `disk` is what its
commit has put into the log: only pages that were marked. Thus a page changed but
not marked differs between `store` and `disk`, and `Crash` (the next process reads
`disk`) shows it. `Reopen` is `db_close` followed by `db_open`; it marks every
cached page and loses nothing.

Abstracted: a row is its key, since every copy is of whole cells; the table is the
only one in its database; the header is page 0, the catalog page 1, the root page
2. `stale` is the key an emptied leaf still has in its first cell, which
`cursor_advance` may read. The binary searches are modelled step by step, because
the code runs them on keys that are not always in order. `Crash` supposes that the
next process gets `num_pages` right: the pages are in the file, or they are leaves,
all of which an insert reads (`find_table_max_key`). With a second table this
supposition is wrong in the code, which `Catalog` shows. `bounds` is no state of
the program: it names, once at the beginning, the rows a behaviour starts with and
the keys it inserts and deletes, so that one run covers several scopes.

The right child's key would be written by `update_internal_node_key` into a cell
that is not in use; the model leaves the node alone there.

What the code does by loops and by calling itself is written with functions on
`0 .. n`, of which each value is one step from the one before it: a search narrows
its range (`ChildPlace`, `leaf_node_find`), a descent goes from a page to a child
(`table_find`, `get_node_max_key`), children move one by one (`MoveKids`), and an
insert climbs from a full node to its parent (`InsertOnce`, `AfterSplit`). Each stays
where it is once it has ended, so that n needs only to be large enough: the number of
keys of a node, or of pages. A climb takes a page at each split, and ends with the
process when there is none (`Refused`).

### Catalog

A tree is the set of its pages; `holds` says whose content each page has, so that a
page given out twice is seen to have lost what its first owner wrote. `memory` is
what the pages of an open database say, `disk` what is committed of it,
`file_pages` the length of the file, which is less than what is committed while
pages are in the log only.

| Action | Code |
|---|---|
| `DbOpenNew`, `DbOpenExisting`, `DbOpenRepair`, `DbOpenRefused` | `db_open`: a new database; a header that is taken over; one that is rebuilt from the catalog, without the free list; none left, which exits |
| `CreateTable`, `DropTable` | the row in the catalog, `allocate_next_root_page` and `create_table_root`; a drop keeps its pages |
| `StartStatement`, `ReadTable` | a table is found; reading its pages may raise `num_pages` |
| `GetUnusedPage`, `FreePage` | one page taken or given back by the running statement, for its table or for the catalog |
| `EndStatement`, `Commit`, `DbClose`, `Crash` | the statement returns and commits; closing; a process that ends |

When a tree takes and frees pages is `BTree`'s matter: here it may at any time.

### Statements

`rows` is the table in memory, `stored` what is committed. An insert is one step to
start (`find_table_max_key`), one per row of the first pass (`PlanRow`,
`RefuseRow`), and one per row of the second (`InsertRow`), which starts again from
a `find_table_max_key` of its own. The process may end at each of them. A row is its
id, or null, and a value that stands for its other columns; `Wrong` and `Missing`
are rows the checks of types and lengths, or of the number of values, refuse.
`seen` is a history variable, for the proofs.

### Session

A statement that changes something is a number, a database the set of statements
whose effect it has. `disk` is what is committed of each, `filed` which of them have
pages in their file and not in the log alone, `cache` what the database in use has
in memory. `pc` follows `execute_sql` (executed, then commit) and `db_close`
(commit, checkpoint, open the next), so that a process can end between them.
`group` records in which database, opening and transaction a statement was executed.
`.quiet`, `.timer`, `.showtables` and `.showdatabases` only print.

### SqlText and TextTable

A line is a sequence of symbols: keywords, names, letters, numerals, and the
characters that part them. Each `parse_*` function is an operator from a line to a
statement, with `split_tokens_sql` for those that split into tokens first and
`parse_insert_values_clause` as the separate scanner that inserts have.
`TextTable` executes statements: the schema goes into the catalog's row as numbers
and names (`make_schema_payload`) and is read back at every statement
(`split_schema_payload`); a row is cells at the offsets `compute_row_layout` gives;
`execute_select` shows a text up to its first nul. The abstract `TypedTable` is told
what a line means by whoever wrote it and knows nothing of tokens, payloads or cells.

Abstracted: a number takes one cell instead of four; no line or name is longer than
its buffer; a number has no sign; the several messages for a refused insert or update
are one. Null ids are in `Statements`, create database in `Session`. `Inputs` are the
lines that may be typed, each with what it means. What is assumed of them and of
`Numeral`, the numeral that is printed for a number, is that lines are sequences without
a nul, and that different numbers have different numerals, none of them a nul.

## 3. Runs

| Run | Configuration | Question | Result |
|---|---|---|---|
| `pager_recovery` | `MCPagerRecovery` | two pages, all contents, log of three: are commits atomic and durable, the map exact, checkpoints harmless? | holds |
| `pager_pages` | `MCPagerPages` | three pages, so that a commit has a first, a middle and a last frame: is `IInv`, on which the refinement is proved, an invariant; is a torn page ever read; does the file count every page once it is closed? | holds |
| `pager_reopen_new` | `MCPagerReopen` | does opening keep a committed image? | violated |
| `btree_two_levels` | `MCBTreeTwoLevels` | leaves of three cells, eight keys, six pages, crashes: rows, balance, pages, marks | holds |
| `btree_three_levels` | `MCBTreeThreeLevels` | leaves of one cell under two internal levels: growing in every order, splits and collapses of internal nodes; is `IInv` an invariant? | holds |
| `btree_delete` | `MCBTreeDelete` | deletes without the constraint of `btree_three_levels` | violated |
| `catalog_pages` | `MCCatalogPages` | two tables and the catalog in six pages: does every page have one owner, through drops, reopenings, repairs and crashes? | holds |
| `catalog_late_create` | `MCCatalogLate` | the same when a table's root may be a page that a tree or the free list has | violated |
| `statements` | `MCStatements` | inserts of up to three rows near the end of the ids, updates, deletes, crashes: is each statement whole, with the right ids? | holds |
| `session` | `MCSession` | two databases, four statements, transactions, crashes: does what is accepted stay where it belongs? | holds |
| `session_transaction` | `MCSessionTransaction` | is nothing of a transaction committed before `.commit`? (comment at `sqlyt.h:152`) | violated |
| `sql_text` | `MCTextTable` | lines in the forms `README.md` gives, in any order: are they parsed to what they mean, and does a select show that? | holds |

Other configurations in this directory are not listed as runs; each shows a defect
of section 4 in the same way: `MCPagerMiss`, `MCBTreeFourLevels`, `MCBTreeCrash`,
`MCCatalogEarlyCrash`, `MCCatalogLeak`, `MCCatalogLastRoot`, `MCTextTableEquals`,
`MCTextTableShort`.

### Properties

* `ImplementsPageStore`: the recoverable image (the log up to its last commit mark,
  else the file) changes only at the step that completes a commit's last frame, and
  then by exactly the modified pages. `TornPagesCovered`: a torn page of the file
  is never part of it. `CheckpointProgress`: what a checkpoint has copied agrees
  with it. `CloseSyncsFile`: `db_close` leaves it whole in the file.
* `MapExact`, `MissReadsCommitted`: the map names the last frame of every page, and
  a miss reads what was committed. The second excludes pages that a checkpoint put
  behind `file_length`, which is where the code fails (section 4).
* `CommitKeepsLogShort`: a log at the threshold, or past it after a crash, is emptied by
  the next commit that returns. `CloseCountsPages`: a closed database has in its file
  every page the process asked for, changed or not, and every page of the log, for the
  next opening counts pages by the length of the file and hands out the next one.
* `ImplementsRowTable`: from every state, every insert, delete and select answers as
  a set of rows would, and nothing else changes the rows. This covers lookups
  (duplicate, not found), order and completeness of scans, and what a crash loses.
* `PagesUsedOnce`: every page behind the root is the child of one node, or named once
  by the free list, and no page is neither. `PagesAccounted` says the same of the
  tree as it is reached from the root, so that nothing lies beside it.
  `NodesFit`: nothing is written behind the room a node has; two leaves merge only if
  one can take their cells.
* `ParentsExact`, `KeysSeparate`: what splits and searches rely on.
  `LeavesFilled`: no leaf but the root falls below its minimum.
* `CommitsItsChanges`: a statement's commit contains all it changed, parent
  pointers excepted (those are a defect of section 4). `RowsKept`: whatever a
  statement splits, moves, merges or frees, the rows in the leaves change by the key it
  names and no other; a crash or a reopening changes none.
* `PagesOwned`: every page of a live tree holds what that tree wrote. `FreePagesIdle`,
  `CountCoversPages`: what the free list and `num_pages` hand out is nobody's.
  `RootsBelowNext`: no new root page is a key of the catalog already.
  `ImplementsPageOwners`: a page has one owner at most, only its owner gives it back,
  and a crash goes back to the owners that were committed.
* `PassesAgree`: both passes of an insert give a row the same id, and the second never
  meets a key that is taken. `RefusedLeavesNothing`: between statements nothing is in
  memory that is not committed. `ImplementsAtomicRows`: an insert takes effect in one
  step, at its last row, with the ids it names and, for the others, the next above all
  those before; it is refused for a duplicate only if no such ids exist.
* `AcceptedIsCommitted`: outside of a transaction everything executed is on disk before
  the next line is read. `EachInItsDatabase`: through all openings and closings nothing
  reaches another database. `GroupsAtomic`: no process that ends, and no other
  commit, leaves a part of a transaction behind. `NothingForgotten`: what is durable
  stays. `ImplementsStores`: each database is a page of a `PageStore`.
* `ReadAsMeant`: a line is parsed to the statement it means, value by value and number by
  number, or is a syntax error if no table could take what it means.
* `ImplementsTypedTable`: from every state of the table, every line is accepted exactly
  if the table can take what it means, and then every row shows what it should.

Each module has one type invariant, which says more than types where a slip would
show: `TextTable`'s that the cells of a row fit the schema in the catalog,
`Session`'s that only existing databases are used, `Statements`' that a key has 32
bits.

### Bounds

* Pager: two pages are the least a database has (header, catalog); `pager_pages` adds
  one, so that a commit can have a frame that is neither first nor last, a checkpoint
  can be cut between copied and uncopied pages, and the file can grow. The threshold of
  two or three frames is reached by one commit, by several, and passed after a
  crash. `CRASH_WAL_FRAMES` bounds the log: without it, a process after the other
  could end between the last frame of a commit and the checkpoint that follows, and
  each would leave a longer log. It equals the threshold, so every point of a
  commit up to the threshold and of the checkpoint of such a log can be cut.
  `PageContents` gives each page two contents in `pager_recovery` (page 0: the good
  and the refused header), enough to tell an old content from a new one; torn and
  zero pages are distinct from both.
* BTree: `INTERNAL_NODE_MAX_KEYS` is 20 in the code and 3 in the runs, the least with
  which a split leaves two nodes with keys. `MAX_CELLS` is 7 or more for the tables the
  program accepts; 3 has borrows from both sides, merges from both sides and an
  odd split, and 1 gives three levels with a few keys. `TABLE_MAX_PAGES = 6` in
  `btree_two_levels` leaves three pages below the root, so that an insert meets the end
  of the pages in the middle of a split. One cell is below what a
  table can have, which changes how soon the levels appear and not what the code
  does in them: each of the violations found with it was repeated with tables
  of seven cells in the built program. Eight keys give two levels in every shape with
  leaves of three. `Scopes` names what `btree_three_levels` does: seven keys inserted
  in every order; and, from seven rows with a root, two internal nodes and a chain of
  leaves, four keys at the upper end inserted and deleted, so that internal nodes
  collapse, the root collapses to two levels, and both grow back.
* `NoEmptyLeaf` is a CONSTRAINT of `btree_three_levels`: behaviours stop where a leaf
  beside others is empty. That is exactly the situation of finding `btree_delete`;
  the run shows that up to it everything holds. The steps into such a state are
  still checked. `MAY_CRASH` switches crashes off where lost parent pointers would
  end the run. In `btree_two_levels` they are on: no internal node splits there.
* Catalog: six pages leave three for the nodes of two tables and the catalog, so that
  each can have a page another one had before, and the pages and the roots run out.
  Which of two names is meant makes no difference (SYMMETRY). `LAST_ROOT = 5`
  is the last page: once it has been handed out the counter is 6, which the header check
  refuses, and the next opening repairs the header or is refused. `USED_ROOTS` and
  `CRASH_EARLY` are FALSE where the code fails (section 4): no table gets a root
  that a live tree or the free list has, and no process ends while the log alone has
  some pages. A root may be a page of a dropped table, or of a free list that a
  repair has given up; tables are created after repairs and over such pages.
  CHECK_DEADLOCK is off because a statement that finds no page left exits (`get_page`,
  `btree.c:208`), which is the end of a process that `CRASH_EARLY` may forbid.
* Statements: `TOP_KEY = 3` for the largest of 32 bits, so that ids run over within one
  insert and meet both stored rows and rows of the same insert; three rows per insert
  (the code has 32), every mix of named and missing ids, and rows that fail a check.
  The proofs have no such bounds.
* Session: two databases, four changing statements: enough for a transaction that spans
  a change of database and back, with statements before and after. `LOSE_NEW = FALSE`
  leaves out a process that ends while a database is in its log only, which is finding
  `pager_reopen_new`.
* SQL text: texts of two letters at most, ids up to 11, three columns, two rows per
  insert. Columns of both types in every order, one short and one too long schema;
  values that are empty, full, too long, in quotes or not, with blanks, commas,
  brackets and semicolons; every line without needless blanks and with them, and with
  and without a semicolon. `EQUALS = FALSE` keeps `=` out of updates, and tables of two
  columns are created with `primary key`; both are defects of section 4. `VIEW Table`
  identifies states with the same table: what a line does depends on nothing else, and
  the step property is evaluated for every line in every such state.

### Fairness

None is assumed, and no liveness is claimed. The program is one thread without waits,
its loops over pages, rows and columns are bounded by their form, and a user owes
it no next line. What has to have happened when something ends is stated of the step
that ends it: `CloseSyncsFile` and `CloseCountsPages` of a close, `CommitKeepsLogShort`
of a commit.

## 4. Findings

With a listed run:

1. **A database can be overwritten when it is opened** (`pager.c:154`, run
   `pager_reopen_new`). "New" is decided by the file's length alone. A session that
   ends without `db_close` before the first checkpoint has everything in the log;
   the next opening writes a new header and an empty catalog over it.
2. **A deleted row is shown** (`btree.c:784` and 810, run `btree_delete`). A leaf
   beside an internal node is not rebalanced, becomes empty, stays in the chain, and
   a scan reads its stale cell. In the program: nine text columns, insert 1 to 100,
   delete 100 down to 45, select shows row 45.
3. **A new table takes a page of another** (`parser.c:446`, run `catalog_late_create`).
   Root pages are counted without regard to the pages trees have taken. In the program:
   a table created after a split of another makes rows of it vanish and the new table's
   rows appear in it. The catalog is a tree, too: it splits at the eighth table,
   the ninth makes others vanish, and with the tenth `.showtables` shows none.
4. **Transactions are committed without `.commit`** (`cli.c:710`, run
   `session_transaction`). `.usedatabase` and `.exit` close the database, and `db_close`
   commits every cached page, although `sqlyt.h:152` says "defer commit until .commit".

With a configuration that is not listed:

5. **A miss can read zeros for a page of the file** (`btree.c:242`, `MCPagerMiss`).
   `file_length` is not updated when a checkpoint extends the file.
6. **A node under the wrong parent** (`btree.c:964`, `MCBTreeFourLevels`). The new
   node gets the parent of the old one, although the insert into that parent may
   have split it. In the program: after 898 ascending rows and 599 rows inserted
   in their middle, 46 keys could be inserted twice.
7. **Parent pointers lost in a crash** (`btree.c:531`, 534, 927, 937, `MCBTreeCrash`).
   Moved children are not marked dirty. In the program: after a session that ended
   without `.exit`, 41 of 218 keys could be inserted twice.
8. **A page of the log is handed out again** (`pager.c:30`, `MCCatalogEarlyCrash`).
   `num_pages` counts the pages of the file. In the program: after a session on one
   table that ended without `.exit`, inserts into another make both show the same rows.
9. **Dropped tables keep their pages** (`cli.c:525`, `MCCatalogLeak`), although
   `pager.c:401` says that free pages are recycled.
10. **The last root page locks the database** (`parser.c:450`, `MCCatalogLastRoot`).
    `next_root_page` becomes `TABLE_MAX_PAGES`, which `header_is_valid` refuses at every
    later opening.
11. **An update loses `=`** (`parser.c:719`, `MCTextTableEquals`). Every `=` of the line
    becomes a blank before quotes are looked at: `set name = "a=b"` stores `a b`, and
    `set name = "="` is executed and stores a blank.
12. **`primary key` is not optional for two columns** (`parser.c:521`,
    `MCTextTableShort`). `create table s (id int, name text)` has seven tokens and is a
    syntax error, although `README.md:166` says "(optionally `primary key`)".

## 5. Proofs

All proofs are for every value of the constants that the modules' assumptions allow,
and those are no more than types, distinctness, and room for three keys in an internal
node.

| Theorem | Statement |
|---|---|
| `PagerProofs`: `Invariant` | `Spec => []IInv` |
| `TypeCorrect`, `MapIsExact`, `MissesReadCommitted`, `CheckpointsProgress` | `Spec => []P`, P being `TypeOK`, `MapExact`, `MissReadsCommitted`, `CheckpointProgress` |
| `ClosesSyncFile`, `Refinement` | `Spec => CloseSyncsFile`, `Spec => ImplementsPageStore` |
| `TornPagesAreCovered`, `CommitsKeepLogShort`, `ClosesCountPages` | `Spec => []TornPagesCovered`, `Spec => CommitKeepsLogShort`, `Spec => CloseCountsPages` |
| `BTreeProofs`: `Invariant` | `Spec /\ []ParentsInternal => []IInv` |
| `PagesAreUsedOnce`, `NodesAlwaysFit`, `ChangesAreCommitted`, `RowsAreKept` | under the same hypothesis `PagesUsedOnce`, `NodesFit`, `CommitsItsChanges`, `RowsKept` |
| `ParentsStayInternal` | `InsertsOnly /\ Spec => []ParentsInternal` |
| `GrowingTables` | `InsertsOnly /\ Spec => [](PagesUsedOnce /\ NodesFit /\ CommitsItsChanges) /\ RowsKept` |
| `CatalogProofs`: `CatalogTypes`, `RootsStayBelowNext` | `Spec => []P` for `TypeOK`, `RootsBelowNext` |
| `PagesStayOwned`, `FreePagesStayIdle`, `CountStaysAbove`, `CatalogImplementsPageOwners` | the same for `PagesOwned`, `FreePagesIdle`, `CountCoversPages`, `ImplementsPageOwners`, if neither `USED_ROOTS` nor `CRASH_EARLY` |
| `StatementsProofs`: `StatementsTypes`, `PassesAlwaysAgree`, `RefusalsLeaveNothing`, `StatementsImplementAtomicRows` | `TypeOK`, `PassesAgree`, `RefusedLeavesNothing`, `ImplementsAtomicRows` |
| `SessionProofs`: `SessionTypes`, `AcceptedStaysCommitted`, `StatementsStayInTheirDatabase`, `TransactionsAreAtomic` | `TypeOK`, `AcceptedIsCommitted`, `EachInItsDatabase`, `GroupsAtomic` |
| `NothingIsForgotten`, `SessionImplementsStores` | `NothingForgotten`, `ImplementsStores`, if not `LOSE_NEW` |
| `TextTableProofs`: `TypeCorrect` | `Spec => []TypeOK` |
| `Refinement` | `ReadAsMeant /\ Spec => ImplementsTypedTable` |

**Pager.** The invariants are not inductive alone. `MapExact` must hold inside a commit
as well, where part of the frames is not committed (`MapTracksLog`); that a new frame is
mapped right needs `wal_frame_count = Len(wal)` (`Bookkeeping`); that the commit
frame commits exactly the modified pages needs that the frames behind the commit
point hold the cached pages, all of lower number than the pages still dirty
(`FlushOrder`), that the frame header already written is of the next one
(`TailIsNext`), and that there are no such frames between commits (`LogCommitted`);
that the log can be emptied needs what is copied (`CopiedPages`). `IInv` is the
conjunction of these with `TypeOK`, `LogReadable` (the commit point and last
frames exist, so the CHOOSE that names them is exact) and `FileEnds`. It is checked
by TLC in `pager_pages` before it is proved. `TornPagesCovered` is inductive
with `CacheWhole`, that no cached page is torn: by the refinement a step leaves the
image as it was, or puts cached pages into it; and the cache takes its pages from the
image or from statements, which the assumption on the constants keeps from writing
a torn one. `CommitsKeepLogShort` follows from `Bookkeeping` at the step that ends
a commit. `ClosesCountPages` needs that while a database is open the last page
`num_pages` counts is in the file or cached (`CountReachesFile`), once `db_close` has
begun that what is cached is dirty or mapped, and in the checkpoint that what is
copied lies within the file; pages cached by the repair alone are among them. The
lemmas before the theorems say what appending a frame, with and without the commit mark, does to the commit point,
to last frames and to the image; each action's preservation of `IInv` is a step of
its own, and the refinement has one case for each action.

**B+ tree.** `IsTree(s, loose)` is about pages one by one, and about no order of keys
and no path from the root: nodes fit (`Shaped`), every page behind the root is in one
list of children, or named once by the free list, or loose (`KidsOnce`, `ListOnce`,
`OneOwner`), and a page that is free or not in use yet is an empty leaf
(`UnusedBlank`). A page is *loose* while a statement has taken it from the free list, or
out of its parent, and has not put it anywhere: within a split the new page, within a
merge the emptied one. Every function of the code is shown to turn one such tree into
another, with the loose pages it takes or leaves named (one lemma for each: `NextPage`,
`PageTaken`, `KidsMoved`, `Halved`, `LeafParted`, ..., `Lifted`, `ChildSpliced`,
`ChildRemoved`, `LeavesMerged`, `CellBorrowed`), to keep the union of the rows in the
leaves, and to mark every page that it changes in more than its parent (`Marks`). The
one argument about owners is `Reshaped`: a change of the children of a few nodes keeps
the tree if what is under these nodes together is what was, but for pages that
become loose or stop being so (`Reshapes`). The climb of an insert is an induction
along `InsertOnce`, from `Iteration` in `Lemmas`.

The hypothesis. `ParentsInternal`: parent pointers name internal nodes. An insert goes
where the parent pointer leads, and only if an internal node is there does it put a
child and not destroy a leaf.
`ExactIsInternal` shows that it follows from `ParentsExact`, which holds in
`btree_three_levels`, but `ParentsExact` is false in general, which is findings 6 and 7:
`ParentsInternal` is the weaker condition that is needed. With it and `IInv` as
INVARIANTS and `RowsKept` in place of `ImplementsRowTable`, TLC finds no violation in
the scopes of `MCBTreeCrash` and `MCBTreeFourLevels` (3602 and 301 states, all there
are), nor in the first 800 000 states of `MCBTreeDelete`. So the theorems say that
even where those findings make keys unreachable, or a deleted row is shown, no page is
used twice and no row leaves the leaves. What is *not* in `IInv` is that the pages
named as children hang below the root; `PagesAccounted` checks that.

Where the hypothesis is proved. `InsertsOnly` says that no scope deletes rows, and then
`ParentsInternal` is a theorem, with crashes, refused pages and the stale pointers that
they leave in the file (finding 7 needs no delete). `AllGrown` is what is kept, of
memory and of the file: nothing is free, and the parent of every page in use behind the
root is an internal node in use. `GrownOutOf` compares a tree with the one it grew out
of: an internal node stays one, and every page newly in use is marked. So a page that
is not committed has an old parent pointer, to what was an internal node and still is
one. A pointer may lead to the wrong internal node (keys then become unreachable), but
never to a leaf. Inside a split the new node has no parent yet, so that `AllGrown`
excepts the pages of `News`, and a climb carries the pairs whose parents it sets at its
end (`Awaits`, `ParentsGiven`). Behaviours begin with any first rows: `Init` inserts
them as an insert does, so that the same lemma gives the tree they leave. With deletes
the argument fails: `internal_rebalance_after_delete` frees internal nodes, and such a
page can come back as a leaf while a stale pointer names it. There `ParentsInternal`
stays a hypothesis.

**Catalog.** `Counted` is `TypeOK`, `RootsBelowNext` and the same of what is committed:
an opening goes back to it, and a repair rebuilds the counter from it. `Sharing` adds
the ownership properties, in memory and on disk, and what makes `num_pages` trustworthy
again after an opening: without `CRASH_EARLY` every page that was ever committed is in
the file when a process begins, and without `USED_ROOTS` the root of a new table is in no
live tree and not in the free list, so that the two ways of counting pages do not meet.
The two hypotheses are the two defects: with either of them TRUE the theorem is false.

**Statements.** The second pass starts from a `find_table_max_key` of its own, so the
argument is about the past: `Planned` says that each planned key was computed from the
largest key before it (`seen`), `Inserting` that the second pass has the same largest
key at the same row, and `LargestUnique` that `find_table_max_key` has one result.
`Above` says that the largest key is in fact the largest until the ids run over; the
refinement needs it to show that generated ids are those `AtomicRows` asks for, and
`Forced`, that the plan is the only one an atomic insert could choose, to show that a
refusal for a duplicate is justified.

**Session.** `GroupsAtomic` is about what is durable, and becomes inductive with what
says the same of memory (`CacheAtomic`), that nothing of an open transaction is durable
while its database stays open (`Undecided`), that memory only grows
(`Growing`), has everything since the opening (`Recent`), and that statements are
numbered in order (`Numbered`). `Places` says where there is a database in use, `Synced`
that a checkpoint follows a commit, `Kept` that no file is empty whose database is not
in use.

**TextTable.** `IInv` says where the payload and the cells come from: the payload is what
`make_schema_payload` makes of a schema that `parse_create_table` can accept, and each
row is laid out by that schema (`RowRight`): it has its width, every column holds some
text and nulls behind it, and the first one the numeral of the key. Three groups of
lemmas carry it. *Layout*: the columns lie one behind the other
(`ColumnsLaidOut`, `ColumnsApart`), what `PutColumn` writes is held by its column and
no other changes (`ColumnPut`, `HeldElsewhere`), what a column holds is what `Shown` shows
(`HeldIsShown`), and so a packed row has every value in its column (`RowPacked`).
*Catalog*: splitting the payload of a schema gives the schema (`SchemaKept`).
*Parsers*: whatever the line is, tokens are texts without nuls (`TokensAreTexts`), a row of
an insert has an id within 32 bits that is its first value (`RowsAreInsertions`), and a
statement has what its kind needs (`StatementsAreWellFormed`). The parsers' recursive
functions go through a line from right to left; `Backward` gives the step for them, by
induction over the places that are left. This is what `TypeCorrect` needs, and it has no
hypothesis.

`Refinement` needs in addition that what is written is what is meant. `ReadAsMeant` is
that hypothesis and is about the parsers alone, without a table; `sql_text` checks it for
its lines. The proof has one lemma for each kind of statement (`CreateAnswer`,
`InsertAnswer`, ...). Each compares the condition under which the code executes
the statement with the one under which `TypedTable` accepts what it means (`RowFitsWhereValid`,
`InsertableWhereAccepted`, `UpdatableWhereAccepted`, for which the names of columns must
differ, `DistinctNames`), and then the rows shown afterwards with those of `After`
(`RowsInserted`, `RowMeant`, `RowsDeleted`). That the ids in a table differ as numerals
exactly if they differ as keys is `IdShown`.

Only model-checked: of the tree what follows paths from the root or depends on the order
of keys (`ImplementsRowTable`, `KeysSeparate`, `LeavesFilled`, `PagesAccounted`, `ParentsExact`): they hold only up to
the states of findings 2, 6 and 7, so that a proof would be about a fragment; and
`ReadAsMeant`, since what a line means is given by whoever typed it: it can only be
compared for the lines that a run lists.

## 6. Mutants

Each property of each passing run is broken by one plausible slip in the code. The
slips are operators in the modules, next to the definition they stand in for.

| Run | Property | Slip |
|---|---|---|
| `pager_recovery` | `TypeOK` | every miss makes the database one page longer |
| | `MapExact` | a recycled page is not marked dirty |
| | `MissReadsCommitted` | a miss looks into the file before the log |
| | `CheckpointProgress` | a checkpoint skips mapped pages |
| | `ImplementsPageStore` | every frame is a commit frame |
| | `CommitKeepsLogShort` | `>` for `>=` at the threshold |
| | `CloseSyncsFile` | the log is emptied after the first page |
| `pager_pages` | `IInv` | the uncommitted tail is not cut off |
| | `TornPagesCovered` | a short write of a checkpoint goes unnoticed |
| | `CloseCountsPages` | `db_close` leaves out the last page it has cached |
| `btree_two_levels` | `PagesUsedOnce` | a freed page forgets the old head of the list |
| | `NodesFit` | a leaf with one cell to spare does not give it, and merges with a leaf too full for that |
| | `KeysSeparate` | a borrow leaves the key between the leaves |
| | `LeavesFilled` | a leaf gives a cell at its minimum |
| | `CommitsItsChanges` | a borrow does not mark the neighbour |
| | `ImplementsRowTable` | a merge keeps the old next leaf |
| `btree_three_levels` | `PagesAccounted` | a merge does not free the page |
| | `ParentsExact` | the right child keeps its old parent |
| | `IInv` | recomputed keys are not marked |
| | `RowsKept` | the new leaf of a split does not count its last cell |
| | `ImplementsRowTable` | the descent goes past an equal key |
| `catalog_pages` | `TypeOK`, `RootsBelowNext` | the repair takes the largest root for the next |
| | `PagesOwned`, `ImplementsPageOwners` | the last page in use is handed out as a new one |
| | `FreePagesIdle` | a page that is taken stays in the free list |
| | `CountCoversPages` | `num_pages` stops one short |
| `statements` | `TypeOK` | an id is computed with more than 32 bits |
| | `PassesAgree` | the second pass goes on from the largest key of the first |
| | `RefusedLeavesNothing`, `ImplementsAtomicRows` | duplicates among the new rows are not looked for |
| `session` | `TypeOK` | `.usedatabase` does not look for the directory |
| | `AcceptedIsCommitted` | `.commit` ends the transaction and commits nothing |
| | `EachInItsDatabase`, `ImplementsStores` | closing commits into the database that is opened next |
| | `GroupsAtomic` | statements commit inside transactions |
| | `NothingForgotten` | an opening ignores the log |
| `sql_text` | `TypeOK` | every column begins one cell after another |
| | `ReadAsMeant` | a quoted token ends at a blank |
| | `ImplementsTypedTable` | an update leaves the end of a longer text |

## 7. Not modelled, and the plan

Not modelled, for want of state or of a promise:

* options, printing, timing, the width of columns; readline; the benchmark scripts;
* buffer lengths of lines and names, signs of numbers (`strtoul` accepts them);
* several processes on one database (the program has no locking and claims no support
  for it) and power failures (nothing is ever synced);
* read errors, and the padding of files of an older format.

Possible next, in order of importance:

1. The order of cells in a leaf and across borrows and merges, to prove what
   `KeysSeparate` needs of two neighbouring leaves.
2. Closing the two hypotheses of `CatalogProofs`: proving, for a catalog that takes roots
   from `get_unused_page_num`, that no bound is needed.
