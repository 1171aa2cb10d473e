------------------------------- MODULE Catalog -------------------------------
(***************************************************************************)
(* The tables of one database and the pages they share out: the catalog    *)
(* (src/src/cli.c, parser.c), whose rows name the root page of each table, *)
(* and the three places pages come from: next_root_page for the roots of   *)
(* tables, the free list and num_pages for the other nodes of all trees,   *)
(* the catalog's own tree included (src/src/pager.c).                      *)
(*                                                                         *)
(* A tree is the set of its pages.  A statement on a table takes pages or  *)
(* gives pages back one at a time, as its splits and merges do (module     *)
(* BTree says when); which rows it changes is left out.  holds says whose  *)
(* content is in a page, so that a page given to two trees is seen to have *)
(* lost what one of them wrote.                                            *)
(*                                                                         *)
(* An operator introduced by "As ..., but" is no part of the model: it is  *)
(* a slip the code could have made, and README.md names the property that  *)
(* rejects it.                                                             *)
(***************************************************************************)
EXTENDS Integers, FiniteSets, Sequences, Functions

CONSTANTS
  TABLE_MAX_PAGES,
  Names,        \* names of tables
  LAST_ROOT,    \* bound: no root page is handed out beyond it
  USED_ROOTS,   \* bound: whether a table may get as its root a page that a tree
                \* or the free list has
  CRASH_EARLY   \* bound: whether the process may end while the log has pages
                \* that the file has not

ASSUME CatalogAssumption ==
  /\ TABLE_MAX_PAGES \in Nat /\ TABLE_MAX_PAGES > 2
  /\ LAST_ROOT \in Nat
  /\ USED_ROOTS \in BOOLEAN /\ CRASH_EARLY \in BOOLEAN

Pages == 0 .. TABLE_MAX_PAGES - 1
MasterRoot == 1
FirstUserRoot == 2

\* Content of a page that belongs to no tree: the header, zeros, a free page.
HEADER == 0
UNWRITTEN == -1
FREE == -2

NoTable == 0
Idle == [root |-> 0, kind |-> "none"]

VARIABLES
  session,         \* "open", "closed", or "refused" by db_open
  running,         \* the statement: the root of its table, and what it may do
  num_pages, next_root_page,
  free,            \* the free list from its head, free_page_head
  catalog,         \* name |-> root page, NoTable if there is none
  tree,            \* root page |-> the pages that can be reached from it
  holds,           \* page |-> the root of the tree whose content it holds
  disk,            \* what is committed of the five above
  file_pages       \* pages of the database file; the log may have more

memory == <<next_root_page, free, catalog, tree, holds>>
vars == <<session, running, num_pages, memory, disk, file_pages>>

Current == [next_root_page |-> next_root_page, free |-> free, catalog |-> catalog,
            tree |-> tree, holds |-> holds]

LiveRoots(cat) == {MasterRoot} \cup {cat[n] : n \in {m \in Names : cat[m] # NoTable}}

\* As Extent, but m is the last page and not one more.
ExtentShort(n, P, m) == n <= m /\ (\A p \in P : p <= m) /\ (n < m => m \in P)

\* Of n pages there are m when the pages of P have been added.
Extent(n, P, m) == n <= m /\ (\A p \in P : p < m) /\ (n < m => m - 1 \in P)

\* Pages that a checkpoint copies into the file, now or earlier.
Written(h) == {p \in Pages : h[p] # UNWRITTEN}

-----------------------------------------------------------------------------
(* Opening. *)

NewTree == [r \in Pages |-> IF r = MasterRoot THEN {MasterRoot} ELSE {}]
NewHolds(h) == [h EXCEPT ![0] = HEADER, ![MasterRoot] = MasterRoot]

\* A file without pages is taken for a new database, whatever the log has.
DbOpenNew ==
  /\ session = "closed" /\ file_pages = 0
  /\ session' = "open"
  /\ num_pages' = FirstUserRoot
  /\ next_root_page' = FirstUserRoot
  /\ free' = <<>>
  /\ catalog' = [n \in Names |-> NoTable]
  /\ tree' = NewTree
  /\ holds' = NewHolds(holds)
  /\ disk' = Current'
  /\ UNCHANGED <<running, file_pages>>

header_is_valid(next) == next > MasterRoot /\ next < TABLE_MAX_PAGES

DbOpenExisting ==
  /\ session = "closed" /\ file_pages > 0
  /\ header_is_valid(next_root_page)
  /\ session' = "open"
  /\ num_pages' = file_pages
  /\ UNCHANGED <<running, memory, disk, file_pages>>

\* As recover_next_root_page_from_master, but the largest root is given again.
LargestRootAgain(cat, next) == Extent(0, LiveRoots(cat), next + 1)

recover_next_root_page_from_master(cat, next) == Extent(0, LiveRoots(cat), next)

\* The root counter is rebuilt from the catalog, the free list is given up.
DbOpenRepair ==
  /\ session = "closed" /\ file_pages > 0
  /\ ~header_is_valid(next_root_page)
  /\ session' = "open"
  /\ num_pages' \in 0 .. TABLE_MAX_PAGES
  /\ \E P \in SUBSET tree[MasterRoot] : Extent(file_pages, P, num_pages')
  /\ next_root_page' \in Pages
  /\ recover_next_root_page_from_master(catalog, next_root_page')
  /\ free' = <<>>
  /\ UNCHANGED <<running, catalog, tree, holds, file_pages>>
  /\ disk' = Current'

\* The process exits: "no free root pages left".
DbOpenRefused ==
  /\ session \in {"closed", "refused"} /\ file_pages > 0
  /\ ~header_is_valid(next_root_page)
  /\ recover_next_root_page_from_master(catalog, TABLE_MAX_PAGES)
  /\ session' = "refused"
  /\ UNCHANGED <<running, num_pages, memory, disk, file_pages>>

-----------------------------------------------------------------------------
(* Statements.  Each begins by looking its table up in the catalog, and    *)
(* reads pages of that tree and of its own.                                *)

\* get_page is asked for any pages of some and for all the pages of all.
Reads(some, all) ==
  /\ num_pages' \in 0 .. TABLE_MAX_PAGES
  /\ \E P \in SUBSET some : Extent(num_pages, P \cup all, num_pages')
MayRun == session = "open" /\ running = Idle

\* select and update, and whatever is refused after the table was found.
ReadTable(name) ==
  /\ MayRun /\ catalog[name] # NoTable
  /\ Reads(tree[MasterRoot] \cup tree[catalog[name]], {})
  /\ UNCHANGED <<session, running, memory, disk, file_pages>>

\* insert and delete: splits take pages, merges give pages back.
StartStatement(name, kind) ==
  /\ MayRun /\ catalog[name] # NoTable
  /\ Reads(tree[MasterRoot] \cup tree[catalog[name]], {})
  /\ running' = [root |-> catalog[name], kind |-> kind]
  /\ UNCHANGED <<session, memory, disk, file_pages>>

\* No tree and no list has the page: it was never written, or was of a table that
\* has been dropped, or of a free list that a repair has given up.
IsUnused(p) ==
  /\ \A r \in LiveRoots(catalog) : p \notin tree[r]
  /\ \A i \in DOMAIN free : free[i] # p

\* The page that becomes the root of the next table.
allocate_next_root_page == next_root_page

\* execute_create_table: the root page is made a leaf whatever it was, and the
\* row of the new table goes into the catalog, whose tree may grow by it.  The
\* row's key is new: RootsBelowNext.  The code does not ask whether the root page
\* is in use.
CreateTable(name) ==
  LET root == allocate_next_root_page IN
  /\ MayRun /\ catalog[name] = NoTable
  /\ root < TABLE_MAX_PAGES /\ root <= LAST_ROOT
  /\ USED_ROOTS \/ IsUnused(root)
  /\ Reads(tree[MasterRoot], {root})
  /\ next_root_page' = next_root_page + 1
  /\ catalog' = [catalog EXCEPT ![name] = root]
  /\ tree' = [tree EXCEPT ![root] = {root}]
  /\ holds' = [holds EXCEPT ![root] = root]
  /\ running' = [root |-> MasterRoot, kind |-> "grow"]
  /\ UNCHANGED <<session, free, disk, file_pages>>

\* execute_drop_table: only the row of the catalog is deleted, whose tree may
\* shrink by it.  The pages of the table stay as they are.
DropTable(name) ==
  /\ MayRun /\ catalog[name] # NoTable
  /\ Reads(tree[MasterRoot], {})
  /\ catalog' = [catalog EXCEPT ![name] = NoTable]
  /\ running' = [root |-> MasterRoot, kind |-> "shrink"]
  /\ UNCHANGED <<session, next_root_page, free, tree, holds, disk, file_pages>>

\* As UnusedPage, but the last page in use is given, one too early.
UnusedLast == num_pages - 1

UnusedPage == IF free = <<>> THEN num_pages ELSE Head(free)

\* As ListAfterTake, but the page stays in the list.
ListUnchanged == free

ListAfterTake == IF free = <<>> THEN free ELSE Tail(free)

\* get_unused_page_num and the get_page after it, for a node of the tree whose
\* statement runs.  With no page left the process exits, as Crash does.
GetUnusedPage ==
  /\ running.kind = "grow"
  /\ UnusedPage < TABLE_MAX_PAGES
  /\ Reads({}, {UnusedPage})
  /\ free' = ListAfterTake
  /\ tree' = [tree EXCEPT ![running.root] = @ \cup {UnusedPage}]
  /\ holds' = [holds EXCEPT ![UnusedPage] = running.root]
  /\ UNCHANGED <<session, running, next_root_page, catalog, disk, file_pages>>

\* pager_free_page, for a node that has left the tree whose statement runs.
FreePage(p) ==
  /\ running.kind = "shrink"
  /\ p \in tree[running.root] \ {running.root, HEADER, MasterRoot}
  /\ free' = <<p>> \o free
  /\ tree' = [tree EXCEPT ![running.root] = @ \ {p}]
  /\ holds' = [holds EXCEPT ![p] = FREE]
  /\ UNCHANGED <<session, running, num_pages, next_root_page, catalog, disk, file_pages>>

\* A root that is no leaf has two children or more.
EndStatement ==
  /\ running # Idle
  /\ Cardinality(tree[running.root]) # 2
  /\ running' = Idle
  /\ UNCHANGED <<session, num_pages, memory, disk, file_pages>>

-----------------------------------------------------------------------------
(* Commits and the end of a session. *)

Checkpointed == file_pages' \in 0 .. TABLE_MAX_PAGES /\ Extent(0, Written(holds), file_pages')

\* pager_commit_transaction_sync, after a statement or at .commit.
Commit ==
  /\ MayRun
  /\ disk' = Current
  /\ UNCHANGED file_pages \/ Checkpointed
  /\ UNCHANGED <<session, running, num_pages, memory>>

\* db_close commits and checkpoints.
DbClose ==
  /\ MayRun
  /\ session' = "closed"
  /\ disk' = Current
  /\ Checkpointed
  /\ UNCHANGED <<running, num_pages, memory>>

\* The process ends without db_close, at any step: the next one has what was
\* committed.
Crash ==
  /\ session = "open"
  /\ CRASH_EARLY \/ \A p \in Written(disk.holds) : p < file_pages
  /\ session' = "closed"
  /\ running' = Idle
  /\ next_root_page' = disk.next_root_page /\ free' = disk.free
  /\ catalog' = disk.catalog /\ tree' = disk.tree /\ holds' = disk.holds
  /\ UNCHANGED <<num_pages, disk, file_pages>>

Init ==
  /\ session = "closed" /\ running = Idle
  /\ num_pages = 0 /\ file_pages = 0
  /\ next_root_page = FirstUserRoot /\ free = <<>>
  /\ catalog = [n \in Names |-> NoTable]
  /\ tree = [r \in Pages |-> {}]
  /\ holds = [p \in Pages |-> UNWRITTEN]
  /\ disk = Current

DbOpen == DbOpenNew \/ DbOpenExisting \/ DbOpenRepair \/ DbOpenRefused

Next ==
  \/ DbOpen
  \/ \E name \in Names :
       \/ ReadTable(name)
       \/ StartStatement(name, "grow")
       \/ StartStatement(name, "shrink")
       \/ CreateTable(name)
       \/ DropTable(name)
  \/ GetUnusedPage
  \/ \E p \in Pages : FreePage(p)
  \/ EndStatement
  \/ Commit
  \/ DbClose
  \/ Crash

Spec == Init /\ [][Next]_vars
=============================================================================
