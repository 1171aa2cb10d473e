-------------------------- MODULE CatalogProperties --------------------------
(***************************************************************************)
(* What the tables of a database must be to each other, stated over the    *)
(* states and steps of Catalog.                                            *)
(***************************************************************************)
EXTENDS Catalog

TypeOK ==
  /\ session \in {"open", "closed", "refused"}
  /\ running \in [root : Pages, kind : {"none", "grow", "shrink"}]
  /\ num_pages \in 0 .. TABLE_MAX_PAGES
  /\ next_root_page \in FirstUserRoot .. TABLE_MAX_PAGES
  /\ free \in Seq(Pages)
  /\ catalog \in [Names -> Pages]
  /\ tree \in [Pages -> SUBSET Pages]
  /\ holds \in [Pages -> Pages \cup {UNWRITTEN, FREE}]
  /\ file_pages \in 0 .. TABLE_MAX_PAGES

\* Whatever a table or the catalog reads in a page of its tree is what it wrote
\* there: allocate_next_root_page, get_unused_page_num and create_table_root
\* give no page to two trees, nor that of the header, and no root to two names.
Shared(cat, t, h) ==
  /\ h[0] = HEADER
  /\ \A r \in LiveRoots(cat) : r \in t[r] /\ \A p \in t[r] : h[p] = r
  /\ \A m, n \in Names : m # n /\ cat[m] = cat[n] => cat[m] = NoTable
PagesOwned == session = "open" => Shared(catalog, tree, holds)

\* get_unused_page_num may rely on the free list: its pages hold nothing else,
\* and none is in it twice.
Idled(f, h) == IsInjective(f) /\ \A i \in DOMAIN f : h[f[i]] = FREE
FreePagesIdle == Idled(free, holds)

\* The root page of a new table is no key of the catalog yet, so that
\* execute_create_table never finds a duplicate key after it has formatted it.
RootsBelowNext == \A n \in Names : catalog[n] < next_root_page

\* num_pages covers every page that has been written, so that a new page at the
\* end of the database is nobody's.
CountCoversPages == session = "open" => \A p \in Written(holds) : p < num_pages

\* The tables share out the pages: none takes another's, and a process that has
\* ended without closing leaves them as they were committed.
OwnersOf(cat, t) == [p \in Pages |-> {r \in LiveRoots(cat) : p \in t[r]}]
Owners == INSTANCE PageOwners WITH Tables <- Pages \ {HEADER},
                                   owners <- OwnersOf(catalog, tree),
                                   saved <- OwnersOf(disk.catalog, disk.tree)
ImplementsPageOwners == Owners!POSpec

-----------------------------------------------------------------------------
(* Stated by the repository, and not so. *)

\* "free pages are recycled, through a free page list" (pager.c:401): between
\* statements every page is the header, in a tree, or free.
PagesRecycled ==
  session = "open" /\ running = Idle =>
    \A p \in Pages : p < num_pages =>
      \/ p = 0
      \/ \E r \in LiveRoots(catalog) : p \in tree[r]
      \/ \E i \in DOMAIN free : free[i] = p

\* test_next_root_page_persists_after_reopen: a database that was closed can be
\* opened again, with the next_root_page it had.
ReopenKeepsNextRoot ==
  [][session = "closed" => session' # "refused" /\ next_root_page' = next_root_page]_vars
=============================================================================
