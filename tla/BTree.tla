-------------------------------- MODULE BTree --------------------------------
(***************************************************************************)
(* The B+ tree of one table (src/src/btree.c), with the page allocation of *)
(* src/src/pager.c (get_unused_page_num, pager_free_page) it grows and     *)
(* shrinks by.  Every operation is a function from a store of pages to the *)
(* store it leaves; a statement is one step, since one thread runs it from *)
(* end to end, and its commit follows at once (execute_sql).               *)
(*                                                                         *)
(* A row is its primary key: its value lies in the same cell, and every    *)
(* copy the code makes is of whole cells.  The right child of an internal  *)
(* node is the last element of its kids; no kids stand for a right child   *)
(* of INVALID_PAGE_NUM.  The table is the only one in its database, whose  *)
(* header is page 0 and whose catalog is page 1.                           *)
(*                                                                         *)
(* An operator introduced by "As ..., but" is no part of the model: it is  *)
(* a slip the code could have made, and README.md names the property that  *)
(* rejects it.                                                             *)
(***************************************************************************)
EXTENDS Integers, SequencesExt

CONSTANTS
  INTERNAL_NODE_MAX_KEYS,
  MAX_CELLS,        \* cells that fit into a leaf: max_cells of the Table
  TABLE_MAX_PAGES,
  Scopes,           \* bound: records of what is looked at of a table: its
                    \* first rows, in the order they were inserted, and the
                    \* keys that inserts and deletes name after them
  MAY_CRASH         \* bound: whether the process may end without db_close

Root == 2
MasterRoot == 1
Pages == 0 .. TABLE_MAX_PAGES - 1

ASSUME BTreeAssumption ==
  /\ INTERNAL_NODE_MAX_KEYS \in Nat /\ INTERNAL_NODE_MAX_KEYS >= 3
  /\ MAX_CELLS \in Nat /\ MAX_CELLS >= 1
  /\ TABLE_MAX_PAGES \in Nat /\ TABLE_MAX_PAGES > Root
  /\ \A scope \in Scopes :
       /\ scope.rows \in Seq(Nat \ {0})
       /\ scope.inserts \cup scope.deletes \subseteq Nat \ {0}
  /\ MAY_CRASH \in BOOLEAN

VARIABLES
  store,  \* pages, free list and dirty flags, as the process has them
  disk,   \* the store as it is committed: what the next process will have
  reply,  \* what the last statement answered
  bounds  \* the one of Scopes that holds

vars == <<store, disk, reply, bounds>>

-----------------------------------------------------------------------------
(* Nodes and pages. *)

\* stale is what an empty leaf still holds in its first cell.
EmptyLeaf == [leaf |-> TRUE, root |-> FALSE, parent |-> 0, keys |-> <<>>,
              kids |-> <<>>, next |-> 0, stale |-> 0]

Mark(s, p) == [s EXCEPT !.dirty = @ \cup {p}]
MarkAll(s, P) == [s EXCEPT !.dirty = @ \cup P]
SetParent(s, p, q) == [s EXCEPT !.node[p].parent = q]

Reparented(s, P, q) ==
  [s EXCEPT !.node = [p \in Pages |-> IF p \in P THEN [s.node[p] EXCEPT !.parent = q]
                                      ELSE s.node[p]]]

\* As SetParents, but the right child is forgotten.
ParentsButLast(s, kids, q) == Reparented(s, ToSet(Front(kids)), q)

SetParents(s, kids, q) == Reparented(s, ToSet(kids), q)

SetCells(s, p, keys) == [s EXCEPT !.node[p].keys = keys, !.node[p].stale = 0]

initialize_internal_node(s, p) ==
  [s EXCEPT !.node[p] = [@ EXCEPT !.leaf = FALSE, !.root = FALSE,
                                  !.keys = <<>>, !.kids = <<>>]]

\* get_unused_page_num hands out UnusedPage and leaves TakePage, with the
\* get_page by which every caller follows it.
UnusedPage(s) == IF s.free_page_head # 0 THEN s.free_page_head ELSE s.num_pages

TakePage(s) ==
  LET p == UnusedPage(s) IN
  IF s.free_page_head # 0
  THEN MarkAll([s EXCEPT !.free_page_head = s.link[p], !.link[p] = 0,
                         !.node[p] = EmptyLeaf], {0, p})
  ELSE Mark([s EXCEPT !.num_pages = @ + 1], p)

\* get_page refuses the page that get_unused_page_num names, and the process
\* exits; a root is split into two new pages.
NoPage(s) == s.free_page_head = 0 /\ s.num_pages >= TABLE_MAX_PAGES
NoPagesToSplit(s, p) == NoPage(s) \/ (s.node[p].root /\ NoPage(TakePage(s)))
Refused(s) == [s EXCEPT !.num_pages = TABLE_MAX_PAGES + 1]

\* As pager_free_page, but the pages behind the new head are lost.
FreePageUnlinked(s, p) ==
  MarkAll([s EXCEPT !.free_page_head = p, !.node[p] = EmptyLeaf], {0, p})

pager_free_page(s, p) ==
  IF p \in {0, MasterRoot} THEN s
  ELSE MarkAll([s EXCEPT !.link[p] = s.free_page_head, !.free_page_head = p,
                         !.node[p] = EmptyLeaf], {0, p})

\* The last key of the leaf that the right children below p lead to.  Nobody asks
\* for that of a node that has no right child yet.
get_node_max_key(s, p) ==
  LET Down(q) == LET n == s.node[q] IN IF n.leaf \/ n.kids = <<>> THEN q ELSE Last(n.kids)
      right[d \in 0 .. TABLE_MAX_PAGES] == IF d = 0 THEN p ELSE Down(right[d - 1])
      end == s.node[right[TABLE_MAX_PAGES]]
  IN IF ~end.leaf \/ end.keys = <<>> THEN 0 ELSE Last(end.keys)

-----------------------------------------------------------------------------
(* Searching: the binary searches of a node, which do not suppose that its *)
(* keys are in order, and the descent to a leaf.  Places count from 0; a   *)
(* search of n keys is over after n of its steps at the latest.            *)

ChildPlace(keys, key) ==
  LET Narrow(r) == LET i == (r.min + r.max) \div 2 IN
                   IF r.min = r.max THEN r
                   ELSE IF keys[i + 1] >= key THEN [r EXCEPT !.max = i]
                   ELSE [r EXCEPT !.min = i + 1]
      search[i \in 0 .. Len(keys)] ==
        IF i = 0 THEN [min |-> 0, max |-> Len(keys)] ELSE Narrow(search[i - 1])
  IN search[Len(keys)].min

\* As internal_node_find_child, but past a key that is equal.
ChildPastEqual(n, key) == ChildPlace(n.keys, key + 1)

internal_node_find_child(n, key) == ChildPlace(n.keys, key)

leaf_node_find(n, key) ==
  LET Narrow(r) == LET i == (r.min + r.max) \div 2 IN
                   IF r.min = r.max THEN r
                   ELSE IF n.keys[i + 1] = key THEN [min |-> i, max |-> i]
                   ELSE IF key < n.keys[i + 1] THEN [r EXCEPT !.max = i]
                   ELSE [r EXCEPT !.min = i + 1]
      search[i \in 0 .. Len(n.keys)] ==
        IF i = 0 THEN [min |-> 0, max |-> Len(n.keys)] ELSE Narrow(search[i - 1])
  IN search[Len(n.keys)].min

\* The descent to a leaf, at which it stays.
table_find(s, key) ==
  LET Down(p) == LET n == s.node[p] IN
                 IF n.leaf THEN p ELSE n.kids[internal_node_find_child(n, key) + 1]
      path[d \in 0 .. TABLE_MAX_PAGES] == IF d = 0 THEN Root ELSE Down(path[d - 1])
  IN path[TABLE_MAX_PAGES]

\* The key is in the cell that table_find returns.
table_has_key(s, key) ==
  LET n == s.node[table_find(s, key)]
      i == leaf_node_find(n, key)
  IN i < Len(n.keys) /\ n.keys[i + 1] = key

\* A cursor reads one cell of a leaf it advances to, even of an empty one.  rest
\* is what it reads from p on, when it has read the leaves in seen.
ScanFrom(s, start) ==
  LET rest[p \in Pages, seen \in SUBSET Pages] ==
        LET n == s.node[p]
            cells == IF n.keys = <<>> THEN <<n.stale>> ELSE n.keys
        IN IF n.next = 0 \/ n.next \in seen THEN cells
           ELSE cells \o rest[n.next, seen \cup {p}]
  IN rest[start, {start}]

\* table_start and cursor_advance: the keys a SELECT meets, in its order.
Scan(s) ==
  LET p == table_find(s, 0) IN
  IF s.node[p].keys = <<>> THEN <<>> ELSE ScanFrom(s, p)

-----------------------------------------------------------------------------
(* Growing. *)

\* The root keeps its page: its old content moves to a new left child.  The
\* children of that content get their new parent, but nobody marks them dirty.
create_new_root(s, right) ==
  LET old == s.node[Root]
      left == UnusedPage(s)
      s1 == TakePage(s)
      s2 == IF old.leaf THEN s1 ELSE initialize_internal_node(s1, right)
      s3 == [s2 EXCEPT !.node[left] = [old EXCEPT !.root = FALSE]]
      s4 == SetParents(s3, old.kids, left)
      s5 == [s4 EXCEPT !.node[Root] = [EmptyLeaf EXCEPT
                 !.leaf = FALSE, !.root = TRUE, !.parent = old.parent,
                 !.keys = <<get_node_max_key(s4, left)>>, !.kids = <<left, right>>]]
  IN SetParents(s5, <<left, right>>, Root)

\* The key of the right child would lie in a cell that is not in use.
update_internal_node_key(s, p, old_key, new_key) ==
  LET i == internal_node_find_child(s.node[p], old_key) IN
  IF i < Len(s.node[p].keys) THEN [s EXCEPT !.node[p].keys[i + 1] = new_key] ELSE s

\* After p has given cells or children away, its key in its parent.
UpdateKeyOf(s, p, old_max) ==
  update_internal_node_key(s, s.node[p].parent, old_max, get_node_max_key(s, p))

\* internal_node_insert into a node that has room.
TakeChild(s, p, child) ==
  LET n == s.node[p]
      child_max == get_node_max_key(s, child)
      right_max == get_node_max_key(s, Last(n.kids))
      i == internal_node_find_child(n, child_max) + 1
  IN IF n.kids = <<>>
     THEN Mark([s EXCEPT !.node[p].kids = <<child>>], p)
     ELSE IF child_max > right_max
     THEN Mark([s EXCEPT !.node[p].keys = Append(@, right_max),
                         !.node[p].kids = Append(@, child)], p)
     ELSE Mark([s EXCEPT !.node[p].keys = InsertAt(@, i, child_max),
                         !.node[p].kids = InsertAt(@, i, child)], p)

\* Moves the kids, the last one first, to the new node p.  A moved child gets
\* its new parent, but nobody marks it dirty.
MoveKids(s, kids, p) ==
  LET Move(t, kid) == SetParent(TakeChild(t, p, kid), kid, p)
      moved[i \in 0 .. Len(kids)] ==
        IF i = 0 THEN s ELSE Move(moved[i - 1], kids[Len(kids) - i + 1])
  IN moved[Len(kids)]

\* The upper half of the children of old moves to new, the right child first.
Halve(s, old, new) ==
  LET middle == INTERNAL_NODE_MAX_KEYS \div 2
      kids == s.node[old].kids
  IN [MoveKids(s, SubSeq(kids, middle + 2, Len(kids)), new)
        EXCEPT !.node[old].keys = SubSeq(@, 1, middle),
               !.node[old].kids = SubSeq(@, 1, middle + 1)]

InsertIntoHalf(s, old, new, child, child_max) ==
  LET destination == IF child_max < get_node_max_key(s, old) THEN old ELSE new
  IN SetParent(TakeChild(s, destination, child), child, destination)

\* internal_node_split_and_insert up to the key of the old node.  A root moves
\* to the left of two new pages first, and is split there.
SplitAndInsert(s, p, child) ==
  LET splitting_root == s.node[p].root
      marked == Mark(s, p)
      new == UnusedPage(marked)
      taken == TakePage(marked)
      old == IF splitting_root THEN UnusedPage(taken) ELSE p
      ready == IF splitting_root THEN create_new_root(taken, new)
               ELSE initialize_internal_node(taken, new)
      halves == InsertIntoHalf(Halve(ready, old, new), old, new,
                               child, get_node_max_key(s, child))
  IN UpdateKeyOf(halves, old, get_node_max_key(s, p))

\* What a split makes of c: one beside a node goes on in the parent of that node,
\* which takes the new one; the root has taken it already.
AfterSplit(c, split) ==
  LET new == UnusedPage(c.store)
  IN IF c.store.node[c.page].root THEN [c EXCEPT !.store = split, !.done = TRUE]
     ELSE [store |-> split, page |-> split.node[c.page].parent, child |-> new,
           splits |-> c.splits \cup {[new |-> new, old |-> c.page]}, done |-> FALSE]

\* One node on the way up takes a child, or is split.
InsertOnce(c) ==
  IF c.done THEN c
  ELSE IF Len(c.store.node[c.page].keys) < INTERNAL_NODE_MAX_KEYS
  THEN [c EXCEPT !.store = TakeChild(@, c.page, c.child), !.done = TRUE]
  ELSE IF NoPagesToSplit(c.store, c.page)
  THEN [c EXCEPT !.store = Refused(@), !.done = TRUE]
  ELSE AfterSplit(c, SplitAndInsert(c.store, c.page, c.child))

\* A new node gets the parent that the node it was split from has by then.
ParentsAs(s, splits) ==
  LET Old(q) == (CHOOSE d \in splits : d.new = q).old
  IN [s EXCEPT !.node = [q \in Pages |->
        IF \E d \in splits : d.new = q
        THEN [s.node[q] EXCEPT !.parent = s.node[Old(q)].parent] ELSE s.node[q]]]

\* Every split takes a page, so that there is none left for one more than there
\* are pages.
TreeAfter(c) == IF c.done THEN ParentsAs(c.store, c.splits) ELSE Refused(c.store)

\* internal_node_insert and internal_node_split_and_insert, which call each
\* other: up from p, until a node takes the child.
internal_node_insert(s, p, child) ==
  LET climb[i \in 0 .. TABLE_MAX_PAGES] ==
        IF i = 0
        THEN [store |-> s, page |-> p, child |-> child, splits |-> {}, done |-> FALSE]
        ELSE InsertOnce(climb[i - 1])
  IN TreeAfter(climb[TABLE_MAX_PAGES])

InsertBeside(s, p, new) == internal_node_insert(s, s.node[p].parent, new)

\* As NewLeaf, but the last cell is not counted.
NewLeafShort(parent, next, keys) ==
  [EmptyLeaf EXCEPT !.parent = parent, !.next = next, !.keys = Front(keys)]

NewLeaf(parent, next, keys) ==
  [EmptyLeaf EXCEPT !.parent = parent, !.next = next, !.keys = keys]

leaf_node_split_and_insert(s, p, cells) ==
  LET right_split == (MAX_CELLS + 1) \div 2
      left_split == (MAX_CELLS + 1) - right_split
      old == s.node[p]
      old_max == get_node_max_key(s, p)
      new == UnusedPage(s)
      s1 == [TakePage(Mark(s, p)) EXCEPT
               !.node[new] = NewLeaf(old.parent, old.next,
                                     SubSeq(cells, left_split + 1, MAX_CELLS + 1)),
               !.node[p] = [old EXCEPT !.next = new, !.keys = SubSeq(cells, 1, left_split)]]
  IN IF old.root THEN create_new_root(s1, new)
     ELSE InsertBeside(UpdateKeyOf(s1, p, old_max), p, new)

leaf_node_insert(s, p, key) ==
  LET n == s.node[p]
      cells == InsertAt(n.keys, leaf_node_find(n, key) + 1, key)
  IN IF Len(n.keys) < MAX_CELLS THEN Mark(SetCells(s, p, cells), p)
     ELSE IF NoPagesToSplit(s, p) THEN Refused(s)
     ELSE leaf_node_split_and_insert(s, p, cells)

-----------------------------------------------------------------------------
(* Shrinking. *)

leaf_node_min_cells == (MAX_CELLS + 1) \div 2

\* As RecomputeKeys, but the node is not marked.
RecomputeUnmarked(s, p) ==
  [s EXCEPT !.node[p].keys = [i \in DOMAIN @ |-> get_node_max_key(s, s.node[p].kids[i])]]

RecomputeKeys(s, p) ==
  Mark([s EXCEPT !.node[p].keys =
          [i \in DOMAIN @ |-> get_node_max_key(s, s.node[p].kids[i])]], p)

\* -1 stands for a child that is not found.
internal_node_find_child_index(s, p, child) ==
  LET kids == s.node[p].kids
  IN IF child \in ToSet(kids) THEN (CHOOSE i \in DOMAIN kids : kids[i] = child) - 1 ELSE -1

\* An internal node without keys: the root takes the content of its only child,
\* any other node gives its only child to its parent in its own place.
internal_rebalance_after_delete(s, p) ==
  LET n == s.node[p]
      child == n.kids[1]
      c == s.node[child]
      collapsed == [s EXCEPT !.node[p] = [c EXCEPT !.root = TRUE]]
      q == n.parent
      place == internal_node_find_child_index(s, q, p) + 1
      replaced == SetParent([s EXCEPT !.node[q].kids[place] = child], child, q)
  IN IF n.leaf \/ n.keys # <<>> \/ n.kids = <<>> THEN s
     ELSE IF n.root
     THEN SetParents(MarkAll(pager_free_page(collapsed, child), {p} \cup ToSet(c.kids)),
                     c.kids, p)
     ELSE IF p \notin ToSet(s.node[q].kids) THEN s
     ELSE pager_free_page(RecomputeKeys(MarkAll(replaced, {child, p}), q), p)

\* place is the index of the child, counted from 0.
internal_node_remove_child(s, p, place) ==
  LET n == s.node[p]
      key_place == IF place < Len(n.keys) THEN place + 1 ELSE Len(n.keys)
      removed == [s EXCEPT !.node[p].kids = RemoveAt(@, place + 1),
                           !.node[p].keys = RemoveAt(@, key_place)]
  IN internal_rebalance_after_delete(RecomputeKeys(removed, p), p)

\* As Borrow, but the key between the two leaves stays.
BorrowOnly(s, p, from, cells, rest) ==
  MarkAll(SetCells(SetCells(s, p, cells), from, rest), {p, from, s.node[p].parent})

\* As Borrow, but the neighbour is not marked.
BorrowUnmarked(s, p, from, cells, rest) ==
  RecomputeKeys(Mark(SetCells(SetCells(s, p, cells), from, rest), p), s.node[p].parent)

\* A cell moves from a neighbour to p: cells and rest are what they then hold.
Borrow(s, p, from, cells, rest) ==
  RecomputeKeys(MarkAll(SetCells(SetCells(s, p, cells), from, rest), {p, from}),
                s.node[p].parent)

\* As Merge, but `left` keeps its next leaf.
MergeUnchained(s, left, right, p, right_place) ==
  LET moved == SetCells(s, left, s.node[left].keys \o s.node[right].keys)
      emptied == MarkAll([moved EXCEPT !.node[right].keys = <<>>], {left, right})
  IN pager_free_page(internal_node_remove_child(emptied, p, right_place), right)

\* As Merge, but the page is not freed.
MergeLeaking(s, left, right, p, right_place) ==
  LET moved == SetCells(s, left, s.node[left].keys \o s.node[right].keys)
      unchained == [moved EXCEPT !.node[left].next = s.node[right].next,
                                 !.node[right].keys = <<>>]
  IN internal_node_remove_child(MarkAll(unchained, {left, right}), p, right_place)

\* All cells of `right` move to `left`, and the page of `right` is freed; p is
\* their parent, right_place the index of `right` in it.
Merge(s, left, right, p, right_place) ==
  LET moved == SetCells(s, left, s.node[left].keys \o s.node[right].keys)
      unchained == [moved EXCEPT !.node[left].next = s.node[right].next,
                                 !.node[right].keys = <<>>]
  IN pager_free_page(internal_node_remove_child(MarkAll(unchained, {left, right}),
                                                p, right_place),
                     right)

\* As CanGive, but a leaf gives what it needs itself.
CanGiveLast(s, p) == Len(s.node[p].keys) >= leaf_node_min_cells

\* As CanGive, but a leaf keeps one cell more.
CanGiveLess(s, p) == Len(s.node[p].keys) > leaf_node_min_cells + 1

CanGive(s, p) == Len(s.node[p].keys) > leaf_node_min_cells

\* A leaf below its minimum borrows a cell, from its left neighbour first, or
\* merges, with its left neighbour first.  Beside an internal node, which a
\* leaf may have as a neighbour after internal_rebalance_after_delete, it stays
\* as it is.
rebalance_leaf_after_delete(s, p) ==
  LET n == s.node[p]
      q == n.parent
      kids == s.node[q].kids
      i == internal_node_find_child_index(s, q, p)
      left == kids[i]
      right == kids[i + 2]
      Cells(k) == s.node[k].keys
      hasLeft == i > 0
      hasRight == i < Len(kids) - 1
  IN IF n.root \/ i < 0 THEN s
     ELSE IF Len(n.keys) >= leaf_node_min_cells THEN RecomputeKeys(s, q)
     ELSE IF hasLeft /\ ~s.node[left].leaf THEN RecomputeKeys(s, q)
     ELSE IF hasLeft /\ CanGive(s, left)
     THEN Borrow(s, p, left, <<Last(Cells(left))>> \o n.keys, Front(Cells(left)))
     ELSE IF hasRight /\ ~s.node[right].leaf THEN RecomputeKeys(s, q)
     ELSE IF hasRight /\ CanGive(s, right)
     THEN Borrow(s, p, right, Append(n.keys, Head(Cells(right))), Tail(Cells(right)))
     ELSE IF hasLeft THEN Merge(s, left, p, q, i)
     ELSE IF hasRight THEN Merge(s, p, right, q, i + 1)
     ELSE s

leaf_node_delete(s, p, key) ==
  LET n == s.node[p]
      cells == RemoveAt(n.keys, leaf_node_find(n, key) + 1)
      removed == [s EXCEPT !.node[p].keys = cells,
                           !.node[p].stale = IF cells = <<>> THEN key ELSE 0]
  IN rebalance_leaf_after_delete(Mark(removed, p), p)

-----------------------------------------------------------------------------
(* Statements.  Each commits the pages it has marked when it has ended.    *)

NewStore ==
  [node |-> [p \in Pages |-> IF p = Root THEN [EmptyLeaf EXCEPT !.root = TRUE]
                                         ELSE EmptyLeaf],
   free_page_head |-> 0, link |-> [p \in Pages |-> 0],
   num_pages |-> Root + 1, dirty |-> {}]

\* What a statement says, and the keys of the rows it shows.
Reply(result, shown) == [result |-> result, shown |-> shown]

Undirtied(s) == [s EXCEPT !.dirty = {}]

\* What the next process finds of s, of which only the marked pages are in the
\* log.  The header holds the head of the free list; the link of a free page is
\* a part of that page.
Committed(s) ==
  [node |-> [p \in Pages |-> IF p \in s.dirty THEN s.node[p] ELSE disk.node[p]],
   link |-> [p \in Pages |-> IF p \in s.dirty THEN s.link[p] ELSE disk.link[p]],
   free_page_head |-> IF 0 \in s.dirty THEN s.free_page_head ELSE disk.free_page_head,
   num_pages |-> s.num_pages,
   dirty |-> {}]

\* A statement leaves s and succeeds.
Becomes(s) == store' = Undirtied(s) /\ disk' = Committed(s) /\ reply' = Reply("ok", <<>>)

\* The process ends without db_close; the next one reads every page again.  It
\* knows num_pages again: the pages are in the file, after a checkpoint, or an
\* insert reads them (find_table_max_key goes through all leaves).
ProcessEnds == store' = disk /\ reply' = Reply("ok", <<>>) /\ UNCHANGED disk

\* The tree after a table's first rows, each inserted by a process that closes the
\* database; one that get_page refuses a page changes nothing.
Init ==
  LET Insert(s, key) ==
        LET t == leaf_node_insert(s, table_find(s, key), key)
        IN IF t.num_pages > TABLE_MAX_PAGES THEN s ELSE t
      grown[i \in 0 .. Len(bounds.rows)] ==
        IF i = 0 THEN NewStore ELSE Insert(grown[i - 1], bounds.rows[i])
  IN /\ bounds \in Scopes
     /\ store = Undirtied(grown[Len(bounds.rows)])
     /\ disk = store
     /\ reply = Reply("ok", <<>>)

\* get_page may have refused a page, and have ended the process.
BecomesOrEnds(s) == IF s.num_pages > TABLE_MAX_PAGES THEN ProcessEnds ELSE Becomes(s)

insert_row_into_table(key) ==
  IF table_has_key(store, key)
  THEN reply' = Reply("duplicate", <<>>) /\ UNCHANGED <<store, disk>>
  ELSE BecomesOrEnds(leaf_node_insert(store, table_find(store, key), key))

execute_delete(key) ==
  IF table_has_key(store, key)
  THEN Becomes(leaf_node_delete(store, table_find(store, key), key))
  ELSE reply' = Reply("not found", <<>>) /\ UNCHANGED <<store, disk>>

execute_select == reply' = Reply("ok", Scan(store)) /\ UNCHANGED <<store, disk>>

Crash == MAY_CRASH /\ ProcessEnds

\* db_close marks every cached page, so that every change is committed.
Reopen ==
  /\ disk' = store
  /\ reply' = Reply("ok", <<>>)
  /\ UNCHANGED store

Insert == \E key \in bounds.inserts : insert_row_into_table(key)
Delete == \E key \in bounds.deletes : execute_delete(key)
Next ==
  /\ Insert \/ Delete \/ execute_select \/ Crash \/ Reopen
  /\ UNCHANGED bounds

Spec == Init /\ [][Next]_vars
=============================================================================
