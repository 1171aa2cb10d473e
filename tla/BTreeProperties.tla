-------------------------- MODULE BTreeProperties ---------------------------
(***************************************************************************)
(* What the B+ tree must do, stated over the states and steps of BTree.    *)
(***************************************************************************)
EXTENDS BTree

\* The pages of the tree below p, counted with their repetitions: d levels of it.
Reached(s, p) ==
  LET below[d \in 0 .. TABLE_MAX_PAGES, q \in Pages] ==
        LET kids == s.node[q].kids IN
        IF d = 0 THEN <<q>>
        ELSE <<q>> \o FlattenSeq([i \in DOMAIN kids |-> below[d - 1, kids[i]]])
  IN below[TABLE_MAX_PAGES, p]

TreePages(s) == ToSet(Reached(s, Root))

\* The rows in the leaves below p.
LeafKeys(s, p) == IF s.node[p].leaf THEN ToSet(s.node[p].keys) ELSE {}
KeysBelow(s, p) ==
  LET below[d \in 0 .. TABLE_MAX_PAGES, q \in Pages] ==
        IF d = 0 THEN {}
        ELSE LeafKeys(s, q) \cup UNION {below[d - 1, c] : c \in ToSet(s.node[q].kids)}
  IN below[TABLE_MAX_PAGES, p]
Rows == KeysBelow(store, Root)

\* The pages of the free list.
FreeList(s) ==
  LET list[i \in 0 .. TABLE_MAX_PAGES] ==
        IF i = 0 THEN <<>>
        ELSE LET before == list[i - 1]
                 p == IF before = <<>> THEN s.free_page_head ELSE s.link[Last(before)]
             IN IF p = 0 THEN before ELSE Append(before, p)
  IN list[TABLE_MAX_PAGES]

-----------------------------------------------------------------------------
\* Every reply of a statement is that of a table with the rows of the tree, and
\* no split, merge, borrow, collapse, crash or reopening changes those rows.
AllKeys == UNION {ToSet(s.rows) \cup s.inserts \cup s.deletes : s \in Scopes}
Table == INSTANCE RowTable WITH rows <- Rows, Keys <- AllKeys
ImplementsRowTable == Table!RTSpec

\* A constraint, not a property: no leaf is empty beside others.  It cuts off
\* what MCBTreeDelete shows, so that the tree is examined up to that point.
NoEmptyLeaf ==
  \A p \in TreePages(store) \ {Root} : store.node[p].leaf => store.node[p].keys # <<>>

\* Every page of the database is used once: by the header, the catalog, the
\* tree or the free list.
PagesAccounted ==
  LET used == <<0, MasterRoot>> \o Reached(store, Root)
                 \o FreeList(store)
  IN IsInjective(used) /\ ToSet(used) = 0 .. store.num_pages - 1

\* Splits and deletes follow the parent pointers, so they must be right.
ParentsExact ==
  \A p \in Pages : \A c \in ToSet(store.node[p].kids) : store.node[c].parent = p

\* The least that inserts need of them: that they name internal nodes.
ParentsInternal ==
  \A p \in Pages : \A c \in ToSet(store.node[p].kids) : ~store.node[store.node[c].parent].leaf

\* A key of an internal node parts the rows below its two neighbours.
KeysSeparate ==
  \A p \in {q \in TreePages(store) : ~store.node[q].leaf} :
    LET n == store.node[p] IN
    \A i \in DOMAIN n.keys :
      /\ \A k \in KeysBelow(store, n.kids[i]) : k <= n.keys[i]
      /\ \A k \in KeysBelow(store, n.kids[i + 1]) : k > n.keys[i]

\* Deletes rebalance: a leaf that is not the root keeps its minimum of cells.
LeavesFilled ==
  \A p \in TreePages(store) \ {Root} :
    store.node[p].leaf => Len(store.node[p].keys) >= leaf_node_min_cells

\* A statement marks every page it changes, so that what it commits is what it
\* has in memory: every page, parent pointers excepted.
WithoutParent(n) == [n EXCEPT !.parent = 0]
CommitsItsChanges ==
  /\ \A p \in Pages : WithoutParent(disk.node[p]) = WithoutParent(store.node[p])
  /\ \A f \in DOMAIN store \ {"node"} : disk[f] = store[f]

-----------------------------------------------------------------------------
(* What holds page by page, whatever the order of the keys is.  A page is  *)
(* loose while a statement has it and no other page names it.              *)

Node == [leaf : BOOLEAN, root : BOOLEAN, parent : Pages, keys : Seq(Nat),
         kids : Seq(Pages), next : Pages, stale : Nat]

Stores == [node : [Pages -> Node], link : [Pages -> Pages], free_page_head : Pages,
           num_pages : Nat, dirty : SUBSET Pages]

\* Whose page p is: a node's, or the free list's.
IsKid(s, p) == \E q \in Pages : p \in ToSet(s.node[q].kids)
IsFree(s, p) == p # 0 /\ (p = s.free_page_head \/ \E q \in Pages : s.link[q] = p)

KidsOnce(s) ==
  /\ \A p \in Pages : IsInjective(s.node[p].kids)
  /\ \A p, q \in Pages : p # q => ToSet(s.node[p].kids) \cap ToSet(s.node[q].kids) = {}

ListOnce(s) ==
  \A p \in Pages : s.link[p] # 0 =>
    /\ IsFree(s, p) /\ s.link[p] # s.free_page_head
    /\ \A q \in Pages : s.link[q] = s.link[p] => q = p

OneOwner(s, loose) ==
  \A p \in Pages :
    /\ IsKid(s, p) \/ IsFree(s, p) \/ p \in loose <=> p \in Root + 1 .. s.num_pages - 1
    /\ ~(IsKid(s, p) /\ IsFree(s, p))
    /\ p \in loose => ~IsKid(s, p) /\ ~IsFree(s, p)

\* Every page behind the root is used once, as the child of a node or in the
\* free list; no page is lost.
PagesUsedOnce == KidsOnce(store) /\ ListOnce(store) /\ OneOwner(store, {})

\* No leaf has more cells, and no internal node more keys, than there is room
\* for; an internal node has one child more than it has keys.
Fits(n) ==
  IF n.leaf THEN n.kids = <<>> /\ Len(n.keys) <= MAX_CELLS
  ELSE Len(n.kids) = Len(n.keys) + 1 /\ Len(n.keys) <= INTERNAL_NODE_MAX_KEYS
NodesFit == \A p \in Pages : Fits(store.node[p])

\* No statement changes the rows in the leaves but by the key that it names.
StoredRows(s) == UNION {LeafKeys(s, p) : p \in Pages}
KeepsRows ==
  LET before == StoredRows(store)
      after == StoredRows(store')
  IN \/ after = before
     \/ \E key \in bounds.inserts : after = before \cup {key}
     \/ \E key \in bounds.deletes : before \ {key} \subseteq after /\ after \subseteq before
RowsKept == [][KeepsRows]_vars

\* The inductive invariant of the proofs.
Shaped(s) == \A p \in Pages : Fits(s.node[p]) /\ (s.node[p].root <=> p = Root)
IsBlank(n) == n.leaf /\ n.keys = <<>> /\ n.kids = <<>>
UnusedBlank(s) ==
  \A p \in Pages : IsFree(s, p) \/ p < Root \/ p >= s.num_pages => IsBlank(s.node[p])
IsTree(s, loose) ==
  /\ s \in Stores
  /\ s.num_pages \in Root + 1 .. TABLE_MAX_PAGES
  /\ Shaped(s) /\ KidsOnce(s) /\ ListOnce(s) /\ OneOwner(s, loose) /\ UnusedBlank(s)

IInv ==
  /\ bounds \in Scopes
  /\ IsTree(store, {}) /\ store.dirty = {}
  /\ disk \in Stores /\ CommitsItsChanges
=============================================================================
