----------------------------- MODULE BTreeLemmas -----------------------------
(***************************************************************************)
(* What the operations of BTree on pages and internal nodes do, for every  *)
(* number of pages, cells and keys.                                        *)
(***************************************************************************)
EXTENDS BTreeProperties, Lemmas

-----------------------------------------------------------------------------
(* Constants, types and searches. *)

\* The first pages and the capacities.
LEMMA Constants ==
  /\ INTERNAL_NODE_MAX_KEYS \in Nat /\ INTERNAL_NODE_MAX_KEYS >= 3
  /\ MAX_CELLS \in Nat /\ MAX_CELLS >= 1
  /\ TABLE_MAX_PAGES \in Nat /\ TABLE_MAX_PAGES > 2
  /\ Root = 2 /\ MasterRoot = 1
  /\ Pages \subseteq Nat /\ 0 \in Pages /\ 1 \in Pages /\ Root \in Pages
BY BTreeAssumption DEF Root, MasterRoot, Pages

\* The search of an internal node ends at one of its children.
LEMMA ChildPlaceInRange ==
  ASSUME NEW keys \in Seq(Nat), NEW key \in Nat
  PROVE  ChildPlace(keys, key) \in 0 .. Len(keys)
<1> DEFINE n == Len(keys)
           A == {r \in [min : 0 .. n, max : 0 .. n] : r.min <= r.max}
           Narrow(r) == LET i == (r.min + r.max) \div 2 IN
                        IF r.min = r.max THEN r
                        ELSE IF keys[i + 1] >= key THEN [r EXCEPT !.max = i]
                        ELSE [r EXCEPT !.min = i + 1]
           search[i \in 0 .. n] ==
             IF i = 0 THEN [min |-> 0, max |-> n] ELSE Narrow(search[i - 1])
<1>0. n \in Nat
  OBVIOUS
<1>1. ASSUME NEW r \in A
      PROVE  Narrow(r) \in A
  <2> DEFINE i == (r.min + r.max) \div 2
  <2>1. /\ r \in [min : 0 .. n, max : 0 .. n] /\ r.min \in Nat /\ r.max \in Nat
        /\ r.min <= r.max /\ r.max <= n
    BY <1>0
  <2>2. CASE r.min # r.max
    <3>1. i \in Nat /\ r.min <= i /\ i < r.max
      BY <2>1, <2>2
    <3> HIDE DEF i
    <3>0. i \in 0 .. n /\ i + 1 \in 0 .. n /\ i + 1 <= r.max
      BY <1>0, <2>1, <3>1
    <3> HIDE DEF n
    <3>2. [r EXCEPT !.max = i] \in A
      BY <2>1, <3>0, <3>1
    <3>3. [r EXCEPT !.min = i + 1] \in A
      BY <2>1, <3>0
    <3> HIDE DEF A
    <3> QED BY <2>2, <3>2, <3>3 DEF i
  <2>3. CASE r.min = r.max
    BY <2>3
  <2> QED BY <2>2, <2>3
<1>2. [min |-> 0, max |-> n] \in A
  BY <1>0
<1> DEFINE step == [i \in 1 .. n |-> [r \in A |-> Narrow(r)]]
           base == [min |-> 0, max |-> n]
<1> HIDE DEF A, Narrow
<1>3. AreSteps(step, n, A) /\ base \in A
  BY <1>1, <1>2 DEF AreSteps
<1>4. PICK f : Iterates(f, base, step, n, A)
  <2> HIDE DEF step, base, n
  <2> QED BY <1>0, <1>3, Iteration
<1>5. f = [i \in 0 .. n |-> IF i = 0 THEN [min |-> 0, max |-> n] ELSE Narrow(f[i - 1])]
  <2>1. \A i \in 1 .. n : i - 1 \in 0 .. n /\ f[i - 1] \in A /\ f[i] = Narrow(f[i - 1])
    <3> SUFFICES ASSUME NEW i \in 1 .. n
                 PROVE  i - 1 \in 0 .. n /\ f[i - 1] \in A /\ f[i] = Narrow(f[i - 1])
      OBVIOUS
    <3>1. i - 1 \in 0 .. n /\ f[i] = step[i][f[i - 1]]
      BY <1>0, <1>4 DEF Iterates
    <3>2. f[i - 1] \in A
      BY <3>1, <1>4 DEF Iterates
    <3> QED BY <3>1, <3>2
  <2> QED BY <1>0, <1>4, <2>1 DEF Iterates
<1>6. search = [i \in 0 .. n |-> IF i = 0 THEN [min |-> 0, max |-> n] ELSE Narrow(search[i - 1])]
  BY <1>5, Zenon
<1> HIDE DEF search
<1>7. \A i \in 0 .. n : search[i] \in A
  <2> DEFINE T == {i \in 0 .. n : search[i] \in A}
  <2>1. 0 \in T
    BY <1>0, <1>2, <1>6
  <2>2. ASSUME NEW k \in 0 .. n - 1, k \in T
        PROVE  k + 1 \in T
    <3>1. k + 1 \in 0 .. n /\ k + 1 # 0 /\ (k + 1) - 1 = k
      BY <1>0
    <3>2. search[k + 1] = Narrow(search[k])
      BY <1>6, <3>1
    <3> QED BY <1>1, <2>2, <3>1, <3>2
  <2> HIDE DEF T
  <2>3. \A k \in 0 .. n : k \in T
    BY <1>0, <2>1, <2>2, UpTo
  <2> QED BY <2>3 DEF T
<1>8. search[n].min \in 0 .. n
  BY <1>0, <1>7 DEF A
<1>9. ChildPlace(keys, key) = search[n].min
  BY Zenon DEF ChildPlace, search, Narrow
<1> QED BY <1>8, <1>9

-----------------------------------------------------------------------------
(* Stores. *)

\* What a store says of the free list and the pages in use.
SameList(s, t) ==
  t.link = s.link /\ t.free_page_head = s.free_page_head /\ t.num_pages = s.num_pages

\* The same node, its parent pointer excepted.
Alike(m, n) ==
  /\ m.leaf = n.leaf /\ m.root = n.root /\ m.keys = n.keys
  /\ m.kids = n.kids /\ m.next = n.next /\ m.stale = n.stale

\* The same node as far as the tree is concerned: where the keys of an internal
\* node lie makes no difference.
Like(m, n) ==
  /\ m.leaf = n.leaf /\ m.root = n.root /\ m.kids = n.kids
  /\ IF n.leaf THEN m.keys = n.keys ELSE Len(m.keys) = Len(n.keys)

\* The fields of a node.
LEMMA NodeFields ==
  ASSUME NEW s \in Stores, NEW p \in Pages
  PROVE  /\ s.node[p] \in Node /\ s.link[p] \in Pages
         /\ s.node[p].leaf \in BOOLEAN /\ s.node[p].root \in BOOLEAN
         /\ s.node[p].parent \in Pages /\ s.node[p].next \in Pages
         /\ s.node[p].keys \in Seq(Nat) /\ s.node[p].kids \in Seq(Pages)
         /\ s.node[p].stale \in Nat
BY DEF Stores, Node

\* A new node in a page.
With(s, p, n) == [s EXCEPT !.node[p] = n]

\* What a store has then.
LEMMA Written ==
  ASSUME NEW s \in Stores, NEW p \in Pages, NEW n \in Node, NEW t, t = With(s, p, n)
  PROVE  /\ t \in Stores /\ SameList(s, t) /\ t.dirty = s.dirty
         /\ t.node[p] = n /\ \A q \in Pages \ {p} : t.node[q] = s.node[q]
BY DEF Stores, SameList, With

\* New marks.
LEMMA Marked ==
  ASSUME NEW s \in Stores, NEW P \in SUBSET Pages, NEW t, t = MarkAll(s, P)
  PROVE  /\ t \in Stores /\ SameList(s, t) /\ t.dirty = s.dirty \cup P
         /\ t.node = s.node
BY DEF Stores, SameList, MarkAll

\* A mark.
LEMMA MarkedOne ==
  ASSUME NEW s \in Stores, NEW p \in Pages, NEW t, t = Mark(s, p)
  PROVE  /\ t \in Stores /\ SameList(s, t) /\ t.dirty = s.dirty \cup {p}
         /\ t.node = s.node
BY DEF Stores, SameList, Mark

\* t is s but for q, the parent that the pages in P have.
Adopts(s, t, P, q) ==
  /\ t \in Stores /\ SameList(s, t) /\ t.dirty = s.dirty
  /\ \A p \in Pages :
       /\ Alike(t.node[p], s.node[p])
       /\ t.node[p].parent = IF p \in P THEN q ELSE s.node[p].parent

\* New parents of several pages.
LEMMA Adopted ==
  ASSUME NEW s \in Stores, NEW kids \in Seq(Pages), NEW q \in Pages, NEW t,
         t = SetParents(s, kids, q)
  PROVE  Adopts(s, t, ToSet(kids), q)
<1> DEFINE P == ToSet(kids)
<1>1. t = [s EXCEPT !.node = [p \in Pages |-> IF p \in P THEN [s.node[p] EXCEPT !.parent = q]
                                             ELSE s.node[p]]]
  BY DEF SetParents, Reparented
<1> HIDE DEF P
<1>2. \A p \in Pages : s.node[p] \in Node
  BY NodeFields
<1>3. \A n \in Node : [n EXCEPT !.parent = q] \in Node /\ Alike([n EXCEPT !.parent = q], n)
                     /\ [n EXCEPT !.parent = q].parent = q
  BY DEF Node, Alike
<1>4. /\ t.node = [p \in Pages |-> IF p \in P THEN [s.node[p] EXCEPT !.parent = q] ELSE s.node[p]]
      /\ SameList(s, t) /\ t.dirty = s.dirty
  BY <1>1 DEF Stores, SameList
<1>5. t.node \in [Pages -> Node]
  BY <1>2, <1>3, <1>4
<1>6. t \in Stores
  BY <1>1, <1>4, <1>5 DEF Stores
<1> QED BY <1>2, <1>3, <1>4, <1>6 DEF P, Alike, Adopts

\* A new parent.
LEMMA AdoptedOne ==
  ASSUME NEW s \in Stores, NEW p \in Pages, NEW q \in Pages, NEW t, t = SetParent(s, p, q)
  PROVE  Adopts(s, t, {p}, q)
<1> DEFINE n == [s.node[p] EXCEPT !.parent = q]
<1>1. n \in Node /\ Alike(n, s.node[p]) /\ n.parent = q
  BY NodeFields DEF Node, Alike
<1>2. t = With(s, p, n)
  BY DEF SetParent, With
<1> HIDE DEF n
<1>3. /\ t \in Stores /\ SameList(s, t) /\ t.dirty = s.dirty
      /\ t.node[p] = n /\ \A r \in Pages \ {p} : t.node[r] = s.node[r]
  BY <1>1, <1>2, Written
<1> QED BY <1>1, <1>3 DEF Alike, Adopts

-----------------------------------------------------------------------------
(* Searches. *)

\* The search of a leaf ends at one of its cells or behind the last one.
LEMMA CellPlaceInRange ==
  ASSUME NEW node, node.keys \in Seq(Nat), NEW key \in Nat
  PROVE  leaf_node_find(node, key) \in 0 .. Len(node.keys)
<1> DEFINE keys == node.keys
           n == Len(keys)
           A == {r \in [min : 0 .. n, max : 0 .. n] : r.min <= r.max}
           Narrow(r) == LET i == (r.min + r.max) \div 2 IN
                        IF r.min = r.max THEN r
                        ELSE IF keys[i + 1] = key THEN [min |-> i, max |-> i]
                        ELSE IF key < keys[i + 1] THEN [r EXCEPT !.max = i]
                        ELSE [r EXCEPT !.min = i + 1]
           search[i \in 0 .. n] ==
             IF i = 0 THEN [min |-> 0, max |-> n] ELSE Narrow(search[i - 1])
<1>0. n \in Nat
  OBVIOUS
<1>1. ASSUME NEW r \in A
      PROVE  Narrow(r) \in A
  <2> DEFINE i == (r.min + r.max) \div 2
  <2>1. /\ r \in [min : 0 .. n, max : 0 .. n] /\ r.min \in Nat /\ r.max \in Nat
        /\ r.min <= r.max /\ r.max <= n
    BY <1>0
  <2>2. CASE r.min # r.max
    <3>1. i \in Nat /\ r.min <= i /\ i < r.max
      BY <2>1, <2>2
    <3> HIDE DEF i
    <3>0. i \in 0 .. n /\ i + 1 \in 0 .. n /\ i + 1 <= r.max
      BY <1>0, <2>1, <3>1
    <3> HIDE DEF n
    <3>2. [r EXCEPT !.max = i] \in A
      BY <2>1, <3>0, <3>1
    <3>3. [r EXCEPT !.min = i + 1] \in A
      BY <2>1, <3>0
    <3>4. [min |-> i, max |-> i] \in A
      BY <3>0, <3>1
    <3> HIDE DEF A
    <3> QED BY <2>2, <3>2, <3>3, <3>4 DEF i
  <2>3. CASE r.min = r.max
    BY <2>3
  <2> QED BY <2>2, <2>3
<1>2. [min |-> 0, max |-> n] \in A
  BY <1>0
<1> DEFINE step == [i \in 1 .. n |-> [r \in A |-> Narrow(r)]]
           base == [min |-> 0, max |-> n]
<1> HIDE DEF A, Narrow
<1>3. AreSteps(step, n, A) /\ base \in A
  BY <1>1, <1>2 DEF AreSteps
<1>4. PICK f : Iterates(f, base, step, n, A)
  <2> HIDE DEF step, base, n
  <2> QED BY <1>0, <1>3, Iteration
<1>5. f = [i \in 0 .. n |-> IF i = 0 THEN [min |-> 0, max |-> n] ELSE Narrow(f[i - 1])]
  <2>1. \A i \in 1 .. n : i - 1 \in 0 .. n /\ f[i - 1] \in A /\ f[i] = Narrow(f[i - 1])
    <3> SUFFICES ASSUME NEW i \in 1 .. n
                 PROVE  i - 1 \in 0 .. n /\ f[i - 1] \in A /\ f[i] = Narrow(f[i - 1])
      OBVIOUS
    <3> HIDE DEF step, base, n
    <3>1. i - 1 \in 0 .. n /\ f[i] = step[i][f[i - 1]]
      BY <1>0, <1>4 DEF Iterates
    <3>2. f[i - 1] \in A
      BY <3>1, <1>4 DEF Iterates
    <3> QED BY <3>1, <3>2 DEF step
  <2> QED BY <1>0, <1>4, <2>1 DEF Iterates
<1>6. search = [i \in 0 .. n |-> IF i = 0 THEN [min |-> 0, max |-> n] ELSE Narrow(search[i - 1])]
  BY <1>5, Zenon
<1> HIDE DEF search
<1>7. \A i \in 0 .. n : search[i] \in A
  <2> DEFINE T == {i \in 0 .. n : search[i] \in A}
  <2>1. 0 \in T
    BY <1>0, <1>2, <1>6
  <2>2. ASSUME NEW k \in 0 .. n - 1, k \in T
        PROVE  k + 1 \in T
    <3>1. k + 1 \in 0 .. n /\ k + 1 # 0 /\ (k + 1) - 1 = k
      BY <1>0
    <3>2. search[k + 1] = Narrow(search[k])
      BY <1>6, <3>1
    <3> QED BY <1>1, <2>2, <3>1, <3>2
  <2> HIDE DEF T
  <2>3. \A k \in 0 .. n : k \in T
    BY <1>0, <2>1, <2>2, UpTo
  <2> QED BY <2>3 DEF T
<1>8. search[n].min \in 0 .. n
  BY <1>0, <1>7 DEF A
<1>9. leaf_node_find(node, key) = search[n].min
  BY Zenon DEF leaf_node_find, search, Narrow
<1> QED BY <1>8, <1>9

\* The largest key of a node is a number.
LEMMA MaxKeyIsNat ==
  ASSUME NEW s \in Stores, NEW p \in Pages
  PROVE  get_node_max_key(s, p) \in Nat
<1> DEFINE n == TABLE_MAX_PAGES
           Down(q) == LET m == s.node[q] IN IF m.leaf \/ m.kids = <<>> THEN q ELSE Last(m.kids)
           right[d \in 0 .. n] == IF d = 0 THEN p ELSE Down(right[d - 1])
           step == [i \in 1 .. n |-> [q \in Pages |-> Down(q)]]
<1>0. n \in Nat
  BY Constants
<1>1. \A q \in Pages : Down(q) \in Pages
  <2> TAKE q \in Pages
  <2>1. s.node[q].kids \in Seq(Pages)
    BY NodeFields
  <2> QED BY <2>1 DEF Last
<1> HIDE DEF Down
<1>2. AreSteps(step, n, Pages)
  BY <1>1 DEF AreSteps
<1>3. PICK f : Iterates(f, p, step, n, Pages)
  <2> HIDE DEF step, n
  <2> QED BY <1>0, <1>2, Iteration
<1>4. f = [d \in 0 .. n |-> IF d = 0 THEN p ELSE Down(f[d - 1])]
  <2>1. \A i \in 1 .. n : i - 1 \in 0 .. n /\ f[i - 1] \in Pages /\ f[i] = Down(f[i - 1])
    <3> SUFFICES ASSUME NEW i \in 1 .. n
                 PROVE  i - 1 \in 0 .. n /\ f[i - 1] \in Pages /\ f[i] = Down(f[i - 1])
      OBVIOUS
    <3>1. i - 1 \in 0 .. n /\ f[i] = step[i][f[i - 1]]
      BY <1>0, <1>3 DEF Iterates
    <3>2. f[i - 1] \in Pages
      BY <3>1, <1>3 DEF Iterates
    <3> QED BY <3>1, <3>2
  <2> QED BY <1>0, <1>3, <2>1 DEF Iterates
<1>5. right = f
  <2>1. right = [d \in 0 .. n |-> IF d = 0 THEN p ELSE Down(right[d - 1])]
    BY <1>4, Zenon
  <2> DEFINE T == {d \in 0 .. n : right[d] = f[d]}
  <2> HIDE DEF right
  <2>2. 0 \in T
    BY <1>0, <1>4, <2>1
  <2>3. ASSUME NEW k \in 0 .. n - 1, k \in T
        PROVE  k + 1 \in T
    <3>1. k + 1 \in 0 .. n /\ k + 1 # 0 /\ (k + 1) - 1 = k
      BY <1>0
    <3>2. right[k + 1] = Down(right[k]) /\ f[k + 1] = Down(f[k])
      BY <1>4, <2>1, <3>1
    <3> QED BY <2>3, <3>1, <3>2
  <2> HIDE DEF T
  <2>4. \A k \in 0 .. n : k \in T
    BY <1>0, <2>2, <2>3, UpTo
  <2>5. \A k \in 0 .. n : right[k] = f[k]
    BY <2>4 DEF T
  <2> QED BY <1>4, <2>1, <2>5
<1>6. right[n] \in Pages
  <2>1. n \in 0 .. n /\ f \in [0 .. n -> Pages]
    BY <1>0, <1>3 DEF Iterates
  <2> QED BY <1>5, <2>1
<1>7. get_node_max_key(s, p) = LET end == s.node[right[n]]
                               IN IF ~end.leaf \/ end.keys = <<>> THEN 0 ELSE Last(end.keys)
  BY Zenon DEF get_node_max_key, right, Down
<1> HIDE DEF right
<1>8. s.node[right[n]].keys \in Seq(Nat)
  BY <1>6, NodeFields
<1> QED BY <1>7, <1>8 DEF Last

\* The descent ends at a leaf, which is the root or a child of a node: on a way
\* that did not end, one of the pages would be met again.
LEMMA DescentEnds ==
  ASSUME NEW s, NEW L, IsTree(s, L), NEW key \in Nat, NEW p, p = table_find(s, key)
  PROVE  p \in Pages /\ s.node[p].leaf /\ (p = Root \/ IsKid(s, p))
<1> DEFINE n == TABLE_MAX_PAGES
           Down(q) == LET m == s.node[q] IN
                      IF m.leaf THEN q ELSE m.kids[internal_node_find_child(m, key) + 1]
           path[d \in 0 .. n] == IF d = 0 THEN Root ELSE Down(path[d - 1])
           step == [i \in 1 .. n |-> [q \in Pages |-> Down(q)]]
<1>0. n \in Nat /\ Root \in Pages /\ s \in Stores
  BY Constants DEF IsTree
<1>1. \A q \in Pages : /\ Down(q) \in Pages
                      /\ IF s.node[q].leaf THEN Down(q) = q
                         ELSE Down(q) \in ToSet(s.node[q].kids)
  <2> TAKE q \in Pages
  <2>1. CASE s.node[q].leaf
    BY <2>1
  <2>2. CASE ~s.node[q].leaf
    <3> DEFINE m == s.node[q]
               i == internal_node_find_child(m, key)
    <3>1. m.kids \in Seq(Pages) /\ m.keys \in Seq(Nat) /\ Len(m.kids) = Len(m.keys) + 1
      BY <1>0, <2>2, NodeFields DEF IsTree, Shaped, Fits
    <3>2. i \in 0 .. Len(m.keys)
      BY <3>1, ChildPlaceInRange DEF internal_node_find_child
    <3> HIDE DEF i
    <3>3. i + 1 \in 1 .. Len(m.kids) /\ DOMAIN m.kids = 1 .. Len(m.kids)
      BY <3>1, <3>2
    <3>4. m.kids[i + 1] \in ToSet(m.kids) /\ m.kids[i + 1] \in Pages
      BY <3>1, <3>3 DEF ToSet
    <3>5. Down(q) = m.kids[i + 1]
      BY <2>2 DEF i
    <3> QED BY <2>2, <3>4, <3>5
  <2> QED BY <2>1, <2>2
<1> HIDE DEF Down
<1>2. AreSteps(step, n, Pages)
  BY <1>1 DEF AreSteps
<1>3. PICK f : Iterates(f, Root, step, n, Pages)
  <2> HIDE DEF step, n
  <2> QED BY <1>0, <1>2, Iteration
<1>4. \A i \in 1 .. n : i - 1 \in 0 .. n /\ f[i - 1] \in Pages /\ f[i] = Down(f[i - 1])
  <2> SUFFICES ASSUME NEW i \in 1 .. n
               PROVE  i - 1 \in 0 .. n /\ f[i - 1] \in Pages /\ f[i] = Down(f[i - 1])
    OBVIOUS
  <2>1. i - 1 \in 0 .. n /\ f[i] = step[i][f[i - 1]]
    BY <1>0, <1>3 DEF Iterates
  <2>2. f[i - 1] \in Pages
    BY <2>1, <1>3 DEF Iterates
  <2> QED BY <2>1, <2>2
<1>5. f = [d \in 0 .. n |-> IF d = 0 THEN Root ELSE Down(f[d - 1])]
  BY <1>0, <1>3, <1>4 DEF Iterates
<1>6. path = f
  <2>1. path = [d \in 0 .. n |-> IF d = 0 THEN Root ELSE Down(path[d - 1])]
    BY <1>5, Zenon
  <2> DEFINE T == {d \in 0 .. n : path[d] = f[d]}
  <2> HIDE DEF path
  <2>2. 0 \in T
    BY <1>0, <1>5, <2>1
  <2>3. ASSUME NEW k \in 0 .. n - 1, k \in T
        PROVE  k + 1 \in T
    <3>1. k + 1 \in 0 .. n /\ k + 1 # 0 /\ (k + 1) - 1 = k
      BY <1>0
    <3>2. path[k + 1] = Down(path[k]) /\ f[k + 1] = Down(f[k])
      BY <1>5, <2>1, <3>1
    <3> QED BY <2>3, <3>1, <3>2
  <2> HIDE DEF T
  <2>4. \A k \in 0 .. n : k \in T
    BY <1>0, <2>2, <2>3, UpTo
  <2>5. \A k \in 0 .. n : path[k] = f[k]
    BY <2>4 DEF T
  <2> QED BY <1>5, <2>1, <2>5
<1>7. p = f[n]
  <2>1. p = path[n]
    BY Zenon DEF table_find, path, Down
  <2> HIDE DEF path
  <2> QED BY <1>6, <2>1
<1> HIDE DEF path, step
<1>8. f[0] = Root /\ \A d \in 0 .. n : f[d] \in Pages
  BY <1>0, <1>3 DEF Iterates
<1>9. \A d \in 0 .. n : f[d] = Root \/ IsKid(s, f[d])
  <2> DEFINE T == {d \in 0 .. n : f[d] = Root \/ IsKid(s, f[d])}
  <2>1. 0 \in T
    BY <1>0, <1>8
  <2>2. ASSUME NEW k \in 0 .. n - 1, k \in T
        PROVE  k + 1 \in T
    <3>1. k + 1 \in 1 .. n /\ (k + 1) - 1 = k /\ k \in 0 .. n
      BY <1>0
    <3>2. f[k] \in Pages /\ f[k + 1] = Down(f[k])
      BY <1>4, <1>8, <3>1
    <3>3. f[k + 1] = f[k] \/ IsKid(s, f[k + 1])
      BY <1>1, <3>2 DEF IsKid
    <3> QED BY <2>2, <3>1, <3>3
  <2> HIDE DEF T
  <2>3. \A k \in 0 .. n : k \in T
    BY <1>0, <2>1, <2>2, UpTo
  <2> QED BY <2>3 DEF T
<1>10. ASSUME ~s.node[f[n]].leaf
       PROVE  FALSE
  <2>1. \A d \in 0 .. n : ~s.node[f[d]].leaf
    <3> SUFFICES ASSUME NEW d \in 0 .. n, s.node[f[d]].leaf
                 PROVE  FALSE
      OBVIOUS
    <3> DEFINE T == {e \in 0 .. n : e >= d => f[e] = f[d]}
    <3>1. 0 \in T
      BY <1>0
    <3>2. ASSUME NEW k \in 0 .. n - 1, k \in T
          PROVE  k + 1 \in T
      <4>1. k + 1 \in 1 .. n /\ (k + 1) - 1 = k /\ k \in 0 .. n
        BY <1>0
      <4>2. CASE k >= d
        <5>1. f[k] = f[d] /\ f[k + 1] = Down(f[k])
          BY <1>4, <3>2, <4>1, <4>2
        <5>2. f[k + 1] = f[k]
          BY <1>1, <1>8, <4>1, <5>1
        <5> QED BY <4>1, <5>1, <5>2
      <4>3. CASE ~(k >= d)
        <5>1. k + 1 >= d => k + 1 = d
          BY <1>0, <4>3
        <5> QED BY <4>1, <5>1
      <4> QED BY <4>2, <4>3
    <3> HIDE DEF T
    <3>3. \A e \in 0 .. n : e \in T
      BY <1>0, <3>1, <3>2, UpTo
    <3>4. n \in 0 .. n /\ n >= d
      BY <1>0
    <3>5. f[n] = f[d]
      BY <3>3, <3>4 DEF T
    <3> QED BY <1>10, <3>5
  <2>2. \A d \in 1 .. n : d - 1 \in 0 .. n /\ f[d] \in ToSet(s.node[f[d - 1]].kids)
    BY <1>1, <1>4, <2>1
  <2>3. f \in [0 .. n -> 0 .. n - 1]
    BY <1>3 DEF Iterates, Pages
  <2> DEFINE T == {i \in 0 .. n : \E j \in 0 .. n : i < j /\ f[i] = f[j]}
  <2>4. T # {} /\ T \subseteq Nat
    <3>1. \E i, j \in 0 .. n : i < j /\ f[i] = f[j]
      BY <1>0, <2>3, TooFew
    <3> QED BY <3>1
  <2>5. PICK m \in T : \A k \in T : m <= k
    <3> HIDE DEF T
    <3> QED BY <2>4, LeastOf
  <2>6. PICK j \in 0 .. n : m < j /\ f[m] = f[j]
    BY <2>5
  <2>7. j \in 1 .. n /\ m \in 0 .. n
    BY <1>0, <2>6
  <2>8. CASE m = 0
    <3>1. IsKid(s, Root)
      BY <1>8, <2>2, <2>6, <2>7, <2>8 DEF IsKid
    <3>2. ~IsKid(s, Root)
      BY <1>0, Constants DEF IsTree, OneOwner
    <3> QED BY <3>1, <3>2
  <2>9. CASE m # 0
    <3>1. m \in 1 .. n /\ m - 1 \in 0 .. n /\ j - 1 \in 0 .. n /\ m - 1 < j - 1
      BY <1>0, <2>6, <2>7, <2>9
    <3>2. f[m] \in ToSet(s.node[f[m - 1]].kids) /\ f[m] \in ToSet(s.node[f[j - 1]].kids)
      BY <2>2, <2>6, <2>7, <3>1
    <3>3. f[m - 1] = f[j - 1]
      BY <1>8, <3>1, <3>2 DEF IsTree, KidsOnce
    <3>4. m - 1 \in T
      BY <3>1, <3>3
    <3>5. m <= m - 1
      BY <2>5, <3>4
    <3> QED BY <3>1, <3>5
  <2> QED BY <2>8, <2>9
<1>11. n \in 0 .. n
  BY <1>0
<1> QED BY <1>7, <1>8, <1>9, <1>10, <1>11

-----------------------------------------------------------------------------
(* Trees, and what a part of a statement leaves of them. *)

\* What has not been marked is as it was, parent pointers and the nodes in U
\* excepted.
Marks(s, t, U) ==
  /\ s.dirty \subseteq t.dirty
  /\ \A p \in Pages \ (t.dirty \cup U) : Alike(t.node[p], s.node[p])
  /\ \A p \in Pages \ t.dirty : t.link[p] = s.link[p]
  /\ 0 \in t.dirty \/ t.free_page_head = s.free_page_head

\* One part after another.
LEMMA MarksTogether ==
  ASSUME NEW s, NEW t, NEW u, NEW U, NEW V, Marks(s, t, U), Marks(t, u, V)
  PROVE  Marks(s, u, U \cup V)
BY DEF Marks, Alike

\* What is marked in the end need not be excepted.
LEMMA MarksAll ==
  ASSUME NEW s, NEW t, NEW U, NEW V, Marks(s, t, U), U \subseteq V \cup t.dirty
  PROVE  Marks(s, t, V)
BY DEF Marks

\* The free pages are those of the same list.
LEMMA SameFree ==
  ASSUME NEW s, NEW t, SameList(s, t)
  PROVE  \A p \in Pages : IsFree(t, p) <=> IsFree(s, p)
BY DEF SameList, IsFree

\* A page is free, a child, loose, the root, or of no use yet.
LEMMA Owners ==
  ASSUME NEW s, NEW L, IsTree(s, L), NEW p \in Pages
  PROVE  /\ IsKid(s, p) \/ p \in L => p \in Root + 1 .. s.num_pages - 1 /\ p # Root /\ p # 0
         /\ ~IsKid(s, p) /\ p \notin L /\ p # Root => IsBlank(s.node[p])
         /\ ~(IsKid(s, p) /\ p \in L)
<1>1. IsKid(s, p) \/ p \in L => p \in Root + 1 .. s.num_pages - 1
  BY DEF IsTree, OneOwner
<1>2. ~(IsKid(s, p) /\ p \in L)
  BY DEF IsTree, OneOwner
<1>3. ASSUME ~IsKid(s, p), p \notin L, p # Root
      PROVE  IsBlank(s.node[p])
  <2>1. IsFree(s, p) \/ p \notin Root + 1 .. s.num_pages - 1
    BY <1>3 DEF IsTree, OneOwner
  <2>2. IsFree(s, p) \/ p < Root \/ p >= s.num_pages
    <3>1. p \in Nat /\ s.num_pages \in Nat /\ Root \in Nat
      BY Constants DEF IsTree, Stores, Pages
    <3> QED BY <1>3, <2>1, <3>1
  <2> QED BY <2>2 DEF IsTree, UnusedBlank
<1>4. p \in Root + 1 .. s.num_pages - 1 => p # Root /\ p # 0
  BY Constants
<1> QED BY <1>1, <1>2, <1>3, <1>4

\* Nodes that are changed, and children that change hands.
LEMMA Rearranged ==
  ASSUME NEW s, NEW t, NEW L, NEW M, IsTree(s, L),
         t \in Stores, SameList(s, t), Shaped(t), KidsOnce(t),
         \A p \in Pages : IsKid(t, p) \/ p \in M <=> IsKid(s, p) \/ p \in L,
         \A p \in Pages : ~(IsKid(t, p) /\ p \in M),
         \A p \in Pages : p = Root \/ IsKid(s, p) \/ p \in L \/ Like(t.node[p], s.node[p])
  PROVE  IsTree(t, M)
<1>1. \A p \in Pages : IsFree(t, p) <=> IsFree(s, p)
  BY SameFree
<1>2. t.num_pages \in Root + 1 .. TABLE_MAX_PAGES
  BY DEF IsTree, SameList
<1>3. ListOnce(t)
  BY <1>1 DEF IsTree, ListOnce, SameList
<1>4. OneOwner(t, M)
  <2> SUFFICES ASSUME NEW p \in Pages
               PROVE  /\ IsKid(t, p) \/ IsFree(t, p) \/ p \in M <=> p \in Root + 1 .. t.num_pages - 1
                      /\ ~(IsKid(t, p) /\ IsFree(t, p))
                      /\ p \in M => ~IsKid(t, p) /\ ~IsFree(t, p)
    BY DEF OneOwner
  <2>1. /\ IsKid(s, p) \/ IsFree(s, p) \/ p \in L <=> p \in Root + 1 .. s.num_pages - 1
        /\ ~(IsKid(s, p) /\ IsFree(s, p))
        /\ p \in L => ~IsKid(s, p) /\ ~IsFree(s, p)
    BY DEF IsTree, OneOwner
  <2>2. t.num_pages = s.num_pages
    BY DEF SameList
  <2> QED BY <1>1, <2>1, <2>2
<1>5. UnusedBlank(t)
  <2> SUFFICES ASSUME NEW p \in Pages, IsFree(t, p) \/ p < Root \/ p >= t.num_pages
               PROVE  IsBlank(t.node[p])
    BY DEF UnusedBlank
  <2>1. IsFree(s, p) \/ p < Root \/ p >= s.num_pages
    BY <1>1 DEF SameList
  <2>2. IsBlank(s.node[p])
    BY <2>1 DEF IsTree, UnusedBlank
  <2>3. p # Root /\ ~IsKid(s, p) /\ p \notin L
    <3>1. p \in Nat /\ s.num_pages \in Nat /\ Root \in Nat /\ s.num_pages > Root
      BY Constants DEF IsTree, Stores, Pages
    <3>2. p # Root
      <4>1. ~IsFree(s, Root)
        BY Constants DEF IsTree, OneOwner
      <4> QED BY <2>1, <3>1, <4>1
    <3>3. ~IsKid(s, p) /\ p \notin L
      <4>1. IsKid(s, p) \/ p \in L => ~IsFree(s, p) /\ p \in Root + 1 .. s.num_pages - 1
        BY DEF IsTree, OneOwner
      <4> QED BY <2>1, <3>1, <4>1
    <3> QED BY <3>2, <3>3
  <2>4. Like(t.node[p], s.node[p])
    BY <2>3
  <2> QED BY <2>2, <2>4 DEF Like, IsBlank
<1> QED BY <1>2, <1>3, <1>4, <1>5 DEF IsTree

\* Parent pointers, marks and the keys of internal nodes make no difference.
LEMMA StillTree ==
  ASSUME NEW s, NEW t, NEW L, IsTree(s, L), t \in Stores, SameList(s, t),
         \A p \in Pages : Like(t.node[p], s.node[p])
  PROVE  IsTree(t, L) /\ StoredRows(t) = StoredRows(s) /\ \A p \in Pages : IsKid(t, p) <=> IsKid(s, p)
<1>1. \A p \in Pages : IsKid(t, p) <=> IsKid(s, p)
  BY DEF IsKid, Like
<1>2. Shaped(t)
  BY DEF IsTree, Shaped, Fits, Like
<1>3. KidsOnce(t)
  BY DEF IsTree, KidsOnce, Like
<1>4. \A p \in Pages : ~(IsKid(t, p) /\ p \in L)
  BY <1>1, Owners
<1>5. IsTree(t, L)
  BY <1>1, <1>2, <1>3, <1>4, Rearranged
<1>6. \A p \in Pages : LeafKeys(t, p) = LeafKeys(s, p)
  BY DEF LeafKeys, Like
<1>7. StoredRows(t) = StoredRows(s)
  BY <1>6 DEF StoredRows
<1> QED BY <1>1, <1>5, <1>7

\* Nodes that are alike are like each other.
LEMMA AlikeIsLike ==
  ASSUME NEW m, NEW n, Alike(m, n)
  PROVE  Like(m, n)
BY DEF Alike, Like

Under(s, C, p) == \E q \in C : p \in ToSet(s.node[q].kids)

\* t is s but for the nodes in C, whose children are dealt out among them anew:
\* those in F come to them, those in G leave them, so that M is loose, not L.
Reshapes(s, t, L, M, C, F, G) ==
  /\ t \in Stores /\ SameList(s, t)
  /\ C \subseteq Pages /\ F \subseteq L /\ M = (L \ F) \cup G
  /\ \A q \in Pages \ C : Like(t.node[q], s.node[q])
  /\ \A q \in C : /\ q = Root \/ IsKid(s, q) \/ q \in L
                 /\ Fits(t.node[q]) /\ (t.node[q].root <=> q = Root)
                 /\ IsInjective(t.node[q].kids)
  /\ \A q, r \in C : q # r => ToSet(t.node[q].kids) \cap ToSet(t.node[r].kids) = {}
  /\ \A p \in G : Under(s, C, p)
  /\ \A p \in Pages : Under(t, C, p) <=> (Under(s, C, p) /\ p \notin G) \/ p \in F

\* A tree is a tree again when loose pages become children, or children loose.
LEMMA Reshaped ==
  ASSUME NEW s, NEW t, NEW L, NEW M, NEW C, NEW F, NEW G, IsTree(s, L),
         Reshapes(s, t, L, M, C, F, G)
  PROVE  IsTree(t, M)
<1> USE DEF Reshapes
<1>1. \A q \in Pages : s.node[q].kids \in Seq(Pages) /\ t.node[q].kids \in Seq(Pages)
  BY NodeFields DEF IsTree
<1>2. \A q \in Pages : ToSet(s.node[q].kids) \subseteq Pages /\ ToSet(t.node[q].kids) \subseteq Pages
  BY <1>1 DEF ToSet
<1>3. \A q \in Pages \ C : t.node[q].kids = s.node[q].kids
  BY DEF Like
<1>4. \A p \in Pages : p \in L => ~IsKid(s, p)
  BY Owners
<1>5. \A q \in Pages \ C : \A p \in ToSet(s.node[q].kids) : ~Under(s, C, p) /\ p \notin F /\ p \notin G
  <2> SUFFICES ASSUME NEW q \in Pages \ C, NEW p \in ToSet(s.node[q].kids)
               PROVE  ~Under(s, C, p) /\ p \notin F /\ p \notin G
    OBVIOUS
  <2>1. ~Under(s, C, p)
    BY DEF IsTree, KidsOnce, Under
  <2>2. p \in Pages /\ IsKid(s, p)
    BY <1>2 DEF IsKid
  <2>3. p \notin F
    BY <1>4, <2>2
  <2> QED BY <2>1, <2>3
<1>6. \A p \in Pages : IsKid(t, p) <=> (IsKid(s, p) /\ p \notin G) \/ p \in F
  <2> TAKE p \in Pages
  <2>1. /\ IsKid(s, p) <=> Under(s, C, p) \/ \E q \in Pages \ C : p \in ToSet(s.node[q].kids)
        /\ IsKid(t, p) <=> Under(t, C, p) \/ \E q \in Pages \ C : p \in ToSet(t.node[q].kids)
    BY DEF IsKid, Under
  <2>2. Under(t, C, p) <=> (Under(s, C, p) /\ p \notin G) \/ p \in F
    OBVIOUS
  <2>3. (\E q \in Pages \ C : p \in ToSet(t.node[q].kids)) <=> (\E q \in Pages \ C : p \in ToSet(s.node[q].kids))
    BY <1>3
  <2>4. (\E q \in Pages \ C : p \in ToSet(s.node[q].kids)) => p \notin G
    BY <1>5
  <2> QED BY <2>1, <2>2, <2>3, <2>4
<1>7. \A p \in Pages : p \in G => IsKid(s, p)
  BY DEF Under, IsKid
<1>8. \A p \in Pages : IsKid(t, p) \/ p \in M <=> IsKid(s, p) \/ p \in L
  BY <1>6, <1>7
<1>9. \A p \in Pages : ~(IsKid(t, p) /\ p \in M)
  BY <1>4, <1>6, <1>7
<1>10. Shaped(t)
  <2> SUFFICES ASSUME NEW q \in Pages
               PROVE  Fits(t.node[q]) /\ (t.node[q].root <=> q = Root)
    BY DEF Shaped
  <2>1. CASE q \in C
    BY <2>1
  <2>2. CASE q \notin C
    BY <2>2 DEF IsTree, Shaped, Like, Fits
  <2> QED BY <2>1, <2>2
<1>11. KidsOnce(t)
  <2>1. \A q \in Pages : IsInjective(t.node[q].kids)
    BY <1>3 DEF IsTree, KidsOnce
  <2>2. ASSUME NEW q \in C, NEW r \in Pages \ C
        PROVE  ToSet(t.node[q].kids) \cap ToSet(t.node[r].kids) = {}
    <3> SUFFICES ASSUME NEW p \in ToSet(t.node[q].kids), p \in ToSet(t.node[r].kids)
                 PROVE  FALSE
      OBVIOUS
    <3>1. p \in Pages /\ p \in ToSet(s.node[r].kids)
      BY <1>2, <1>3
    <3>2. Under(s, C, p) \/ p \in F
      BY <3>1 DEF Under
    <3> QED BY <1>5, <3>1, <3>2
  <2>3. \A q, r \in Pages \ C : q # r => ToSet(t.node[q].kids) \cap ToSet(t.node[r].kids) = {}
    BY <1>3 DEF IsTree, KidsOnce
  <2>4. \A q, r \in Pages : q # r => ToSet(t.node[q].kids) \cap ToSet(t.node[r].kids) = {}
    BY <2>2, <2>3
  <2> QED BY <2>1, <2>4 DEF KidsOnce
<1>12. \A p \in Pages : p = Root \/ IsKid(s, p) \/ p \in L \/ Like(t.node[p], s.node[p])
  OBVIOUS
<1> QED BY <1>8, <1>9, <1>10, <1>11, <1>12, Rearranged

-----------------------------------------------------------------------------
(* Taking and freeing pages. *)

\* The node of a page that is taken.
LEMMA EmptyLeafIsNode ==
  /\ EmptyLeaf \in Node /\ IsBlank(EmptyLeaf) /\ Fits(EmptyLeaf) /\ ~EmptyLeaf.root
<1>1. EmptyLeaf \in Node
  BY Constants DEF EmptyLeaf, Node
<1>2. IsBlank(EmptyLeaf) /\ ~EmptyLeaf.root
  BY DEF EmptyLeaf, IsBlank
<1>3. Fits(EmptyLeaf)
  BY Constants DEF EmptyLeaf, Fits
<1> QED BY <1>1, <1>2, <1>3

\* A blank node has no kids and no rows.
LEMMA BlankNode ==
  ASSUME NEW s, NEW p \in Pages, IsBlank(s.node[p])
  PROVE  ToSet(s.node[p].kids) = {} /\ LeafKeys(s, p) = {} /\ Fits(s.node[p])
<1>1. ToSet(s.node[p].kids) = {} /\ LeafKeys(s, p) = {}
  BY DEF IsBlank, LeafKeys, ToSet
<1>2. Fits(s.node[p])
  BY Constants DEF IsBlank, Fits
<1> QED BY <1>1, <1>2

\* t is s but for p, which is blank and marked, and nobody's in s.
TakesPage(s, t, p) ==
  /\ p \in Pages /\ p # Root /\ ~IsKid(s, p)
  /\ IsBlank(s.node[p]) /\ IsBlank(t.node[p]) /\ ~t.node[p].root
  /\ \A q \in Pages \ {p} : t.node[q] = s.node[q]
  /\ \A q \in Pages : IsKid(t, q) <=> IsKid(s, q)
  /\ StoredRows(t) = StoredRows(s)
  /\ Marks(s, t, {}) /\ p \in t.dirty

\* A page that is taken is loose.
LEMMA PageTaken ==
  ASSUME NEW s, NEW L, IsTree(s, L), ~NoPage(s),
         NEW p, p = UnusedPage(s), NEW t, t = TakePage(s)
  PROVE  TakesPage(s, t, p) /\ p \notin L /\ IsTree(t, L \cup {p})
<1>1. /\ s \in Stores /\ s.num_pages \in Root + 1 .. TABLE_MAX_PAGES /\ s.num_pages \in Nat
      /\ s.free_page_head \in Pages /\ s.node \in [Pages -> Node] /\ s.link \in [Pages -> Pages]
      /\ s.dirty \subseteq Pages
  BY DEF IsTree, Stores
<1>2. /\ Root = 2 /\ 0 \in Pages /\ TABLE_MAX_PAGES \in Nat
      /\ \A q : q \in Pages <=> q \in Nat /\ q < TABLE_MAX_PAGES
  BY Constants DEF Pages
<1>3. EmptyLeaf \in Node /\ IsBlank(EmptyLeaf) /\ Fits(EmptyLeaf) /\ ~EmptyLeaf.root
  BY EmptyLeafIsNode
<1> DEFINE P == /\ p \in Pages /\ p # Root /\ p \notin L /\ ~IsKid(s, p) /\ IsBlank(s.node[p])
                /\ IsBlank(t.node[p]) /\ ~t.node[p].root /\ t \in Stores /\ p \in t.dirty
                /\ \A q \in Pages \ {p} : t.node[q] = s.node[q]
                /\ Marks(s, t, {})
                /\ t.num_pages \in Root + 1 .. TABLE_MAX_PAGES
                /\ ListOnce(t)
                /\ p \in Root + 1 .. t.num_pages - 1
                /\ \A q \in Pages \ {p} : q \in Root + 1 .. t.num_pages - 1 <=> q \in Root + 1 .. s.num_pages - 1
                /\ \A q \in Pages : IsFree(t, q) <=> IsFree(s, q) /\ q # p
                /\ \A q \in Pages \ {p} : q >= t.num_pages => q >= s.num_pages
<1>4. ASSUME s.free_page_head # 0
      PROVE  P
  <2>1. /\ p = s.free_page_head /\ p \in Pages /\ IsFree(s, p)
    BY <1>1, <1>4 DEF UnusedPage, IsFree
  <2>2. p # Root /\ p \in Root + 1 .. s.num_pages - 1 /\ ~IsKid(s, p) /\ p \notin L
        /\ IsBlank(s.node[p])
    BY <1>2, <2>1 DEF IsTree, OneOwner, UnusedBlank
  <2>3. t = MarkAll([s EXCEPT !.free_page_head = s.link[p], !.link[p] = 0,
                              !.node[p] = EmptyLeaf], {0, p})
    BY <1>4, <2>1 DEF TakePage, UnusedPage
  <2>4. /\ t \in Stores /\ t.free_page_head = s.link[p] /\ t.link = [s.link EXCEPT ![p] = 0]
        /\ t.node = [s.node EXCEPT ![p] = EmptyLeaf] /\ t.num_pages = s.num_pages
        /\ t.dirty = s.dirty \cup {0, p}
    <3> DEFINE u == [s EXCEPT !.free_page_head = s.link[p], !.link[p] = 0, !.node[p] = EmptyLeaf]
    <3>1. /\ u.free_page_head = s.link[p] /\ u.link = [s.link EXCEPT ![p] = 0]
          /\ u.node = [s.node EXCEPT ![p] = EmptyLeaf] /\ u.num_pages = s.num_pages
          /\ u.dirty = s.dirty
      BY <1>1 DEF Stores
    <3>2. u \in Stores
      BY <1>1, <1>2, <1>3, <2>1 DEF Stores
    <3> HIDE DEF u
    <3>3. t = MarkAll(u, {0, p}) /\ {0, p} \in SUBSET Pages
      BY <1>2, <2>1, <2>3 DEF u
    <3>4. /\ t \in Stores /\ SameList(u, t) /\ t.dirty = u.dirty \cup {0, p} /\ t.node = u.node
      BY <3>2, <3>3, Marked
    <3> QED BY <3>1, <3>4 DEF SameList
  <2>5. /\ t.node[p] = EmptyLeaf /\ t.link[p] = 0
        /\ \A q \in Pages \ {p} : t.node[q] = s.node[q] /\ t.link[q] = s.link[q]
    BY <1>1, <2>1, <2>4
  <2>6. \A q \in Pages : s.link[q] # 0 =>
           /\ IsFree(s, q) /\ s.link[q] # p /\ \A r \in Pages : s.link[r] = s.link[q] => r = q
    BY <2>1 DEF IsTree, ListOnce
  <2>7. \A q \in Pages : IsFree(t, q) <=> IsFree(s, q) /\ q # p
    <3> TAKE q \in Pages
    <3>1. ASSUME IsFree(t, q)
          PROVE  IsFree(s, q) /\ q # p
      <4>1. q # 0 /\ (q = t.free_page_head \/ \E r \in Pages : t.link[r] = q)
        BY <3>1 DEF IsFree
      <4>2. \E r \in Pages : s.link[r] = q
        BY <2>1, <2>4, <2>5, <4>1
      <4> QED BY <2>6, <4>1, <4>2 DEF IsFree
    <3>2. ASSUME IsFree(s, q), q # p
          PROVE  IsFree(t, q)
      <4>1. q # 0 /\ \E r \in Pages : s.link[r] = q
        BY <2>1, <3>2 DEF IsFree
      <4> QED BY <2>4, <2>5, <4>1 DEF IsFree
    <3> QED BY <3>1, <3>2
  <2>8. ListOnce(t)
    <3> SUFFICES ASSUME NEW q \in Pages, t.link[q] # 0
                 PROVE  /\ IsFree(t, q) /\ t.link[q] # t.free_page_head
                        /\ \A r \in Pages : t.link[r] = t.link[q] => r = q
      BY DEF ListOnce
    <3>1. q # p /\ t.link[q] = s.link[q]
      BY <2>5
    <3>2. IsFree(t, q)
      BY <2>6, <2>7, <3>1
    <3>3. t.link[q] # t.free_page_head
      BY <2>1, <2>4, <2>6, <3>1
    <3>4. \A r \in Pages : t.link[r] = t.link[q] => r = q
      BY <2>5, <2>6, <3>1
    <3> QED BY <3>2, <3>3, <3>4
  <2>9. Marks(s, t, {})
    BY <2>4, <2>5 DEF Marks, Alike
  <2>10. IsBlank(t.node[p]) /\ ~t.node[p].root /\ p \in t.dirty
    BY <1>3, <2>4, <2>5
  <2> QED BY <1>1, <2>1, <2>2, <2>4, <2>5, <2>7, <2>8, <2>9, <2>10
<1>5. ASSUME s.free_page_head = 0
      PROVE  P
  <2>1. /\ p = s.num_pages /\ p \in Pages /\ p # Root /\ p > Root
        /\ t = Mark([s EXCEPT !.num_pages = @ + 1], p)
    BY <1>1, <1>2, <1>5 DEF UnusedPage, TakePage, NoPage
  <2>2. /\ t \in Stores /\ t.free_page_head = s.free_page_head /\ t.link = s.link
        /\ t.node = s.node /\ t.num_pages = s.num_pages + 1 /\ t.dirty = s.dirty \cup {p}
    <3> DEFINE u == [s EXCEPT !.num_pages = @ + 1]
    <3>1. /\ u \in Stores /\ u.free_page_head = s.free_page_head /\ u.link = s.link
          /\ u.node = s.node /\ u.num_pages = s.num_pages + 1 /\ u.dirty = s.dirty
      BY <1>1 DEF Stores
    <3>2. t = Mark(u, p)
      BY <2>1
    <3> HIDE DEF u
    <3>3. t \in Stores /\ SameList(u, t) /\ t.dirty = u.dirty \cup {p} /\ t.node = u.node
      BY <2>1, <3>1, <3>2, MarkedOne
    <3> QED BY <3>1, <3>3 DEF SameList
  <2>3. p \notin Root + 1 .. s.num_pages - 1
    BY <1>1, <2>1
  <2>4. ~IsKid(s, p) /\ p \notin L /\ ~IsFree(s, p)
    BY <2>1, <2>3 DEF IsTree, OneOwner
  <2>5. IsBlank(s.node[p])
    BY <1>1, <2>1 DEF IsTree, UnusedBlank
  <2>6. ~s.node[p].root
    BY <2>1 DEF IsTree, Shaped
  <2>7. \A q \in Pages : IsFree(t, q) <=> IsFree(s, q)
    BY <2>2 DEF IsFree
  <2>8. ListOnce(t)
    BY <2>2, <2>7 DEF IsTree, ListOnce
  <2>9. Marks(s, t, {})
    BY <2>2 DEF Marks, Alike
  <2>10. t.num_pages \in Root + 1 .. TABLE_MAX_PAGES /\ p \in Root + 1 .. t.num_pages - 1
    BY <1>1, <1>2, <2>1, <2>2
  <2>11. \A q \in Pages \ {p} : q \in Root + 1 .. t.num_pages - 1 <=> q \in Root + 1 .. s.num_pages - 1
    BY <1>1, <1>2, <2>1, <2>2
  <2>12. \A q \in Pages \ {p} : q >= t.num_pages => q >= s.num_pages
    BY <1>1, <1>2, <2>1, <2>2
  <2>13. \A q \in Pages : IsFree(t, q) <=> IsFree(s, q) /\ q # p
    BY <2>4, <2>7
  <2>14. IsBlank(t.node[p]) /\ ~t.node[p].root /\ p \in t.dirty
         /\ \A q \in Pages \ {p} : t.node[q] = s.node[q]
    BY <2>2, <2>5, <2>6, Zenon
  <2> QED BY <2>1, <2>2, <2>4, <2>5, <2>8, <2>9, <2>10, <2>11, <2>12, <2>13, <2>14
<1>6. P
  BY <1>4, <1>5
<1> HIDE DEF P
<1>7. /\ ToSet(s.node[p].kids) = {} /\ LeafKeys(s, p) = {}
      /\ ToSet(t.node[p].kids) = {} /\ LeafKeys(t, p) = {} /\ Fits(t.node[p])
  BY <1>6, BlankNode DEF P
<1>8. \A q \in Pages : ToSet(t.node[q].kids) = ToSet(s.node[q].kids) /\ LeafKeys(t, q) = LeafKeys(s, q)
  BY <1>6, <1>7 DEF P, LeafKeys
<1>9. \A q \in Pages : IsKid(t, q) <=> IsKid(s, q)
  BY <1>8 DEF IsKid
<1>10. StoredRows(t) = StoredRows(s)
  BY <1>8 DEF StoredRows
<1>11. Shaped(t)
  <2> SUFFICES ASSUME NEW q \in Pages
               PROVE  Fits(t.node[q]) /\ (t.node[q].root <=> q = Root)
    BY DEF Shaped
  <2>1. CASE q = p
    BY <1>6, <1>7, <2>1 DEF P
  <2>2. CASE q # p
    BY <1>6, <2>2 DEF P, IsTree, Shaped
  <2> QED BY <2>1, <2>2
<1>12. KidsOnce(t)
  <2>1. \A q \in Pages : IsInjective(t.node[q].kids)
    <3>1. IsInjective(t.node[p].kids)
      BY <1>6 DEF P, IsBlank, IsInjective
    <3> QED BY <1>6, <3>1 DEF P, IsTree, KidsOnce
  <2> QED BY <1>8, <2>1 DEF IsTree, KidsOnce
<1>13. OneOwner(t, L \cup {p})
  <2> SUFFICES ASSUME NEW q \in Pages
               PROVE  /\ IsKid(t, q) \/ IsFree(t, q) \/ q \in L \cup {p} <=> q \in Root + 1 .. t.num_pages - 1
                      /\ ~(IsKid(t, q) /\ IsFree(t, q))
                      /\ q \in L \cup {p} => ~IsKid(t, q) /\ ~IsFree(t, q)
    BY DEF OneOwner
  <2>1. /\ IsKid(s, q) \/ IsFree(s, q) \/ q \in L <=> q \in Root + 1 .. s.num_pages - 1
        /\ ~(IsKid(s, q) /\ IsFree(s, q))
        /\ q \in L => ~IsKid(s, q) /\ ~IsFree(s, q)
    BY DEF IsTree, OneOwner
  <2>2. CASE q = p
    BY <1>6, <1>9, <2>2 DEF P
  <2>3. CASE q # p
    BY <1>6, <1>9, <2>1, <2>3 DEF P
  <2> QED BY <2>2, <2>3
<1>14. UnusedBlank(t)
  <2> SUFFICES ASSUME NEW q \in Pages, IsFree(t, q) \/ q < Root \/ q >= t.num_pages
               PROVE  IsBlank(t.node[q])
    BY DEF UnusedBlank
  <2>1. CASE q = p
    BY <1>6, <2>1 DEF P
  <2>2. CASE q # p
    <3>1. IsFree(s, q) \/ q < Root \/ q >= s.num_pages
      BY <1>6, <2>2 DEF P
    <3>2. t.node[q] = s.node[q]
      BY <1>6, <2>2 DEF P
    <3> QED BY <3>1, <3>2 DEF IsTree, UnusedBlank
  <2> QED BY <2>1, <2>2
<1>15. IsTree(t, L \cup {p})
  BY <1>6, <1>11, <1>12, <1>13, <1>14 DEF P, IsTree
<1> QED BY <1>6, <1>9, <1>10, <1>15 DEF P, TakesPage

\* A loose page goes to the free list, whatever its node has been.
LEMMA PageFreed ==
  ASSUME NEW s \in Stores, NEW p \in Pages, NEW b, NEW L, NEW t,
         b = With(s, p, EmptyLeaf), IsTree(b, L), p \in L, t = pager_free_page(s, p)
  PROVE  /\ IsTree(t, L \ {p}) /\ StoredRows(t) = StoredRows(b)
         /\ \A q \in Pages : t.node[q] = b.node[q]
         /\ Marks(b, t, {}) /\ p \in t.dirty
<1>1. /\ p \in Root + 1 .. b.num_pages - 1 /\ p \notin {0, MasterRoot, Root}
      /\ ~IsKid(b, p) /\ ~IsFree(b, p)
  BY Constants DEF IsTree, OneOwner
<1>2. /\ b \in Stores /\ SameList(s, b) /\ b.dirty = s.dirty
      /\ b.node[p] = EmptyLeaf /\ \A q \in Pages \ {p} : b.node[q] = s.node[q]
  BY EmptyLeafIsNode, Written
<1>3. /\ t \in Stores /\ t.free_page_head = p /\ t.link = [s.link EXCEPT ![p] = s.free_page_head]
      /\ t.node = [s.node EXCEPT ![p] = EmptyLeaf] /\ t.num_pages = s.num_pages
      /\ t.dirty = s.dirty \cup {0, p}
  <2> DEFINE u == [s EXCEPT !.link[p] = s.free_page_head, !.free_page_head = p,
                            !.node[p] = EmptyLeaf]
  <2>1. /\ u.free_page_head = p /\ u.link = [s.link EXCEPT ![p] = s.free_page_head]
        /\ u.node = [s.node EXCEPT ![p] = EmptyLeaf] /\ u.num_pages = s.num_pages
        /\ u.dirty = s.dirty
    BY DEF Stores
  <2>2. u \in Stores
    BY EmptyLeafIsNode DEF Stores
  <2>3. t = MarkAll(u, {0, p})
    BY <1>1 DEF pager_free_page
  <2> HIDE DEF u
  <2>4. {0, p} \in SUBSET Pages
    BY Constants
  <2>5. /\ t \in Stores /\ SameList(u, t) /\ t.dirty = u.dirty \cup {0, p} /\ t.node = u.node
    BY <2>2, <2>3, <2>4, Marked
  <2> QED BY <2>1, <2>5 DEF SameList
<1>4. /\ t.link[p] = s.free_page_head /\ t.node[p] = EmptyLeaf
      /\ \A q \in Pages \ {p} : t.link[q] = s.link[q] /\ t.node[q] = s.node[q]
  BY <1>3 DEF Stores
<1>5. \A q \in Pages : t.node[q] = b.node[q]
  BY <1>2, <1>4
<1>6. /\ b.link = s.link /\ b.free_page_head = s.free_page_head /\ b.num_pages = s.num_pages
  BY <1>2 DEF SameList
<1>7. b.link[p] = 0
  BY <1>1 DEF IsTree, ListOnce
<1>8. \A q \in Pages : IsFree(t, q) <=> IsFree(b, q) \/ q = p
  <2> TAKE q \in Pages
  <2>1. ASSUME IsFree(t, q), q # p
        PROVE  IsFree(b, q)
    <3>1. q # 0 /\ \E r \in Pages : t.link[r] = q
      BY <1>3, <2>1 DEF IsFree
    <3> QED BY <1>4, <1>6, <3>1 DEF IsFree
  <2>2. ASSUME IsFree(b, q)
        PROVE  IsFree(t, q)
    <3>1. q # 0 /\ (q = b.free_page_head \/ \E r \in Pages : b.link[r] = q)
      BY <2>2 DEF IsFree
    <3>2. \E r \in Pages : t.link[r] = q
      BY <1>4, <1>6, <1>7, <3>1
    <3> QED BY <3>1, <3>2 DEF IsFree
  <2>3. q = p => IsFree(t, q)
    BY <1>1, <1>3 DEF IsFree
  <2> QED BY <2>1, <2>2, <2>3
<1>9. \A q \in Pages : IsKid(t, q) <=> IsKid(b, q)
  BY <1>5 DEF IsKid
<1>10. ListOnce(t)
  <2> SUFFICES ASSUME NEW q \in Pages, t.link[q] # 0
               PROVE  /\ IsFree(t, q) /\ t.link[q] # t.free_page_head
                      /\ \A r \in Pages : t.link[r] = t.link[q] => r = q
    BY DEF ListOnce
  <2>1. \A r \in Pages : b.link[r] # 0 =>
           /\ IsFree(b, r) /\ b.link[r] # b.free_page_head
           /\ \A r1 \in Pages : b.link[r1] = b.link[r] => r1 = r
    BY DEF IsTree, ListOnce
  <2>2. t.link[q] # p
    <3>1. \A r \in Pages : b.link[r] # p
      BY <1>1 DEF IsFree
    <3>2. b.free_page_head # p
      BY <1>1 DEF IsFree
    <3> QED BY <1>4, <1>6, <3>1, <3>2
  <2>3. CASE q = p
    <3>1. t.link[q] = b.free_page_head /\ b.free_page_head # 0
      BY <1>4, <1>6, <2>3
    <3>2. \A r \in Pages \ {p} : t.link[r] # b.free_page_head
      BY <1>4, <1>6, <2>1, <3>1
    <3> QED BY <1>3, <1>8, <2>2, <2>3, <3>1, <3>2
  <2>4. CASE q # p
    <3>1. t.link[q] = b.link[q] /\ b.link[q] # 0
      BY <1>4, <1>6, <2>4
    <3>2. t.link[p] # t.link[q]
      BY <1>4, <1>6, <2>1, <3>1
    <3>3. \A r \in Pages \ {p} : t.link[r] = t.link[q] => r = q
      BY <1>4, <1>6, <2>1, <3>1
    <3> QED BY <1>3, <1>8, <2>1, <2>2, <3>1, <3>2, <3>3
  <2> QED BY <2>3, <2>4
<1>11. Shaped(t) /\ KidsOnce(t)
  BY <1>5 DEF IsTree, Shaped, KidsOnce
<1>12. OneOwner(t, L \ {p})
  <2> SUFFICES ASSUME NEW q \in Pages
               PROVE  /\ IsKid(t, q) \/ IsFree(t, q) \/ q \in L \ {p} <=> q \in Root + 1 .. t.num_pages - 1
                      /\ ~(IsKid(t, q) /\ IsFree(t, q))
                      /\ q \in L \ {p} => ~IsKid(t, q) /\ ~IsFree(t, q)
    BY DEF OneOwner
  <2>1. /\ IsKid(b, q) \/ IsFree(b, q) \/ q \in L <=> q \in Root + 1 .. b.num_pages - 1
        /\ ~(IsKid(b, q) /\ IsFree(b, q))
        /\ q \in L => ~IsKid(b, q) /\ ~IsFree(b, q)
    BY DEF IsTree, OneOwner
  <2>2. t.num_pages = b.num_pages
    BY <1>3, <1>6
  <2> QED BY <1>1, <1>8, <1>9, <2>1, <2>2
<1>13. UnusedBlank(t)
  <2> SUFFICES ASSUME NEW q \in Pages, IsFree(t, q) \/ q < Root \/ q >= t.num_pages
               PROVE  IsBlank(t.node[q])
    BY DEF UnusedBlank
  <2>1. CASE q = p
    BY <1>4, <2>1, EmptyLeafIsNode
  <2>2. CASE q # p
    <3>1. IsFree(b, q) \/ q < Root \/ q >= b.num_pages
      BY <1>3, <1>6, <1>8, <2>2
    <3> QED BY <1>5, <3>1 DEF IsTree, UnusedBlank
  <2> QED BY <2>1, <2>2
<1>14. IsTree(t, L \ {p})
  BY <1>3, <1>6, <1>10, <1>11, <1>12, <1>13 DEF IsTree
<1>15. StoredRows(t) = StoredRows(b)
  BY <1>5 DEF StoredRows, LeafKeys
<1>16. Marks(b, t, {}) /\ p \in t.dirty
  BY <1>2, <1>3, <1>4, <1>5, <1>6 DEF Marks, Alike
<1> QED BY <1>5, <1>14, <1>15, <1>16

-----------------------------------------------------------------------------
(* Changing one node. *)

\* New keys and kids of a node that is marked.
Refilled(s, p, keys, kids) ==
  Mark(With(s, p, [s.node[p] EXCEPT !.keys = keys, !.kids = kids]), p)

\* What it has then.
LEMMA RefilledNode ==
  ASSUME NEW s \in Stores, NEW p \in Pages, NEW keys \in Seq(Nat), NEW kids \in Seq(Pages),
         NEW t, t = Refilled(s, p, keys, kids)
  PROVE  /\ t \in Stores /\ SameList(s, t) /\ t.dirty = s.dirty \cup {p}
         /\ \A q \in Pages \ {p} : t.node[q] = s.node[q]
         /\ t.node[p].keys = keys /\ t.node[p].kids = kids
         /\ t.node[p].leaf = s.node[p].leaf /\ t.node[p].root = s.node[p].root
         /\ t.node[p].parent = s.node[p].parent
<1> DEFINE n == [s.node[p] EXCEPT !.keys = keys, !.kids = kids]
           u == With(s, p, n)
<1>1. s.node[p] \in Node
  BY NodeFields
<1>2. n \in Node
  BY <1>1 DEF Node
<1>3. /\ n.keys = keys /\ n.kids = kids /\ n.leaf = s.node[p].leaf /\ n.root = s.node[p].root
      /\ n.parent = s.node[p].parent
  BY <1>1 DEF Node
<1>4. t = Mark(u, p)
  BY DEF Refilled
<1> HIDE DEF n
<1>5. /\ u \in Stores /\ SameList(s, u) /\ u.dirty = s.dirty
      /\ u.node[p] = n /\ \A q \in Pages \ {p} : u.node[q] = s.node[q]
  BY <1>2, Written
<1> HIDE DEF u
<1>6. t \in Stores /\ SameList(u, t) /\ t.dirty = u.dirty \cup {p} /\ t.node = u.node
  BY <1>4, <1>5, MarkedOne
<1>7. SameList(s, t)
  BY <1>5, <1>6 DEF SameList
<1> QED BY <1>3, <1>5, <1>6, <1>7

\* t is s but for a node p, which is marked and has one child more.
TakesChild(s, t, p, child) ==
  /\ t \in Stores /\ SameList(s, t) /\ t.dirty = s.dirty \cup {p}
  /\ \A q \in Pages \ {p} : Alike(t.node[q], s.node[q])
  /\ Len(t.node[p].kids) = Len(s.node[p].kids) + 1
  /\ Len(t.node[p].keys) = Len(s.node[p].kids)
  /\ ToSet(t.node[p].kids) = ToSet(s.node[p].kids) \cup {child}
  /\ IsInjective(s.node[p].kids) /\ child \notin ToSet(s.node[p].kids) =>
       IsInjective(t.node[p].kids)
  /\ t.node[p].leaf = s.node[p].leaf /\ t.node[p].root = s.node[p].root
SameParents(s, t) == \A q \in Pages : t.node[q].parent = s.node[q].parent
HasChildren(n) == (n.kids = <<>> /\ n.keys = <<>>) \/ Len(n.kids) = Len(n.keys) + 1

\* internal_node_insert into a node that has room: the node has one child more.
LEMMA ChildTaken ==
  ASSUME NEW s \in Stores, NEW p \in Pages, NEW child \in Pages, NEW t, t = TakeChild(s, p, child),
         HasChildren(s.node[p])
  PROVE  TakesChild(s, t, p, child) /\ SameParents(s, t)
<1> DEFINE n == s.node[p]
           child_max == get_node_max_key(s, child)
           right_max == get_node_max_key(s, Last(n.kids))
           i == internal_node_find_child(n, child_max) + 1
           More(keys, kids) ==
             /\ keys \in Seq(Nat) /\ kids \in Seq(Pages)
             /\ t = Refilled(s, p, keys, kids)
             /\ Len(kids) = Len(n.kids) + 1 /\ Len(keys) = Len(n.kids)
             /\ ToSet(kids) = ToSet(n.kids) \cup {child}
             /\ IsInjective(n.kids) /\ child \notin ToSet(n.kids) => IsInjective(kids)
<1>1. /\ n \in Node /\ n.keys \in Seq(Nat) /\ n.kids \in Seq(Pages)
      /\ Len(n.keys) \in Nat /\ Len(n.kids) \in Nat
  <2>1. n \in Node /\ n.keys \in Seq(Nat) /\ n.kids \in Seq(Pages)
    BY NodeFields
  <2> HIDE DEF n
  <2> QED BY <2>1
<1>2. child_max \in Nat
  BY MaxKeyIsNat
<1>3. t = IF n.kids = <<>>
          THEN Mark([s EXCEPT !.node[p].kids = <<child>>], p)
          ELSE IF child_max > right_max
          THEN Mark([s EXCEPT !.node[p].keys = Append(@, right_max),
                              !.node[p].kids = Append(@, child)], p)
          ELSE Mark([s EXCEPT !.node[p].keys = InsertAt(@, i, child_max),
                              !.node[p].kids = InsertAt(@, i, child)], p)
  BY DEF TakeChild
<1> HIDE DEF child_max, right_max, i
<1>4. \E keys, kids : More(keys, kids)
  <2>1. CASE n.kids = <<>>
    <3>0. n.keys = <<>>
      BY <1>1, <2>1 DEF HasChildren
    <3>1. <<child>> \in Seq(Pages) /\ Len(<<child>>) = 1 /\ ToSet(<<child>>) = {child}
          /\ ToSet(n.kids) = {} /\ Len(n.kids) = 0
      BY <2>1 DEF ToSet
    <3>2. IsInjective(<<child>>)
      BY DEF IsInjective
    <3>3. [s EXCEPT !.node[p].kids = <<child>>]
            = With(s, p, [n EXCEPT !.keys = <<>>, !.kids = <<child>>])
      <4>1. [n EXCEPT !.keys = <<>>, !.kids = <<child>>] = [n EXCEPT !.kids = <<child>>]
        BY <1>1, <3>0 DEF Node
      <4> QED BY <4>1 DEF With
    <3>4. t = Refilled(s, p, <<>>, <<child>>)
      BY <1>3, <2>1, <3>3 DEF Refilled
    <3>5. <<>> \in Seq(Nat) /\ Len(<<>>) = 0
      OBVIOUS
    <3>6. More(<<>>, <<child>>)
      BY <3>1, <3>2, <3>4, <3>5
    <3> QED BY <3>6
  <2>2. CASE n.kids # <<>> /\ child_max > right_max
    <3> DEFINE keys == Append(n.keys, right_max)
               kids == Append(n.kids, child)
    <3>0. Last(n.kids) \in Pages
      BY <1>1, <2>2 DEF Last
    <3>1. right_max \in Nat
      BY <3>0, MaxKeyIsNat DEF right_max
    <3>2. /\ kids \in Seq(Pages) /\ Len(kids) = Len(n.kids) + 1
          /\ ToSet(kids) = ToSet(n.kids) \cup {child}
          /\ IsInjective(n.kids) /\ child \notin ToSet(n.kids) => IsInjective(kids)
      BY <1>1, Appended
    <3>3. keys \in Seq(Nat) /\ Len(keys) = Len(n.keys) + 1
      BY <1>1, <3>1, Appended
    <3>4. Len(keys) = Len(n.kids)
      BY <1>1, <2>2, <3>3 DEF HasChildren
    <3>5. t = Refilled(s, p, keys, kids)
      BY <1>3, <2>2 DEF Refilled, With
    <3> HIDE DEF keys, kids
    <3>6. More(keys, kids)
      BY <3>2, <3>3, <3>4, <3>5
    <3> QED BY <3>6
  <2>3. CASE n.kids # <<>> /\ ~(child_max > right_max)
    <3> DEFINE keys == InsertAt(n.keys, i, child_max)
               kids == InsertAt(n.kids, i, child)
    <3>1. ChildPlace(n.keys, child_max) \in 0 .. Len(n.keys)
      BY <1>1, <1>2, ChildPlaceInRange
    <3>2. i = ChildPlace(n.keys, child_max) + 1
      BY DEF i, internal_node_find_child
    <3>a. Len(n.kids) = Len(n.keys) + 1
      BY <2>3 DEF HasChildren
    <3>b. i \in 1 .. Len(n.keys) + 1 /\ i \in 1 .. Len(n.kids) + 1
      BY <1>1, <3>1, <3>2, <3>a
    <3>3. /\ kids \in Seq(Pages) /\ Len(kids) = Len(n.kids) + 1
          /\ ToSet(kids) = ToSet(n.kids) \cup {child}
          /\ IsInjective(n.kids) /\ child \notin ToSet(n.kids) => IsInjective(kids)
      <4> HIDE DEF n
      <4> QED BY <1>1, <3>b, Inserted
    <3>4. keys \in Seq(Nat) /\ Len(keys) = Len(n.keys) + 1
      <4> DEFINE N == Nat
      <4>1. n.keys \in Seq(N) /\ child_max \in N /\ i \in 1 .. Len(n.keys) + 1
        BY <1>1, <1>2, <3>b
      <4> HIDE DEF n, N
      <4>2. keys \in Seq(N) /\ Len(keys) = Len(n.keys) + 1
        BY <4>1, Inserted
      <4> QED BY <4>2 DEF N
    <3>5. Len(keys) = Len(n.kids)
      BY <1>1, <3>4, <3>a
    <3>6. t = Refilled(s, p, keys, kids)
      BY <1>3, <2>3 DEF Refilled, With
    <3> HIDE DEF keys, kids
    <3>7. More(keys, kids)
      BY <3>3, <3>4, <3>5, <3>6
    <3> QED BY <3>7
  <2> QED BY <2>1, <2>2, <2>3
<1>5. PICK keys, kids : More(keys, kids)
  BY <1>4
<1>6. /\ t \in Stores /\ SameList(s, t) /\ t.dirty = s.dirty \cup {p}
      /\ \A q \in Pages \ {p} : t.node[q] = s.node[q]
      /\ t.node[p].keys = keys /\ t.node[p].kids = kids
      /\ t.node[p].leaf = s.node[p].leaf /\ t.node[p].root = s.node[p].root
      /\ t.node[p].parent = s.node[p].parent
  <2>1. keys \in Seq(Nat) /\ kids \in Seq(Pages) /\ t = Refilled(s, p, keys, kids)
    BY <1>5
  <2> HIDE DEF n
  <2> QED BY <2>1, RefilledNode
<1>7. \A q \in Pages \ {p} : Alike(t.node[q], s.node[q])
  BY <1>6 DEF Alike
<1>8. SameParents(s, t)
  BY <1>6 DEF SameParents
<1> QED BY <1>5, <1>6, <1>7, <1>8 DEF TakesChild

\* recompute_internal_node_keys: as many keys as before.
LEMMA KeysRecomputed ==
  ASSUME NEW s \in Stores, NEW p \in Pages, NEW t, t = RecomputeKeys(s, p),
         ~s.node[p].leaf, Len(s.node[p].keys) <= Len(s.node[p].kids)
  PROVE  /\ t \in Stores /\ SameList(s, t) /\ t.dirty = s.dirty \cup {p}
         /\ \A q \in Pages : Like(t.node[q], s.node[q])
         /\ \A q \in Pages \ {p} : t.node[q] = s.node[q]
<1> DEFINE n == s.node[p]
           keys == [i \in DOMAIN n.keys |-> get_node_max_key(s, n.kids[i])]
<1>1. n \in Node /\ n.keys \in Seq(Nat) /\ n.kids \in Seq(Pages)
  BY NodeFields
<1>2. keys \in Seq(Nat) /\ Len(keys) = Len(n.keys)
  <2>1. /\ Len(n.keys) \in Nat /\ DOMAIN n.keys = 1 .. Len(n.keys)
        /\ \A i \in 1 .. Len(n.keys) : n.kids[i] \in Pages
    BY <1>1
  <2>2. \A i \in 1 .. Len(n.keys) : get_node_max_key(s, n.kids[i]) \in Nat
    BY <2>1, MaxKeyIsNat
  <2>3. keys \in [1 .. Len(n.keys) -> Nat]
    BY <2>1, <2>2
  <2> HIDE DEF keys
  <2> QED BY <2>1, <2>3
<1>3. t = Refilled(s, p, keys, n.kids)
  <2>1. [s EXCEPT !.node[p].keys = keys] = With(s, p, [n EXCEPT !.keys = keys])
    BY DEF With
  <2>2. [n EXCEPT !.keys = keys] = [n EXCEPT !.keys = keys, !.kids = n.kids]
    BY <1>1 DEF Node
  <2>3. t = Mark([s EXCEPT !.node[p].keys = keys], p)
    BY DEF RecomputeKeys
  <2> HIDE DEF keys, n
  <2> QED BY <2>1, <2>2, <2>3 DEF Refilled, n
<1> HIDE DEF keys
<1>4. /\ t \in Stores /\ SameList(s, t) /\ t.dirty = s.dirty \cup {p}
      /\ \A q \in Pages \ {p} : t.node[q] = s.node[q]
      /\ t.node[p].keys = keys /\ t.node[p].kids = n.kids
      /\ t.node[p].leaf = n.leaf /\ t.node[p].root = n.root
  BY <1>1, <1>2, <1>3, RefilledNode
<1>5. \A q \in Pages : Like(t.node[q], s.node[q])
  BY <1>2, <1>4 DEF Like
<1> QED BY <1>4, <1>5

\* A key of an internal node that is not marked.
LEMMA KeyUpdated ==
  ASSUME NEW s \in Stores, NEW p \in Pages, NEW old_max \in Nat, ~s.node[s.node[p].parent].leaf,
         NEW t, t = UpdateKeyOf(s, p, old_max)
  PROVE  /\ t \in Stores /\ SameList(s, t) /\ t.dirty = s.dirty
         /\ \A q \in Pages : Like(t.node[q], s.node[q]) /\ t.node[q].parent = s.node[q].parent
         /\ \A q \in Pages \ {s.node[p].parent} : t.node[q] = s.node[q]
<1> DEFINE q == s.node[p].parent
           new_max == get_node_max_key(s, p)
           n == s.node[q]
           i == internal_node_find_child(n, old_max)
<1>1. q \in Pages /\ n \in Node /\ n.keys \in Seq(Nat) /\ Len(n.keys) \in Nat /\ ~n.leaf
  BY NodeFields
<1>2. new_max \in Nat
  BY MaxKeyIsNat
<1>3. i \in 0 .. Len(n.keys)
  BY <1>1, ChildPlaceInRange DEF internal_node_find_child
<1>4. t = IF i < Len(n.keys) THEN [s EXCEPT !.node[q].keys[i + 1] = new_max] ELSE s
  BY DEF UpdateKeyOf, update_internal_node_key
<1> HIDE DEF new_max, i, q
<1>5. CASE i < Len(n.keys)
  <2> DEFINE keys == [n.keys EXCEPT ![i + 1] = new_max]
             m == [n EXCEPT !.keys = keys]
  <2>1. keys \in Seq(Nat) /\ Len(keys) = Len(n.keys)
    BY <1>1, <1>2, <1>3, <1>5
  <2>2. /\ m \in Node /\ m.keys = keys /\ m.leaf = n.leaf /\ m.root = n.root /\ m.kids = n.kids
        /\ m.parent = n.parent
    BY <1>1, <2>1 DEF Node
  <2>3. t = With(s, q, m)
    BY <1>4, <1>5 DEF With
  <2> HIDE DEF m
  <2>4. /\ t \in Stores /\ SameList(s, t) /\ t.dirty = s.dirty
        /\ t.node[q] = m /\ \A r \in Pages \ {q} : t.node[r] = s.node[r]
    <3>1. q \in Pages /\ m \in Node /\ t = With(s, q, m)
      BY <1>1, <2>2, <2>3
    <3> HIDE DEF n
    <3> QED BY <3>1, Written
  <2>5. Like(m, n) /\ \A r \in Pages : Like(s.node[r], s.node[r])
    BY <1>1, <2>1, <2>2 DEF Like
  <2> QED BY <2>2, <2>4, <2>5 DEF q
<1>6. CASE ~(i < Len(n.keys))
  BY <1>4, <1>6 DEF Like, SameList
<1> QED BY <1>5, <1>6 DEF q
=============================================================================
